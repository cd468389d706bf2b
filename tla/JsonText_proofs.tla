-------------------------- MODULE JsonText_proofs --------------------------
(***************************************************************************)
(* The emitter of json.c, for every tree: json_decode reads back what      *)
(* json_stringify writes.  Where the texts that json_stringify puts        *)
(* together stand, how parse_string takes back what emit_string wrote, and *)
(* Legible: by induction on the depth, every tree is read back from what   *)
(* was written.  What a text means is known from JsonGrammar_proofs.       *)
(***************************************************************************)
EXTENDS JsonText, JsonGrammar_proofs

-----------------------------------------------------------------------------
(* Recursive functions, and sequences put together of many. *)

(* A function may be defined by its value at 0 and a step.                 *)
Recurs(V, base, n, step, f) ==
    /\ f \in [0 .. n -> V] /\ f[0] = base
    /\ \A i \in 1 .. n : f[i] = step[<< i, f[i - 1] >>]

LEMMA Recursion ==
    ASSUME NEW V, NEW base \in V, NEW n \in Nat, NEW step \in [(1 .. n) \X V -> V]
    PROVE  \E f : Recurs(V, base, n, step, f)
  <1> DEFINE Upto(k) == \E f : Recurs(V, base, k, step, f)
             S == {k \in Nat : k <= n => Upto(k)}
  <1>1. 0 \in S
    <2> DEFINE g == [i \in 0 .. 0 |-> base]
    <2>1. g \in [0 .. 0 -> V] /\ g[0] = base
      OBVIOUS
    <2>2. \A i \in 1 .. 0 : g[i] = step[<< i, g[i - 1] >>]
      OBVIOUS
    <2> HIDE DEF g
    <2> QED
      BY <2>1, <2>2 DEF Recurs
  <1>2. ASSUME NEW k \in Nat, k \in S
        PROVE  k + 1 \in S
    <2> SUFFICES ASSUME k + 1 <= n
                 PROVE  Upto(k + 1)
      OBVIOUS
    <2>1. PICK f : Recurs(V, base, k, step, f)
      BY <1>2
    <2> DEFINE v == step[<< k + 1, f[k] >>]
               g == [i \in 0 .. k + 1 |-> IF i = k + 1 THEN v ELSE f[i]]
    <2>2. v \in V
      <3>1. << k + 1, f[k] >> \in (1 .. n) \X V
        BY <2>1 DEF Recurs
      <3> QED
        BY <3>1
    <2> HIDE DEF v
    <2>3. g \in [0 .. k + 1 -> V] /\ g[0] = f[0]
      BY <2>1, <2>2 DEF Recurs
    <2>4. \A i \in 1 .. k + 1 : g[i] = step[<< i, g[i - 1] >>]
      <3>1. ASSUME NEW i \in 1 .. k
            PROVE  g[i] = step[<< i, g[i - 1] >>]
        <4>1. g[i] = f[i] /\ g[i - 1] = f[i - 1]
          OBVIOUS
        <4> QED
          BY <2>1, <4>1 DEF Recurs
      <3>2. g[k + 1] = v /\ g[(k + 1) - 1] = f[k]
        OBVIOUS
      <3> HIDE DEF g
      <3> QED
        BY <3>1, <3>2 DEF v
    <2> HIDE DEF g
    <2> QED
      BY <2>1, <2>3, <2>4 DEF Recurs
  <1>3. Nat \subseteq S
    BY <1>1, <1>2, Induct
  <1> QED
    BY <1>3

(* Nothing put together is nothing.                                        *)
LEMMA FlattenNothing == FlattenSeq(<< >>) = << >>
  BY DEF FlattenSeq

(* Two sequences put together, given by their values.                      *)
LEMMA ConcatIs ==
    ASSUME NEW S, NEW r \in Seq(S), NEW t \in Seq(S), NEW u \in Seq(S),
           Len(u) = Len(r) + Len(t),
           \A i \in 1 .. Len(r) : u[i] = r[i],
           \A i \in 1 .. Len(t) : u[Len(r) + i] = t[i]
    PROVE  r \o t = u
  <1>1. /\ r \o t \in Seq(S) /\ Len(r \o t) = Len(r) + Len(t)
        /\ Len(r) \in Nat /\ Len(t) \in Nat
        /\ \A i \in 1 .. Len(r) + Len(t) :
             (r \o t)[i] = IF i <= Len(r) THEN r[i] ELSE t[i - Len(r)]
    BY ConcatProperties, LenProperties
  <1>2. ASSUME NEW i \in 1 .. Len(r) + Len(t)
        PROVE  (r \o t)[i] = u[i]
    <2>1. CASE i \in 1 .. Len(r)
      BY <1>1, <2>1
    <2>2. CASE i - Len(r) \in 1 .. Len(t)
      BY <1>1, <2>2
    <2> QED
      BY <1>1, <2>1, <2>2
  <1> QED
    BY <1>1, <1>2, SeqEqual

(* Tuples are joined one member after the other.                           *)
LEMMA Tuples ==
    /\ \A a, b : << a >> \o << b >> = << a, b >>
    /\ \A a, b, c, d : << a >> \o << b >> \o << c >> \o << d >> = << a, b, c, d >>
  <1> SUFFICES ASSUME NEW a, NEW b, NEW c, NEW d
               PROVE  /\ << a >> \o << b >> = << a, b >>
                      /\ << a >> \o << b >> \o << c >> \o << d >> = << a, b, c, d >>
    BY Zenon
  <1> DEFINE S == {a, b, c, d}
  <1>0. a \in S /\ b \in S /\ c \in S /\ d \in S
    OBVIOUS
  <1> HIDE DEF S
  <1>1. /\ << a >> \in Seq(S) /\ << b >> \in Seq(S) /\ << c >> \in Seq(S)
        /\ << d >> \in Seq(S) /\ << a, b >> \in Seq(S) /\ << a, b, c >> \in Seq(S)
        /\ << a, b, c, d >> \in Seq(S)
        /\ Len(<< a >>) = 1 /\ Len(<< b >>) = 1 /\ Len(<< c >>) = 1 /\ Len(<< d >>) = 1
        /\ Len(<< a, b >>) = 2 /\ Len(<< a, b, c >>) = 3 /\ Len(<< a, b, c, d >>) = 4
    BY <1>0
  <1>2. << a >> \o << b >> = << a, b >>
    <2>1. /\ Len(<< a, b >>) = Len(<< a >>) + Len(<< b >>)
          /\ \A i \in 1 .. Len(<< a >>) : << a, b >>[i] = << a >>[i]
          /\ \A i \in 1 .. Len(<< b >>) : << a, b >>[Len(<< a >>) + i] = << b >>[i]
      <3>1. \A i \in 1 .. 1 : << a, b >>[i] = << a >>[i]
        OBVIOUS
      <3>2. \A i \in 1 .. 1 : << a, b >>[1 + i] = << b >>[i]
        OBVIOUS
      <3>3. Len(<< a, b >>) = Len(<< a >>) + Len(<< b >>)
        BY <1>1
      <3> QED
        BY <1>1, <3>1, <3>2, <3>3, Zenon
    <2> QED
      BY <1>1, <2>1, ConcatIs, Zenon
  <1>3. << a, b >> \o << c >> = << a, b, c >>
    <2>1. /\ Len(<< a, b, c >>) = Len(<< a, b >>) + Len(<< c >>)
          /\ \A i \in 1 .. Len(<< a, b >>) : << a, b, c >>[i] = << a, b >>[i]
          /\ \A i \in 1 .. Len(<< c >>) : << a, b, c >>[Len(<< a, b >>) + i] = << c >>[i]
      BY <1>1
    <2> QED
      BY <1>1, <2>1, ConcatIs, Zenon
  <1>4. << a, b, c >> \o << d >> = << a, b, c, d >>
    <2>1. /\ Len(<< a, b, c, d >>) = Len(<< a, b, c >>) + Len(<< d >>)
          /\ \A i \in 1 .. Len(<< a, b, c >>) : << a, b, c, d >>[i] = << a, b, c >>[i]
          /\ \A i \in 1 .. Len(<< d >>) : << a, b, c, d >>[Len(<< a, b, c >>) + i] = << d >>[i]
      BY <1>1
    <2> QED
      BY <1>1, <2>1, ConcatIs, Zenon
  <1>5. << a >> \o << b >> \o << c >> \o << d >> = << a, b, c, d >>
    BY <1>2, <1>3, <1>4, Zenon
  <1> QED
    BY <1>2, <1>5, Zenon

(* A function on 1 .. n is a sequence.                                     *)
LEMMA FunctionIsSeq ==
    ASSUME NEW V, NEW n \in Nat, NEW r \in [1 .. n -> V]
    PROVE  r \in Seq(V) /\ Len(r) = n
  <1>1. r \in Seq(V)
    BY SeqDef
  <1> QED
    BY <1>1, LenProperties

(* FlattenSeq puts sequences together from the left.                       *)
Flattens(n, ss, f) ==
    f = [i \in 1 .. n |-> IF i = 1 THEN ss[i] ELSE f[i - 1] \o ss[i]]

Follows(n, ss, f) == f[1] = ss[1] /\ \A i \in 1 .. n : f[i + 1] = f[i] \o ss[i + 1]

(* The steps of FlattenSeq.                                                *)
LEMMA FlattensAt ==
    ASSUME NEW n \in Nat, n >= 1, NEW ss, NEW f, Flattens(n, ss, f)
    PROVE  Follows(n - 1, ss, f)
  <1>1. \A i \in 1 .. n : f[i] = IF i = 1 THEN ss[i] ELSE f[i - 1] \o ss[i]
    BY Zenon DEF Flattens
  <1>2. f[1] = ss[1]
    BY <1>1
  <1>3. ASSUME NEW i \in 1 .. n - 1
        PROVE  f[i + 1] = f[i] \o ss[i + 1]
    <2>1. i + 1 \in 1 .. n /\ i + 1 # 1 /\ (i + 1) - 1 = i
      OBVIOUS
    <2>2. f[i + 1] = IF i + 1 = 1 THEN ss[i + 1] ELSE f[(i + 1) - 1] \o ss[i + 1]
      BY <1>1, <2>1, Zenon
    <2> QED
      BY <2>1, <2>2, Zenon
  <1> QED
    BY <1>2, <1>3, Zenon DEF Follows

(* FlattenSeq is what is reached with the last sequence.                   *)
LEMMA FlattenSteps ==
    ASSUME NEW S, NEW n \in Nat, n >= 1, NEW ss \in [1 .. n -> Seq(S)]
    PROVE  \E f : /\ Flattens(n, ss, f) /\ FlattenSeq(ss) = f[n]
                  /\ \A i \in 1 .. n : f[i] \in Seq(S)
  <1> DEFINE V == Seq(S)
             step == [p \in (1 .. n) \X V |->
                        IF p[1] = 1 THEN ss[1] ELSE p[2] \o ss[p[1]]]
  <1>1. /\ << >> \in V /\ \A i \in 1 .. n : ss[i] \in V
        /\ \A u, w \in V : u \o w \in V
    BY ConcatProperties, EmptySeq
  <1> HIDE DEF V
  <1>2. step \in [(1 .. n) \X V -> V]
    BY <1>1
  <1>3. \A i \in 1 .. n : \A w \in V :
          step[<< i, w >>] = IF i = 1 THEN ss[1] ELSE w \o ss[i]
    <2> TAKE i \in 1 .. n
    <2> TAKE w \in V
    <2>1. << i, w >> \in (1 .. n) \X V /\ << i, w >>[1] = i /\ << i, w >>[2] = w
      OBVIOUS
    <2>2. step[<< i, w >>] = IF << i, w >>[1] = 1 THEN ss[1]
                             ELSE << i, w >>[2] \o ss[<< i, w >>[1]]
      BY <2>1, Zenon
    <2> QED
      BY <2>1, <2>2, Zenon
  <1> HIDE DEF step
  <1>4. PICK h : Recurs(V, << >>, n, step, h)
    BY <1>1, <1>2, Recursion
  <1> DEFINE g == [i \in 1 .. n |-> h[i]]
  <1>5. \A i \in 1 .. n : g[i] = IF i = 1 THEN ss[i] ELSE g[i - 1] \o ss[i]
    <2> TAKE i \in 1 .. n
    <2>1. g[i] = step[<< i, h[i - 1] >>] /\ h[i - 1] \in V
      BY <1>4 DEF Recurs
    <2>2. i # 1 => g[i - 1] = h[i - 1]
      OBVIOUS
    <2> HIDE DEF g
    <2> QED
      BY <1>3, <2>1, <2>2
  <1>6. Flattens(n, ss, g)
    <2>1. g = [i \in 1 .. n |-> g[i]]
      OBVIOUS
    <2> HIDE DEF g
    <2> QED
      BY <1>5, <2>1 DEF Flattens
  <1> DEFINE f == CHOOSE f : Flattens(n, ss, f)
  <1> HIDE DEF g
  <1>7. Flattens(n, ss, f)
    BY <1>6
  <1>8. FlattenSeq(ss) = f[n]
    <2>1. Len(ss) = n
      BY FunctionIsSeq
    <2>2. n # 0
      OBVIOUS
    <2> QED
      BY <2>1, <2>2, Zenon DEF FlattenSeq, Flattens
  <1> HIDE DEF f
  <1>9. /\ f[1] = ss[1]
        /\ \A i \in 1 .. n - 1 : f[i + 1] = f[i] \o ss[i + 1]
    BY <1>7, FlattensAt, Zenon DEF Follows
  <1>10. \A i \in 1 .. n : f[i] \in V
    <2> DEFINE P == {i \in Nat : i \in 1 .. n => f[i] \in V}
    <2>1. 0 \in P
      OBVIOUS
    <2>2. ASSUME NEW i \in Nat, i \in P
          PROVE  i + 1 \in P
      <3>1. CASE i = 0
        BY <1>1, <1>9, <3>1
      <3>2. CASE i \in 1 .. n - 1
        <4>1. f[i] \in V /\ ss[i + 1] \in V
          BY <1>1, <2>2, <3>2
        <4>2. f[i + 1] \in V
          BY <1>1, <1>9, <3>2, <4>1, Zenon
        <4> QED
          BY <4>2
      <3> QED
        BY <3>1, <3>2
    <2> HIDE DEF P
    <2>3. Nat \subseteq P
      BY <2>1, <2>2, Induct
    <2> QED
      BY <2>3 DEF P
  <1> QED
    BY <1>7, <1>8, <1>10 DEF V

-----------------------------------------------------------------------------
(* The five recursive functions of JsonText exist: what each says of trees *)
(* of one depth comes of what it says of trees of a lower one.             *)
Below(h, d) == IF d = 0 THEN {} ELSE h[d - 1]
Level(fn, d, below) ==
    IF fn = "Nodes" THEN (IF d = 0 THEN Leaves ELSE Leaves \cup Arrays(below) \cup Objects(below))
    ELSE IF fn = "emit_value" THEN [node \in Nodes[d] |-> emit_node(node, below)]
    ELSE IF fn = "emit_value_indented"
    THEN [node \in Nodes[d] |-> emit_node_indented(node, below, Depth - d)]
    ELSE IF fn = "Readable" THEN {node \in Nodes[d] : IsReadable(node, below)}
    ELSE [node \in Nodes[d] |-> IsReadAs(node, below)]
Levels(fn, n, h) == \A i \in 0 .. n : h[i] = Level(fn, i, Below(h, i))

(* A table of any number of levels exists.                                 *)
LEMMA LevelsRise ==
    ASSUME NEW fn, NEW n \in Nat
    PROVE  \E h : Levels(fn, n, h)
  <1> DEFINE S == {k \in Nat : \E h : Levels(fn, k, h)}
  <1>1. 0 \in S
    <2> DEFINE h == [i \in 0 .. 0 |-> Level(fn, 0, {})]
    <2>1. h[0] = Level(fn, 0, Below(h, 0))
      <3>1. 0 \in 0 .. 0
        OBVIOUS
      <3>2. h[0] = Level(fn, 0, {})
        BY <3>1, Zenon
      <3> QED
        BY <3>2, Zenon DEF Below
    <2> HIDE DEF h
    <2>2. \A i \in 0 .. 0 : i = 0
      OBVIOUS
    <2>3. Levels(fn, 0, h)
      BY <2>1, <2>2, Zenon DEF Levels
    <2> QED
      BY <2>3
  <1>2. ASSUME NEW k \in Nat, k \in S
        PROVE  k + 1 \in S
    <2>1. PICK h : Levels(fn, k, h)
      BY <1>2
    <2> DEFINE top == Level(fn, k + 1, h[k])
               g == [i \in 0 .. k + 1 |-> IF i = k + 1 THEN top ELSE h[i]]
    <2> HIDE DEF top
    <2>2. ASSUME NEW i \in 0 .. k
          PROVE  g[i] = h[i] /\ (i # 0 => g[i - 1] = h[i - 1])
      OBVIOUS
    <2>3. g[k + 1] = top /\ g[(k + 1) - 1] = h[k] /\ k + 1 # 0
      OBVIOUS
    <2> HIDE DEF g
    <2>4. ASSUME NEW i \in 0 .. k
          PROVE  g[i] = Level(fn, i, Below(g, i))
      <3>1. Below(g, i) = Below(h, i)
        BY <2>2, Zenon DEF Below
      <3> QED
        BY <2>1, <2>2, <3>1, Zenon DEF Levels
    <2>5. g[k + 1] = Level(fn, k + 1, Below(g, k + 1))
      BY <2>3, Zenon DEF top, Below
    <2>6. \A i \in 0 .. k + 1 : i \in 0 .. k \/ i = k + 1
      OBVIOUS
    <2>7. Levels(fn, k + 1, g)
      BY <2>4, <2>5, <2>6, Zenon DEF Levels
    <2> QED
      BY <2>7
  <1> HIDE DEF S
  <1>3. Nat \subseteq S
    BY <1>1, <1>2, Induct
  <1> QED
    BY <1>3 DEF S

(* Two tables agree on the levels they both have.                          *)
LEMMA LevelsAgree ==
    ASSUME NEW fn, NEW i \in Nat, NEW m \in Nat, NEW n \in Nat, i <= m, i <= n,
           NEW g, NEW h, Levels(fn, m, g), Levels(fn, n, h)
    PROVE  g[i] = h[i]
  <1> DEFINE S == {k \in Nat : k <= m /\ k <= n => g[k] = h[k]}
  <1>1. 0 \in S
    <2>1. 0 \in 0 .. m /\ 0 \in 0 .. n
      OBVIOUS
    <2>2. g[0] = h[0]
      BY <2>1, Zenon DEF Levels, Below
    <2> QED
      BY <2>2
  <1>2. ASSUME NEW k \in Nat, k \in S
        PROVE  k + 1 \in S
    <2> SUFFICES ASSUME k + 1 <= m, k + 1 <= n
                 PROVE  g[k + 1] = h[k + 1]
      OBVIOUS
    <2>1. k + 1 \in 0 .. m /\ k + 1 \in 0 .. n /\ k + 1 # 0 /\ (k + 1) - 1 = k
      OBVIOUS
    <2>2. g[k] = h[k]
      BY <1>2
    <2>3. Below(g, k + 1) = Below(h, k + 1)
      BY <2>1, <2>2, Zenon DEF Below
    <2> QED
      BY <2>1, <2>3, Zenon DEF Levels
  <1> HIDE DEF S
  <1>3. Nat \subseteq S
    BY <1>1, <1>2, Induct
  <1> QED
    BY <1>3 DEF S

(* So the function of all levels exists: it reads each level from a table  *)
(* that is tall enough.                                                    *)
LEMMA LevelsExist ==
    ASSUME NEW fn
    PROVE  \E f : f = [d \in Nat |-> Level(fn, d, Below(f, d))]
  <1> DEFINE rise(d) == CHOOSE h : Levels(fn, d, h)
             f == [d \in Nat |-> rise(d)[d]]
  <1>1. ASSUME NEW d \in Nat
        PROVE  Levels(fn, d, rise(d))
    BY LevelsRise, Zenon
  <1> HIDE DEF rise
  <1>2. ASSUME NEW d \in Nat
        PROVE  f[d] = Level(fn, d, Below(f, d))
    <2>1. d \in 0 .. d
      OBVIOUS
    <2>2. f[d] = Level(fn, d, Below(rise(d), d))
      BY <1>1, <2>1, Zenon DEF Levels
    <2>3. CASE d = 0
      BY <2>2, <2>3, Zenon DEF Below
    <2>4. CASE d # 0
      <3>1. d - 1 \in Nat /\ d - 1 <= d /\ d - 1 <= d - 1
        BY <2>4
      <3>2. rise(d - 1)[d - 1] = rise(d)[d - 1]
        BY <1>1, <3>1, LevelsAgree
      <3>3. f[d - 1] = rise(d)[d - 1]
        BY <3>1, <3>2, Zenon
      <3> HIDE DEF f
      <3>4. Below(rise(d), d) = Below(f, d)
        BY <2>4, <3>3, Zenon DEF Below
      <3> QED
        BY <2>2, <3>4
    <2> QED
      BY <2>3, <2>4
  <1>3. f = [d \in Nat |-> f[d]]
    OBVIOUS
  <1> HIDE DEF f
  <1>4. f = [d \in Nat |-> Level(fn, d, Below(f, d))]
    BY <1>2, <1>3, Zenon
  <1> QED
    BY <1>4

(* The nodes of a depth, and what the functions say of one.                *)
LEMMA NodesAre ==
    ASSUME NEW d \in Nat
    PROVE  /\ Nodes[0] = Leaves
           /\ Nodes[d + 1] = Leaves \cup Arrays(Nodes[d]) \cup Objects(Nodes[d])
  <1>1. \E f : f = [e \in Nat |-> IF e = 0 THEN Leaves
                                   ELSE Leaves \cup Arrays(f[e - 1]) \cup Objects(f[e - 1])]
    <2>1. PICK f : f = [e \in Nat |-> Level("Nodes", e, Below(f, e))]
      BY LevelsExist
    <2>2. \A e \in Nat : Level("Nodes", e, Below(f, e))
                           = IF e = 0 THEN Leaves
                             ELSE Leaves \cup Arrays(f[e - 1]) \cup Objects(f[e - 1])
      BY Zenon DEF Level, Below
    <2> QED
      BY <2>1, <2>2, Zenon
  <1>2. Nodes = [e \in Nat |-> IF e = 0 THEN Leaves
                               ELSE Leaves \cup Arrays(Nodes[e - 1]) \cup Objects(Nodes[e - 1])]
    BY <1>1, Zenon DEF Nodes
  <1>3. 0 \in Nat /\ d + 1 \in Nat /\ d + 1 # 0 /\ (d + 1) - 1 = d
    OBVIOUS
  <1> QED
    BY <1>2, <1>3, Zenon

(* emit_value, its recursion unfolded once.                                *)
LEMMA EmitIs ==
    ASSUME NEW d \in Nat
    PROVE  emit_value[d] = [node \in Nodes[d] |-> emit_node(node, Below(emit_value, d))]
  <1>1. PICK f : f = [e \in Nat |-> Level("emit_value", e, Below(f, e))]
    BY LevelsExist
  <1>2. \A e \in Nat : Level("emit_value", e, Below(f, e))
                         = [node \in Nodes[e] |->
                              emit_node(node, IF e = 0 THEN {} ELSE f[e - 1])]
    BY Zenon DEF Level, Below
  <1>3. f = [e \in Nat |-> [node \in Nodes[e] |->
                              emit_node(node, IF e = 0 THEN {} ELSE f[e - 1])]]
    BY <1>1, <1>2, Zenon
  <1>4. emit_value = [e \in Nat |-> [node \in Nodes[e] |->
                         emit_node(node, IF e = 0 THEN {} ELSE emit_value[e - 1])]]
    BY <1>3, Zenon DEF emit_value
  <1> QED
    BY <1>4, Zenon DEF Below

(* emit_value_indented, its recursion unfolded once.                       *)
LEMMA IndentedIs ==
    ASSUME NEW d \in Nat
    PROVE  emit_value_indented[d] =
             [node \in Nodes[d] |->
                emit_node_indented(node, Below(emit_value_indented, d), Depth - d)]
  <1>1. PICK f : f = [e \in Nat |-> Level("emit_value_indented", e, Below(f, e))]
    BY LevelsExist
  <1>2. \A e \in Nat : Level("emit_value_indented", e, Below(f, e))
                         = [node \in Nodes[e] |->
                              emit_node_indented(node, IF e = 0 THEN {} ELSE f[e - 1],
                                                 Depth - e)]
    BY Zenon DEF Level, Below
  <1>3. f = [e \in Nat |-> [node \in Nodes[e] |->
               emit_node_indented(node, IF e = 0 THEN {} ELSE f[e - 1], Depth - e)]]
    BY <1>1, <1>2, Zenon
  <1>4. emit_value_indented = [e \in Nat |-> [node \in Nodes[e] |->
           emit_node_indented(node, IF e = 0 THEN {} ELSE emit_value_indented[e - 1],
                              Depth - e)]]
    BY <1>3, Zenon DEF emit_value_indented
  <1> QED
    BY <1>4, Zenon DEF Below

(* Readable, its recursion unfolded once.                                  *)
LEMMA ReadableIs ==
    ASSUME NEW d \in Nat
    PROVE  Readable[d] = {node \in Nodes[d] : IsReadable(node, Below(Readable, d))}
  <1>1. PICK f : f = [e \in Nat |-> Level("Readable", e, Below(f, e))]
    BY LevelsExist
  <1>2. \A e \in Nat : Level("Readable", e, Below(f, e))
                         = {node \in Nodes[e] :
                              IsReadable(node, IF e = 0 THEN {} ELSE f[e - 1])}
    BY Zenon DEF Level, Below
  <1>3. f = [e \in Nat |-> {node \in Nodes[e] :
                              IsReadable(node, IF e = 0 THEN {} ELSE f[e - 1])}]
    BY <1>1, <1>2, Zenon
  <1>4. Readable = [e \in Nat |-> {node \in Nodes[e] :
                       IsReadable(node, IF e = 0 THEN {} ELSE Readable[e - 1])}]
    BY <1>3, Zenon DEF Readable
  <1> QED
    BY <1>4, Zenon DEF Below

(* ReadAs, its recursion unfolded once.                                    *)
LEMMA ReadAsIs ==
    ASSUME NEW d \in Nat
    PROVE  ReadAs[d] = [node \in Nodes[d] |-> IsReadAs(node, Below(ReadAs, d))]
  <1>1. PICK f : f = [e \in Nat |-> Level("ReadAs", e, Below(f, e))]
    BY LevelsExist
  <1>2. \A e \in Nat : Level("ReadAs", e, Below(f, e))
                         = [node \in Nodes[e] |->
                              IsReadAs(node, IF e = 0 THEN {} ELSE f[e - 1])]
    BY Zenon DEF Level, Below
  <1>3. f = [e \in Nat |-> [node \in Nodes[e] |->
                              IsReadAs(node, IF e = 0 THEN {} ELSE f[e - 1])]]
    BY <1>1, <1>2, Zenon
  <1>4. ReadAs = [e \in Nat |-> [node \in Nodes[e] |->
                     IsReadAs(node, IF e = 0 THEN {} ELSE ReadAs[e - 1])]]
    BY <1>3, Zenon DEF ReadAs
  <1> QED
    BY <1>4, Zenon DEF Below

(* A text that stands within another one, from p on. *)
Sits(t, p, x) ==
    /\ p \in 1 .. Len(t) + 1 /\ p + Len(x) <= Len(t) + 1
    /\ \A k \in 1 .. Len(x) : t[p + k - 1] = x[k]

(* A text that stands within another one is a piece of it, byte for byte.  *)
LEMMA SitsFacts ==
    ASSUME NEW t \in Text, NEW p, NEW x \in Text, Sits(t, p, x)
    PROVE  /\ p \in 1 .. Len(t) + 1 /\ p + Len(x) \in 1 .. Len(t) + 1
           /\ Len(x) \in Nat /\ p \in Nat /\ Len(t) \in Nat
           /\ Span(t, p, p + Len(x) - 1) /\ Piece(t, p, p + Len(x) - 1) = x
           /\ \A k \in 1 .. Len(x) : p + k - 1 \in 1 .. Len(t) /\ ByteAt(t, p + k - 1) = x[k]
  <1>1. p \in 1 .. Len(t) + 1 /\ p + Len(x) <= Len(t) + 1
        /\ Len(x) \in Nat /\ p \in Nat /\ Len(t) \in Nat
    BY TextFacts DEF Sits
  <1>2. p + Len(x) \in 1 .. Len(t) + 1 /\ Span(t, p, p + Len(x) - 1)
    BY <1>1 DEF Span
  <1>3. \A k \in 1 .. Len(x) : p + k - 1 \in 1 .. Len(t) /\ t[p + k - 1] = x[k]
    BY <1>1 DEF Sits
  <1>4. \A k \in 1 .. Len(x) : ByteAt(t, p + k - 1) = x[k]
    BY <1>3 DEF ByteAt
  <1> DEFINE j == p + Len(x) - 1
  <1>5. Span(t, p, j) /\ Len(x) = j - p + 1 /\ \A k \in 1 .. Len(x) : x[k] = t[p + k - 1]
    BY <1>1, <1>2, <1>3
  <1> HIDE DEF j
  <1>6. x = Piece(t, p, j)
    BY <1>5, PieceIs
  <1> QED
    BY <1>1, <1>2, <1>3, <1>4, <1>6 DEF j

(* Two texts put together: the length and the bytes.                       *)
LEMMA JoinFacts ==
    ASSUME NEW x \in Text, NEW y \in Text
    PROVE  /\ x \o y \in Text /\ Len(x \o y) = Len(x) + Len(y)
           /\ Len(x) \in Nat /\ Len(y) \in Nat
           /\ \A k \in 1 .. Len(x) : (x \o y)[k] = x[k]
           /\ \A k \in 1 .. Len(y) : (x \o y)[Len(x) + k] = y[k]
  BY DEF Text

(* Where two texts put together stand, each of them stands.                *)
LEMMA SitsJoin ==
    ASSUME NEW t \in Text, NEW p, NEW x \in Text, NEW y \in Text, Sits(t, p, x \o y)
    PROVE  Sits(t, p, x) /\ Sits(t, p + Len(x), y)
  <1> DEFINE z == x \o y
             m == Len(x)
             n == Len(y)
  <1>1. /\ Len(z) = m + n /\ m \in Nat /\ n \in Nat
        /\ \A k \in 1 .. m : z[k] = x[k]
        /\ \A k \in 1 .. n : z[m + k] = y[k]
    BY JoinFacts
  <1>2. p \in 1 .. Len(t) + 1 /\ p + Len(z) <= Len(t) + 1 /\ Len(t) \in Nat
        /\ \A k \in 1 .. Len(z) : t[p + k - 1] = z[k]
    BY TextFacts DEF Sits
  <1> HIDE DEF z
  <1>3. Sits(t, p, x)
    <2>1. \A k \in 1 .. m : k \in 1 .. Len(z)
      BY <1>1
    <2> QED
      BY <1>1, <1>2, <2>1 DEF Sits
  <1>4. Sits(t, p + m, y)
    <2>1. ASSUME NEW k \in 1 .. n
          PROVE  t[p + m + k - 1] = y[k]
      <3>1. m + k \in 1 .. Len(z) /\ p + m + k - 1 = p + (m + k) - 1
        BY <1>1, <1>2
      <3> QED
        BY <1>1, <1>2, <3>1
    <2> QED
      BY <1>1, <1>2, <2>1 DEF Sits
  <1> QED
    BY <1>3, <1>4

(* Where a text of one byte stands, that byte is.                          *)
LEMMA SitsByte ==
    ASSUME NEW t \in Text, NEW p, NEW c, Sits(t, p, << c >>)
    PROVE  p \in 1 .. Len(t) /\ t[p] = c /\ ByteAt(t, p) = c /\ p \in Nat /\ Len(t) \in Nat
  <1>1. Len(<< c >>) = 1 /\ << c >>[1] = c /\ Len(t) \in Nat
    BY TextFacts
  <1>2. p \in 1 .. Len(t) + 1 /\ p + 1 <= Len(t) + 1 /\ p + 1 - 1 = p /\ 1 \in 1 .. 1
    BY <1>1 DEF Sits
  <1>3. t[p] = c
    BY <1>1, <1>2 DEF Sits
  <1> QED
    BY <1>1, <1>2, <1>3 DEF ByteAt

(* Where a text of spaces stands, there are only spaces.                   *)
LEMMA SitsBlank ==
    ASSUME NEW t \in Text, NEW p, NEW x \in Text, Sits(t, p, x), Blank(x)
    PROVE  BlankSpan(t, p, p + Len(x) - 1)
  <1>1. p \in Nat /\ Len(x) \in Nat /\ DOMAIN x = 1 .. Len(x)
    BY SitsFacts, TextFacts
  <1> SUFFICES ASSUME NEW k \in p .. p + Len(x) - 1
               PROVE  t[k] \in Spaces
    BY DEF BlankSpan
  <1>2. k - p + 1 \in 1 .. Len(x) /\ p + (k - p + 1) - 1 = k
    BY <1>1
  <1>3. t[p + (k - p + 1) - 1] = x[k - p + 1]
    BY <1>2 DEF Sits
  <1> QED
    BY <1>1, <1>2, <1>3 DEF Blank

(* Texts in a row stand one behind the other.                              *)
InPlaces(n, ss, t, p, q, at) ==
    /\ at[1] = p /\ at[n + 1] = q
    /\ \A k \in 1 .. n : Sits(t, at[k], ss[k]) /\ at[k + 1] = at[k] + Len(ss[k])

(* Where a text put together of many stands, there is a place for each of  *)
(* them, the next one where the one before it ends.                        *)
LEMMA FlattenPlaces ==
    ASSUME NEW n \in Nat, NEW ss \in [1 .. n -> Text], NEW t \in Text, NEW p,
           Sits(t, p, FlattenSeq(ss))
    PROVE  /\ FlattenSeq(ss) \in Text
           /\ \E at : InPlaces(n, ss, t, p, p + Len(FlattenSeq(ss)), at)
  <1>1. CASE n = 0
    <2>1. ss = << >>
      BY <1>1
    <2>2. FlattenSeq(ss) = << >>
      BY <2>1, FlattenNothing
    <2>3. << >> \in Text /\ Len(<< >>) = 0 /\ p \in Nat
      BY <2>2, TextFacts DEF Text, Sits
    <2> DEFINE at == [k \in 1 .. 1 |-> p]
    <2>4. at[1] = p /\ at[n + 1] = p + Len(FlattenSeq(ss)) /\ 1 .. n = {}
      BY <1>1, <2>2, <2>3
    <2> HIDE DEF at
    <2>5. InPlaces(n, ss, t, p, p + Len(FlattenSeq(ss)), at)
      BY <2>4, Zenon DEF InPlaces
    <2> QED
      BY <2>2, <2>3, <2>5
  <1>2. CASE n # 0
    <2> DEFINE S == 1 .. 255
               x == FlattenSeq(ss)
    <2>1. n >= 1 /\ ss \in [1 .. n -> Seq(S)]
      BY <1>2 DEF Text
    <2> HIDE DEF S
    <2>2. PICK f : /\ Flattens(n, ss, f) /\ FlattenSeq(ss) = f[n]
                   /\ \A i \in 1 .. n : f[i] \in Seq(S)
      BY <2>1, FlattenSteps
    <2>3. \A i \in 1 .. n : f[i] \in Text
      BY <2>2 DEF Text, S
    <2>4. /\ f[1] = ss[1]
          /\ \A i \in 1 .. n : i # n => f[i + 1] = f[i] \o ss[i + 1]
      <3>1. Follows(n - 1, ss, f)
        BY <2>1, <2>2, FlattensAt
      <3>2. \A i \in 1 .. n : i # n => i \in 1 .. n - 1
        OBVIOUS
      <3> QED
        BY <3>1, <3>2 DEF Follows
    <2>5. x = f[n] /\ x \in Text
      BY <2>1, <2>2, <2>3
    <2> HIDE DEF x
    <2> DEFINE Q == {i \in Nat : i < n => Sits(t, p, f[n - i])}
    <2>6. 0 \in Q
      BY <2>5 DEF x
    <2>7. ASSUME NEW i \in Nat, i \in Q
          PROVE  i + 1 \in Q
      <3> SUFFICES ASSUME i + 1 < n
                   PROVE  Sits(t, p, f[n - (i + 1)])
        OBVIOUS
      <3> DEFINE m == n - (i + 1)
      <3>1. m \in 1 .. n /\ m # n /\ m + 1 \in 1 .. n /\ n - i = m + 1 /\ i < n
        OBVIOUS
      <3>2. Sits(t, p, f[m + 1]) /\ f[m + 1] = f[m] \o ss[m + 1]
        BY <2>4, <2>7, <3>1
      <3> HIDE DEF m
      <3>3. f[m] \in Text /\ ss[m + 1] \in Text
        BY <2>3, <3>1
      <3>4. Sits(t, p, f[m])
        BY <3>2, <3>3, SitsJoin
      <3> QED
        BY <3>4 DEF m
    <2> HIDE DEF Q
    <2>8. Nat \subseteq Q
      BY <2>6, <2>7, Induct
    <2>9. ASSUME NEW m \in 1 .. n
          PROVE  Sits(t, p, f[m])
      <3>1. n - m \in Nat /\ n - m < n /\ n - (n - m) = m
        OBVIOUS
      <3>2. n - m \in Q
        BY <2>8, <3>1
      <3> QED
        BY <3>1, <3>2 DEF Q
    <2> DEFINE at == [k \in 1 .. n + 1 |-> IF k = 1 THEN p ELSE p + Len(f[k - 1])]
    <2>10. at[1] = p /\ at[n + 1] = p + Len(f[n])
      <3>1. 1 \in 1 .. n + 1 /\ n + 1 \in 1 .. n + 1 /\ n + 1 # 1 /\ (n + 1) - 1 = n
        BY <2>1
      <3> QED
        BY <3>1
    <2>11. ASSUME NEW k \in 1 .. n
           PROVE  Sits(t, at[k], ss[k]) /\ at[k + 1] = at[k] + Len(ss[k])
      <3>0. p \in Nat /\ ss[k] \in Text /\ f[k] \in Text /\ Len(ss[k]) \in Nat
        BY <2>3, TextFacts DEF Sits
      <3>1. CASE k = 1
        <4>1. at[k] = p /\ at[k + 1] = p + Len(f[1]) /\ 1 \in 1 .. n
          BY <3>1
        <4> QED
          BY <2>4, <2>9, <3>1, <4>1
      <3>2. CASE k # 1
        <4>1. k - 1 \in 1 .. n /\ k - 1 # n /\ (k - 1) + 1 = k /\ k \in 1 .. n + 1 /\ k + 1 \in 1 .. n + 1
              /\ k + 1 # 1 /\ (k + 1) - 1 = k
          BY <3>2
        <4>2. at[k] = p + Len(f[k - 1]) /\ at[k + 1] = p + Len(f[k])
          BY <3>2, <4>1
        <4>3. f[k] = f[k - 1] \o ss[k] /\ f[k - 1] \in Text
          BY <2>3, <2>4, <4>1
        <4>4. Sits(t, p + Len(f[k - 1]), ss[k])
          <5>1. Sits(t, p, f[k - 1] \o ss[k])
            BY <2>9, <4>3
          <5> QED
            BY <3>0, <4>3, <5>1, SitsJoin
        <4>5. Len(f[k]) = Len(f[k - 1]) + Len(ss[k]) /\ Len(f[k - 1]) \in Nat
          <5> DEFINE u == f[k - 1]
                     v == ss[k]
          <5>1. u \in Text /\ v \in Text /\ f[k] = u \o v
            BY <3>0, <4>3
          <5> HIDE DEF u, v
          <5>2. Len(u \o v) = Len(u) + Len(v) /\ Len(u) \in Nat
            BY <5>1, JoinFacts
          <5> QED
            BY <5>1, <5>2 DEF u, v
        <4> HIDE DEF at
        <4> QED
          BY <3>0, <4>2, <4>4, <4>5
      <3> QED
        BY <3>1, <3>2
    <2> HIDE DEF at
    <2>12. InPlaces(n, ss, t, p, p + Len(FlattenSeq(ss)), at)
      BY <2>5, <2>10, <2>11, Zenon DEF InPlaces, x
    <2> QED
      BY <2>5, <2>12, Zenon DEF x
  <1> QED
    BY <1>1, <1>2

(* What json_stringify writes of one byte of a string.                     *)
Controls == (1 .. 30) \ {8, 9, 10, 12, 13}
Shorts == {34, 92, 8, 9, 10, 12, 13}

(* What emit_string makes of a byte: a short escape, the escape with four  *)
(* hexadecimal digits, or the byte itself.                                 *)
LEMMA EmitByteIs ==
    ASSUME NEW c \in 1 .. 255
    PROVE  /\ c \in Shorts => \E e \in ShortEscapes : EmitByte(c) = << Backslash, e[1] >> /\ e[2] = c
           /\ c \in Controls => EmitByte(c) = << Backslash, 117 >> \o write_hex16(c)
           /\ c \notin Shorts \cup Controls => EmitByte(c) = << c >> /\ c >= 31
                                               /\ c # Quote /\ c # Backslash
  <1>1. CASE c \in {Quote, Backslash}
    <2>0. c \notin {8, 9, 10, 12, 13} /\ c \notin (1 .. 30) \ {8, 9, 10, 12, 13}
      BY <1>1 DEF Quote, Backslash
    <2>1. EmitByte(c) = << Backslash, c >>
      BY <1>1, <2>0 DEF EmitByte
    <2>2. << c, c >> \in ShortEscapes /\ << c, c >>[1] = c /\ << c, c >>[2] = c
      BY <1>1 DEF ShortEscapes, Quote, Backslash
    <2>3. c \notin Controls /\ c \in Shorts
      BY <1>1 DEF Controls, Shorts, Quote, Backslash
    <2> QED
      BY <2>1, <2>2, <2>3
  <1>2. CASE c \in {8, 9, 10, 12, 13}
    <2> DEFINE letter == IF c = 8 THEN 98 ELSE IF c = 9 THEN 116 ELSE IF c = 10 THEN 110
                         ELSE IF c = 12 THEN 102 ELSE 114
    <2>1. EmitByte(c) = << Backslash, letter >>
      BY <1>2 DEF EmitByte, Quote, Backslash
    <2>2. << letter, c >> \in ShortEscapes
      BY <1>2 DEF ShortEscapes
    <2>3. c \notin Controls /\ c \in Shorts
      BY <1>2 DEF Controls, Shorts
    <2> HIDE DEF letter
    <2>4. << letter, c >>[1] = letter /\ << letter, c >>[2] = c
      OBVIOUS
    <2> QED
      BY <2>1, <2>2, <2>3, <2>4
  <1>3. CASE c \in Controls
    <2>0. c \in (1 .. 30) \ {8, 9, 10, 12, 13} /\ c \notin {Quote, Backslash} /\ ~(c >= 31)
      BY <1>3 DEF Controls, Quote, Backslash
    <2>1. EmitByte(c) = << Backslash, 117 >> \o write_hex16(c)
      BY <2>0 DEF EmitByte
    <2>2. c \notin Shorts
      BY <1>3 DEF Controls, Shorts
    <2> QED
      BY <1>3, <2>1, <2>2
  <1>4. CASE c \notin Shorts \cup Controls
    <2>1. c >= 31 /\ c \notin {Quote, Backslash}
      BY <1>4 DEF Shorts, Controls, Quote, Backslash
    <2>2. EmitByte(c) = << c >>
      BY <2>1 DEF EmitByte, Quote, Backslash
    <2> QED
      BY <1>4, <2>1, <2>2
  <1> QED
    BY <1>1, <1>2, <1>3, <1>4 DEF Shorts, Quote, Backslash

(* write_hex16 writes what the grammar reads.                              *)
LEMMA HexWritten ==
    ASSUME NEW c \in Controls
    PROVE  LET y == << Backslash, 117 >> \o write_hex16(c)
           IN  y \in Text /\ Len(y) = 6 /\ y[1] = Backslash /\ IsHex(y) /\ Hex(y) = c
  <1> DEFINE y == << Backslash, 117 >> \o write_hex16(c)
             hi == c \div 16
             lo == IF c % 16 < 10 THEN 48 + (c % 16) ELSE 55 + (c % 16)
  <1>1. /\ c \div 4096 = 0 /\ (c \div 256) % 16 = 0 /\ (c \div 16) % 16 = hi /\ hi \in 0 .. 1
        /\ c % 16 \in 0 .. 15 /\ c = 16 * hi + (c % 16)
    BY DEF Controls
  <1>2. lo \in Digits \cup (65 .. 70)
    BY <1>1 DEF Digits
  <1>3. write_hex16(c) = << 48, 48, 48 + hi, lo >>
    BY <1>1 DEF write_hex16
  <1>4. << Backslash, 117 >> \o << 48, 48, 48 + hi, lo >> = << Backslash, 117, 48, 48, 48 + hi, lo >>
    <2> DEFINE S == 1 .. 255
               e == 48 + hi
               front == << Backslash, 117 >>
               back == << 48, 48, e, lo >>
               all == << Backslash, 117, 48, 48, e, lo >>
    <2>1. Backslash \in S /\ 117 \in S /\ 48 \in S /\ e \in S /\ lo \in S
      BY <1>1, <1>2 DEF Backslash, Digits
    <2> HIDE DEF S, e, lo
    <2>2. front \in Seq(S) /\ back \in Seq(S) /\ all \in Seq(S)
      BY <2>1
    <2>3. Len(front) = 2 /\ Len(back) = 4 /\ Len(all) = 6
      OBVIOUS
    <2>4. /\ \A i \in 1 .. 2 : all[i] = front[i]
          /\ \A i \in 1 .. 4 : all[2 + i] = back[i]
      OBVIOUS
    <2> HIDE DEF front, back, all
    <2>5. /\ Len(all) = Len(front) + Len(back)
          /\ \A i \in 1 .. Len(front) : all[i] = front[i]
          /\ \A i \in 1 .. Len(back) : all[Len(front) + i] = back[i]
      BY <2>3, <2>4
    <2>6. front \o back = all
      BY <2>2, <2>5, ConcatIs, Zenon
    <2> QED
      BY <2>6 DEF front, back, all, e
  <1>5. y = << Backslash, 117, 48, 48, 48 + hi, lo >>
    BY <1>3, <1>4
  <1>6. (IF lo \in Digits THEN lo - 48 ELSE (lo % 32) + 9) = c % 16
    BY <1>1 DEF Digits
  <1> HIDE DEF y, lo, hi
  <1>7. /\ Len(y) = 6 /\ y[1] = Backslash /\ y[2] = 117 /\ y[3] = 48 /\ y[4] = 48
        /\ y[5] = 48 + hi /\ y[6] = lo
    BY <1>5
  <1>8. y \in Text
    <2> DEFINE e == 48 + hi
    <2>1. /\ Backslash \in 1 .. 255 /\ 117 \in 1 .. 255 /\ 48 \in 1 .. 255
          /\ e \in 1 .. 255 /\ lo \in 1 .. 255
      <3>1. Backslash \in 1 .. 255 /\ 117 \in 1 .. 255 /\ 48 \in 1 .. 255
        BY DEF Backslash
      <3>2. lo \in 1 .. 255
        BY <1>2 DEF Digits
      <3>3. hi \in 0 .. 1
        BY <1>1
      <3>4. e \in 1 .. 255
        BY <3>3
      <3> QED
        BY <3>1, <3>2, <3>4
    <2>2. y = << Backslash, 117, 48, 48, e, lo >>
      BY <1>5
    <2> HIDE DEF e
    <2> QED
      BY <2>1, <2>2 DEF Text
  <1>9. IsHex(y)
    <2>1. \A k \in 3 .. 6 : k = 3 \/ k = 4 \/ k = 5 \/ k = 6
      OBVIOUS
    <2>2. 48 \in Digits /\ 48 + hi \in Digits
      BY <1>1 DEF Digits
    <2>3. \A k \in 3 .. 6 : y[k] \in Digits \cup (65 .. 70) \cup (97 .. 102)
      BY <1>2, <1>7, <2>1, <2>2
    <2> QED
      BY <1>7, <2>3 DEF IsHex
  <1>10. Hex(y) = 4096 * 0 + 256 * 0 + 16 * hi + (c % 16)
    <2>1. 48 \in Digits /\ 48 + hi \in Digits /\ (48 + hi) - 48 = hi /\ 48 - 48 = 0
      BY <1>1 DEF Digits
    <2> QED
      BY <1>6, <1>7, <2>1 DEF Hex
  <1>11. Hex(y) = c
    BY <1>1, <1>10
  <1> QED
    BY <1>7, <1>8, <1>9, <1>11 DEF y

(* A byte of its own is written as a character that means it.              *)
LEMMA ByteMeans ==
    ASSUME NEW c \in 1 .. 127, c # UnitSeparator
    PROVE  /\ EmitByte(c) \in Text /\ Len(EmitByte(c)) \in 1 .. 12 /\ EmitByte(c)[1] # Quote
           /\ << c >> \in UnitMeans(EmitByte(c))
  <1>0. c \in 1 .. 255 /\ Backslash # Quote /\ Backslash \in 1 .. 255
    BY DEF Backslash, Quote
  <1>1. CASE c \in Shorts
    <2>1. PICK e \in ShortEscapes : EmitByte(c) = << Backslash, e[1] >> /\ e[2] = c
      BY <1>0, <1>1, EmitByteIs
    <2> DEFINE y == << Backslash, e[1] >>
    <2>2. e[1] \in 1 .. 255
      BY DEF ShortEscapes
    <2>3. y \in Text /\ Len(y) = 2 /\ y[1] = Backslash
      BY <1>0, <2>2 DEF Text
    <2>4. << e[2] >> \in ShortMeans(y)
      BY Zenon DEF ShortMeans
    <2> HIDE DEF y
    <2>5. ~IsHex(y) /\ ~IsPair(y)
      BY <2>3 DEF IsHex, IsPair
    <2>6. UnitMeans(y) = ShortMeans(y)
      BY <2>3, <2>5, UnitCases
    <2> QED
      BY <1>0, <2>1, <2>3, <2>4, <2>6 DEF y
  <1>2. CASE c \in Controls
    <2> DEFINE y == << Backslash, 117 >> \o write_hex16(c)
    <2>1. y \in Text /\ Len(y) = 6 /\ y[1] = Backslash /\ IsHex(y) /\ Hex(y) = c
      BY <1>2, HexWritten
    <2>2. EmitByte(c) = y
      BY <1>0, <1>2, EmitByteIs
    <2> HIDE DEF y
    <2>3. UnitMeans(y) = HexMeans(y)
      BY <2>1, UnitCases
    <2>4. c \notin Surrogates \cup {0} /\ utf8_write_char(c) = << c >>
      BY DEF Surrogates, utf8_write_char
    <2>5. << c >> \in HexMeans(y)
      BY <2>1, <2>4 DEF HexMeans
    <2> QED
      BY <1>0, <2>1, <2>2, <2>3, <2>5
  <1>3. CASE c \notin Shorts \cup Controls
    <2> DEFINE y == << c >>
    <2>0. EmitByte(c) = << c >> /\ c >= 31 /\ c # Quote /\ c # Backslash
      BY <1>0, <1>3, EmitByteIs
    <2>1. EmitByte(c) = y /\ c > 31 /\ c # Quote /\ c # Backslash
      BY <2>0 DEF UnitSeparator
    <2>2. y \in Text /\ Len(y) = 1 /\ y[1] = c
      BY <1>0 DEF Text
    <2>3. IsUtf8(y)
      <3> HIDE DEF y
      <3>1. CodePoint(y) = c
        BY <2>2 DEF CodePoint
      <3>2. c \in 0 .. 127 /\ c >= 0 /\ c <= 127 /\ c \notin Surrogates
        BY DEF Surrogates
      <3>3. /\ << 0 .. 127, 192 .. 223, 224 .. 239, 240 .. 247 >>[1] = 0 .. 127
            /\ << 0, 128, 2048, 65536 >>[1] = 0
            /\ << 127, 2047, 65535, 1114111 >>[1] = 127
        OBVIOUS
      <3> QED
        BY <2>2, <3>1, <3>2, <3>3 DEF IsUtf8
    <2> HIDE DEF y
    <2>4. IsBare(y)
      BY <2>1, <2>2, <2>3 DEF IsBare
    <2>5. UnitMeans(y) = {y}
      BY <2>1, <2>2, <2>4, UnitCases
    <2> QED
      BY <2>1, <2>2, <2>5 DEF y
  <1> QED
    BY <1>1, <1>2, <1>3

(* U+001F is not a character within quotes.                                *)
LEMMA SeparatorRefused ==
    ASSUME NEW b, b[1] = UnitSeparator
    PROVE  Unit(b).len = 0
  BY DEF Unit, Refused, UnitSeparator, Backslash

(* The first byte of a character says how long it is, and the others say   *)
(* that they are not the first.                                            *)
Follows8 == 128 .. 191
LengthOf(c) == IF c <= 127 THEN 1 ELSE IF c <= 223 THEN 2 ELSE IF c <= 239 THEN 3 ELSE 4

(* A character of valid UTF-8 starts with a byte that tells its length,    *)
(* and the bytes that follow are no first bytes.                           *)
LEMMA Utf8Shape ==
    ASSUME NEW y \in Text, IsUtf8(y)
    PROVE  /\ Len(y) \in 1 .. 4 /\ y[1] \in 1 .. 255
           /\ y[1] \notin Follows8 /\ Len(y) = LengthOf(y[1])
           /\ Len(y) = 1 => y[1] <= 127
           /\ Len(y) # 1 => y[1] >= 192
           /\ \A k \in 2 .. Len(y) : y[k] \in Follows8
  <1> DEFINE n == Len(y)
             c == y[1]
             ranges == << 0 .. 127, 192 .. 223, 224 .. 239, 240 .. 247 >>
  <1>1. n \in 1 .. 4 /\ c \in ranges[n] /\ \A k \in 2 .. n : y[k] \in Follows8
    BY DEF IsUtf8, Follows8
  <1>2. ranges[1] = 0 .. 127 /\ ranges[2] = 192 .. 223 /\ ranges[3] = 224 .. 239
        /\ ranges[4] = 240 .. 247
    OBVIOUS
  <1>3. c \in 1 .. 255
    <2>1. 1 \in 1 .. n
      BY <1>1
    <2> QED
      BY <2>1, TextFacts
  <1> HIDE DEF n, c, ranges
  <1>4. n = 1 \/ n = 2 \/ n = 3 \/ n = 4
    BY <1>1
  <1>5. /\ n = 1 => c \in 0 .. 127
        /\ n = 2 => c \in 192 .. 223
        /\ n = 3 => c \in 224 .. 239
        /\ n = 4 => c \in 240 .. 247
    <2>1. c \in ranges[n]
      BY <1>1
    <2> QED
      BY <1>2, <2>1
  <1>6. c \notin Follows8 /\ n = LengthOf(c) /\ (n = 1 => c <= 127) /\ (n # 1 => c >= 192)
    BY <1>3, <1>4, <1>5 DEF Follows8, LengthOf
  <1> QED
    BY <1>1, <1>3, <1>6 DEF n, c

(* The same of a character that is a part of a text.                       *)
LEMMA Utf8Placed ==
    ASSUME NEW r \in Text, NEW j \in Nat, NEW n \in 1 .. 4, j >= 1, j + n <= Len(r) + 1,
           IsUtf8(SubSeq(r, j, j + n - 1))
    PROVE  LET y == Piece(r, j, j + n - 1)
           IN  /\ y \in Text /\ IsUtf8(y) /\ Len(y) = n
               /\ \A k \in 1 .. n : y[k] = r[j + k - 1]
               /\ r[j] = y[1] /\ r[j] \notin Follows8 /\ n = LengthOf(r[j])
               /\ \A k \in 1 .. n - 1 : r[j + k] \in Follows8
  <1> DEFINE e == j + n - 1
             y == Piece(r, j, e)
  <1>1. Len(r) \in Nat
    BY TextFacts
  <1>2. Span(r, j, e) /\ e - j + 1 = n
    BY <1>1 DEF Span
  <1>3. IsUtf8(y)
    BY DEF Piece
  <1> HIDE DEF e
  <1>4. /\ y \in Text /\ Len(y) = e - j + 1
        /\ \A k \in 1 .. e - j + 1 : y[k] = r[j + k - 1]
    BY <1>2, PieceFacts
  <1> HIDE DEF y
  <1>5. Len(y) = n /\ \A k \in 1 .. n : y[k] = r[j + k - 1]
    BY <1>2, <1>4
  <1>6. y[1] = r[j]
    <2>1. 1 \in 1 .. n /\ j + 1 - 1 = j
      OBVIOUS
    <2> QED
      BY <1>5, <2>1
  <1>7. /\ y[1] \notin Follows8 /\ Len(y) = LengthOf(y[1])
        /\ \A k \in 2 .. Len(y) : y[k] \in Follows8
    BY <1>3, <1>4, Utf8Shape
  <1>8. \A k \in 1 .. n - 1 : r[j + k] \in Follows8
    <2> TAKE k \in 1 .. n - 1
    <2>1. k + 1 \in 1 .. n /\ k + 1 \in 2 .. n /\ j + (k + 1) - 1 = j + k
      OBVIOUS
    <2>2. y[k + 1] = r[j + k]
      BY <1>5, <2>1
    <2> QED
      BY <1>5, <1>7, <2>1, <2>2
  <1> QED
    BY <1>3, <1>4, <1>5, <1>6, <1>7, <1>8 DEF y, e

(* Where no character goes on, one begins, and the next one after it.      *)
LEMMA CharacterAt ==
    ASSUME NEW r \in Strings, NEW i \in 1 .. Len(r), r[i] \notin Follows8
    PROVE  \E m \in 1 .. 4 : /\ i + m <= Len(r) + 1 /\ IsUtf8(SubSeq(r, i, i + m - 1))
                             /\ i + m <= Len(r) => r[i + m] \notin Follows8
  <1>1. /\ r \in Text /\ Len(r) \in Nat /\ DOMAIN r = 1 .. Len(r)
        /\ \A a \in DOMAIN r : \E j \in 1 .. a : \E n \in 1 .. 4 :
              a < j + n /\ j + n <= Len(r) + 1 /\ IsUtf8(SubSeq(r, j, j + n - 1))
    <2>1. r \in Text
      BY DEF Strings
    <2> QED
      BY <2>1, TextFacts DEF Strings
  <1>2. \A a \in 1 .. Len(r) : \E j \in 1 .. a : \E n \in 1 .. 4 :
              a < j + n /\ j + n <= Len(r) + 1 /\ IsUtf8(SubSeq(r, j, j + n - 1))
    BY <1>1
  <1>3. ASSUME NEW j \in Nat, NEW n \in 1 .. 4, j >= 1, j + n <= Len(r) + 1,
               IsUtf8(SubSeq(r, j, j + n - 1))
        PROVE  /\ r[j] \notin Follows8 /\ n = LengthOf(r[j])
               /\ \A k \in 1 .. n - 1 : r[j + k] \in Follows8
    BY <1>1, <1>3, Utf8Placed
  <1>4. PICK j \in 1 .. i : \E n \in 1 .. 4 :
              i < j + n /\ j + n <= Len(r) + 1 /\ IsUtf8(SubSeq(r, j, j + n - 1))
    BY <1>2
  <1>5. PICK m \in 1 .. 4 :
              i < j + m /\ j + m <= Len(r) + 1 /\ IsUtf8(SubSeq(r, j, j + m - 1))
    BY <1>4
  <1>6. j = i
    <2> SUFFICES ASSUME j # i
                 PROVE  FALSE
      OBVIOUS
    <2>1. i - j \in 1 .. m - 1 /\ j + (i - j) = i /\ j \in Nat /\ j >= 1
      BY <1>5
    <2>2. r[j + (i - j)] \in Follows8
      BY <1>3, <1>5, <2>1
    <2> QED
      BY <2>1, <2>2
  <1>7. m = LengthOf(r[i])
    <2>1. j \in Nat /\ j >= 1
      OBVIOUS
    <2>2. m = LengthOf(r[j])
      BY <1>3, <1>5, <2>1
    <2> QED
      BY <1>6, <2>2
  <1>8. ASSUME i + m <= Len(r)
        PROVE  r[i + m] \notin Follows8
    <2>1. i + m \in 1 .. Len(r)
      BY <1>1, <1>8
    <2>2. PICK a \in 1 .. i + m : \E n \in 1 .. 4 :
              i + m < a + n /\ a + n <= Len(r) + 1 /\ IsUtf8(SubSeq(r, a, a + n - 1))
      BY <1>2, <2>1
    <2>3. PICK n \in 1 .. 4 :
              i + m < a + n /\ a + n <= Len(r) + 1 /\ IsUtf8(SubSeq(r, a, a + n - 1))
      BY <2>2
    <2>4. a \in Nat /\ a >= 1
      BY <2>1
    <2>5. /\ r[a] \notin Follows8 /\ n = LengthOf(r[a])
          /\ \A k \in 1 .. n - 1 : r[a + k] \in Follows8
      BY <1>3, <2>3, <2>4
    <2>6. CASE a = i + m
      BY <2>5, <2>6
    <2>7. CASE a = i
      BY <1>7, <2>3, <2>5, <2>7
    <2>8. CASE a < i
      <3>1. i - a \in 1 .. n - 1 /\ a + (i - a) = i
        BY <2>3, <2>4, <2>8
      <3> QED
        BY <2>5, <3>1
    <2>9. CASE i < a /\ a < i + m
      <3>1. a - i \in 1 .. m - 1 /\ i + (a - i) = a /\ i \in Nat /\ i >= 1
        BY <2>4, <2>9
      <3>2. r[i + (a - i)] \in Follows8
        BY <1>3, <1>5, <1>6, <3>1
      <3> QED
        BY <2>5, <3>1, <3>2
    <2> QED
      BY <2>6, <2>7, <2>8, <2>9, <2>4
  <1> QED
    BY <1>5, <1>6, <1>8

(* What is written of a character means it.                                *)
LEMMA EmitByteText ==
    ASSUME NEW c \in 1 .. 255
    PROVE  /\ EmitByte(c) \in Text /\ Len(EmitByte(c)) \in Nat
           /\ c >= 128 => EmitByte(c) = << c >>
           /\ c = UnitSeparator => EmitByte(c) = << c >>
  <1>1. CASE c \in Shorts
    <2>1. PICK e \in ShortEscapes : EmitByte(c) = << Backslash, e[1] >> /\ e[2] = c
      BY <1>1, EmitByteIs
    <2>2. e[1] \in 1 .. 255 /\ Backslash \in 1 .. 255
      BY DEF ShortEscapes, Backslash
    <2>3. EmitByte(c) \in Text
      BY <2>1, <2>2 DEF Text
    <2>4. ~(c >= 128) /\ c # UnitSeparator
      BY <1>1 DEF Shorts, UnitSeparator
    <2> QED
      BY <2>3, <2>4, TextFacts
  <1>2. CASE c \in Controls
    <2>1. EmitByte(c) \in Text
      BY <1>2, EmitByteIs, HexWritten
    <2>2. ~(c >= 128) /\ c # UnitSeparator
      BY <1>2 DEF Controls, UnitSeparator
    <2> QED
      BY <2>1, <2>2, TextFacts
  <1>3. CASE c \notin Shorts \cup Controls
    <2>1. EmitByte(c) = << c >>
      BY <1>3, EmitByteIs
    <2>2. << c >> \in Text
      BY DEF Text
    <2> QED
      BY <2>1, <2>2, TextFacts
  <1> QED
    BY <1>1, <1>2, <1>3

(* parse_string goes over what a character was written as, whether escaped *)
(* or not, and appends the character.                                      *)
LEMMA CharacterReads ==
    ASSUME NEW t \in Text, NEW p, NEW y \in Text, Sits(t, p, y), Len(y) \in 1 .. 12,
           y[1] # Quote, NEW c \in UnitMeans(y),
           NEW of, NEW g, NEW buf, Tuple(buf), NEW tot
    PROVE  AwaitsQuote(t, of, g, buf, p, tot)
             <=> AwaitsQuote(t, of, g, buf \o c, p + Len(y), tot)
  <1> DEFINE b == WindowAt(t, p)
             n == Len(y)
  <1>1. /\ p \in 1 .. Len(t) + 1 /\ p + n \in 1 .. Len(t) + 1 /\ Len(t) \in Nat /\ p \in Nat
        /\ n \in 1 .. 12 /\ Piece(t, p, p + n - 1) = y
        /\ ByteAt(t, p) = y[1]
    <2>1. /\ p \in 1 .. Len(t) + 1 /\ p + n \in 1 .. Len(t) + 1 /\ Len(t) \in Nat /\ p \in Nat
          /\ Piece(t, p, p + n - 1) = y /\ \A k \in 1 .. n : ByteAt(t, p + k - 1) = y[k]
      BY SitsFacts
    <2>2. 1 \in 1 .. n /\ p + 1 - 1 = p
      BY <2>1
    <2>3. ByteAt(t, p + 1 - 1) = y[1]
      BY <2>1, <2>2
    <2> QED
      BY <2>1, <2>2, <2>3
  <1>2. b \in Windows /\ b[1] = ByteAt(t, p) /\ Begins(y, b)
    <2>1. p + n - 1 <= Len(t)
      BY <1>1
    <2>2. b \in Windows /\ b[1] = ByteAt(t, p) /\ Begins(Piece(t, p, p + n - 1), b)
      BY <1>1, <2>1, WindowIs
    <2> QED
      BY <1>1, <2>2
  <1>3. n = Unit(b).len /\ c = Unit(b).put
    <2> HIDE DEF b
    <2>1. TakesAll(y, b, c)
      BY <1>2, UnitIs
    <2> QED
      BY <2>1 DEF TakesAll
  <1>4. AwaitsQuote(t, of, g, buf, p, tot) <=>
          Unit(b).len > 0 /\ AwaitsQuote(t, of, g, buf \o Unit(b).put, p + Unit(b).len, tot)
    BY <1>1, StringSteps
  <1>5. n > 0
    BY <1>1
  <1> HIDE DEF n, b
  <1> QED
    BY <1>3, <1>4, <1>5, Zenon DEF n

(* parse_string goes no further than U+001F.                               *)
LEMMA SeparatorStops ==
    ASSUME NEW t \in Text, NEW p \in 1 .. Len(t) + 1, ByteAt(t, p) = UnitSeparator,
           NEW of, NEW g, NEW buf, Tuple(buf), NEW tot
    PROVE  ~AwaitsQuote(t, of, g, buf, p, tot)
  <1> DEFINE b == WindowAt(t, p)
  <1>1. b[1] = UnitSeparator
    BY WindowIs
  <1>2. UnitSeparator # Quote
    BY DEF UnitSeparator, Quote
  <1>3. AwaitsQuote(t, of, g, buf, p, tot) => Unit(b).len > 0
    BY <1>2, StringSteps
  <1> HIDE DEF b
  <1>4. Unit(b).len = 0
    BY <1>1, SeparatorRefused
  <1> QED
    BY <1>3, <1>4

(* Texts put together are a text.                                          *)
LEMMA FlattenText ==
    ASSUME NEW n \in Nat, NEW ss \in [1 .. n -> Text]
    PROVE  FlattenSeq(ss) \in Text
  <1>1. CASE n = 0
    <2>1. ss = << >>
      BY <1>1
    <2>2. << >> \in Text
      BY DEF Text
    <2> QED
      BY <2>1, <2>2, FlattenNothing
  <1>2. CASE n # 0
    <2> DEFINE S == 1 .. 255
    <2>1. n >= 1 /\ ss \in [1 .. n -> Seq(S)] /\ n \in 1 .. n
      BY <1>2 DEF Text
    <2> HIDE DEF S
    <2>2. PICK f : /\ Flattens(n, ss, f) /\ FlattenSeq(ss) = f[n]
                   /\ \A i \in 1 .. n : f[i] \in Seq(S)
      BY <2>1, FlattenSteps
    <2> QED
      BY <2>1, <2>2 DEF Text, S
  <1> QED
    BY <1>1, <1>2

(* The first bytes of a text.                                              *)
LEMMA Heads ==
    ASSUME NEW t \in Text, NEW j, Span(t, 1, j)
    PROVE  /\ Piece(t, 1, j) \in Text /\ Len(Piece(t, 1, j)) = j /\ j \in Nat
           /\ \A k \in 1 .. j : Piece(t, 1, j)[k] = t[k]
  <1> DEFINE i == 1
  <1>1. Span(t, i, j)
    OBVIOUS
  <1>2. i = 1
    OBVIOUS
  <1> HIDE DEF i
  <1>3. /\ Piece(t, i, j) \in Text /\ Len(Piece(t, i, j)) = j - i + 1 /\ j \in Nat
        /\ \A k \in 1 .. j - i + 1 : Piece(t, i, j)[k] = t[i + k - 1]
    BY <1>1, PieceFacts
  <1> QED
    BY <1>2, <1>3

(* Bytes below 128, from 192 on, and those that follow in a character.     *)
LEMMA ByteRanges ==
    /\ \A b \in 1 .. 255 : b <= 127 => b \in 1 .. 127
    /\ \A b \in 1 .. 255 : b >= 192 => b >= 128 /\ b > 31 /\ b # Quote /\ b # Backslash
    /\ \A b \in Follows8 : b \in 1 .. 255 /\ b >= 128 /\ b # UnitSeparator
    /\ \A b : (b \in {Quote, Backslash}) <=> b = Quote \/ b = Backslash
  BY DEF Quote, Backslash, Follows8, UnitSeparator

(* The beginning of a text, and a piece more of it.                        *)
LEMMA PieceJoin ==
    ASSUME NEW t \in Text, NEW i, NEW j, i >= 1, Span(t, i, j)
    PROVE  Piece(t, 1, i - 1) \o Piece(t, i, j) = Piece(t, 1, j)
  <1> DEFINE a == Piece(t, 1, i - 1)
             b == Piece(t, i, j)
             u == Piece(t, 1, j)
             S == 1 .. 255
  <1>1. /\ i \in Nat /\ j \in Nat /\ Len(t) \in Nat /\ i <= j + 1
        /\ Span(t, 1, i - 1) /\ Span(t, 1, j)
    BY TextFacts DEF Span
  <1>2. a \in Text /\ Len(a) = i - 1 /\ \A k \in 1 .. i - 1 : a[k] = t[k]
    BY <1>1, Heads
  <1>3. /\ b \in Text /\ Len(b) = j - i + 1 /\ \A k \in 1 .. j - i + 1 : b[k] = t[i + k - 1]
    BY PieceFacts
  <1>4. u \in Text /\ Len(u) = j /\ \A k \in 1 .. j : u[k] = t[k]
    BY <1>1, Heads
  <1> HIDE DEF a, b, u
  <1>5. Len(a) = i - 1 /\ Len(b) = j - i + 1 /\ Len(u) = Len(a) + Len(b)
    BY <1>1, <1>2, <1>3, <1>4
  <1>6. \A k \in 1 .. Len(a) : u[k] = a[k]
    BY <1>1, <1>2, <1>4, <1>5
  <1>7. \A k \in 1 .. Len(b) : u[Len(a) + k] = b[k]
    <2> TAKE k \in 1 .. Len(b)
    <2>1. (i - 1) + k \in 1 .. j /\ k \in 1 .. j - i + 1 /\ (i - 1) + k = i + k - 1
      BY <1>1, <1>5
    <2> QED
      BY <1>3, <1>4, <1>5, <2>1
  <1>8. a \in Seq(S) /\ b \in Seq(S) /\ u \in Seq(S)
    BY <1>2, <1>3, <1>4 DEF Text
  <1> HIDE DEF S
  <1>9. a \o b = u
    BY <1>5, <1>6, <1>7, <1>8, ConcatIs, Zenon
  <1> QED
    BY <1>9 DEF a, b, u

(* A character of a string is written as a text that means it.             *)
Placed(str, t, at) ==
    \A k \in 1 .. Len(str) : /\ Sits(t, at[k], EmitByte(str[k]))
                             /\ at[k + 1] = at[k] + Len(EmitByte(str[k]))

WrittenAs(c, t, p, q) ==
    \E y \in Text : /\ Sits(t, p, y) /\ Len(y) \in 1 .. 12 /\ y[1] # Quote
                    /\ c \in UnitMeans(y) /\ q = p + Len(y)

(* Utf8Placed, of a character of a string to be written.                   *)
LEMMA CharacterHere ==
    ASSUME NEW str \in Text, NEW i \in 1 .. Len(str), NEW m \in 1 .. 4,
           i + m <= Len(str) + 1, IsUtf8(SubSeq(str, i, i + m - 1))
    PROVE  LET y == Piece(str, i, i + m - 1)
           IN  /\ y \in Text /\ IsUtf8(y) /\ Len(y) = m
               /\ \A k \in 1 .. m : y[k] = str[i + k - 1]
               /\ str[i] = y[1] /\ str[i] \notin Follows8 /\ m = LengthOf(str[i])
               /\ \A k \in 1 .. m - 1 : str[i + k] \in Follows8
  <1>1. i \in Nat /\ i >= 1
    BY TextFacts
  <1> QED
    BY <1>1, Utf8Placed

(* A character without U+001F stands in the text the way parse_string      *)
(* takes it back.                                                          *)
LEMMA CharacterPlaced ==
    ASSUME NEW str \in Text, NEW i \in 1 .. Len(str), NEW m \in 1 .. 4,
           i + m <= Len(str) + 1, IsUtf8(SubSeq(str, i, i + m - 1)),
           str[i] # UnitSeparator, NEW t \in Text, NEW at, Placed(str, t, at)
    PROVE  /\ Span(str, i, i + m - 1)
           /\ \A k \in i .. i + m - 1 : str[k] # UnitSeparator
           /\ WrittenAs(Piece(str, i, i + m - 1), t, at[i], at[i + m])
  <1>h. LET y == Piece(str, i, i + m - 1)
        IN  /\ y \in Text /\ IsUtf8(y) /\ Len(y) = m
            /\ \A k \in 1 .. m : y[k] = str[i + k - 1]
            /\ str[i] = y[1] /\ str[i] \notin Follows8 /\ m = LengthOf(str[i])
            /\ \A k \in 1 .. m - 1 : str[i + k] \in Follows8
    BY CharacterHere
  <1> DEFINE e == i + m - 1
             c == Piece(str, i, e)
  <1>0. Len(str) \in Nat /\ i \in Nat /\ i >= 1 /\ Span(str, i, e)
        /\ \A k \in 1 .. Len(str) : str[k] \in 1 .. 255
    BY TextFacts DEF Span
  <1>1. /\ c \in Text /\ IsUtf8(c) /\ Len(c) = m
        /\ \A k \in 1 .. m : c[k] = str[i + k - 1]
        /\ \A k \in 1 .. m - 1 : str[i + k] \in Follows8
        /\ str[i] = c[1]
    BY <1>h, Zenon
  <1>2. c[1] \in 1 .. 255 /\ (m = 1 => c[1] <= 127) /\ (m # 1 => c[1] >= 192)
    <2> HIDE DEF c
    <2> QED
      BY <1>1, Utf8Shape
  <1>3. \A k \in i .. e : str[k] # UnitSeparator
    <2> TAKE k \in i .. e
    <2>1. CASE k = i
      BY <2>1
    <2>2. CASE k # i
      <3>1. k - i \in 1 .. m - 1 /\ i + (k - i) = k
        BY <1>0, <2>2
      <3>2. str[k] \in Follows8
        BY <1>1, <3>1
      <3> QED
        BY <3>2, ByteRanges, Zenon
    <2> QED
      BY <2>1, <2>2
  <1> HIDE DEF e
  <1>4. CASE m = 1
    <2> DEFINE b == str[i]
               y == EmitByte(b)
    <2>1. b \in 1 .. 127 /\ b # UnitSeparator
      BY <1>1, <1>2, <1>4, ByteRanges, Zenon
    <2>2. Sits(t, at[i], y) /\ at[i + 1] = at[i] + Len(y)
      BY DEF Placed
    <2>3. c = << b >>
      <3> HIDE DEF c, b
      <3>1. c \in Seq(1 .. 255) /\ Len(c) = 1 /\ c[1] = b
        BY <1>1, <1>4 DEF Text, b
      <3> QED
        BY <3>1
    <2> HIDE DEF b
    <2>4. y \in Text /\ Len(y) \in 1 .. 12 /\ y[1] # Quote /\ << b >> \in UnitMeans(y)
      BY <2>1, ByteMeans
    <2> HIDE DEF c, y
    <2> QED
      BY <1>0, <1>3, <1>4, <2>2, <2>3, <2>4 DEF c, e, WrittenAs
  <1>5. CASE m # 1
    <2>1. ASSUME NEW k \in 0 .. m - 1
          PROVE  /\ i + k \in 1 .. Len(str)
                 /\ Sits(t, at[i + k], << str[i + k] >>) /\ at[i + k + 1] = at[i + k] + 1
      <3>1. i + k \in 1 .. Len(str)
        BY <1>0
      <3>2. str[i + k] \in 1 .. 255 /\ str[i + k] >= 128
        <4>1. CASE k = 0
          <5>1. i + k = i
            BY <4>1
          <5>2. str[i + k] = c[1] /\ c[1] \in 1 .. 255 /\ c[1] >= 128
            BY <1>1, <1>2, <1>5, <5>1, ByteRanges, Zenon
          <5> QED
            BY <5>2, Zenon
        <4>2. CASE k # 0
          <5>1. k \in 1 .. m - 1
            BY <4>2
          <5>2. str[i + k] \in Follows8
            BY <1>1, <5>1, Zenon
          <5> QED
            BY <5>2, ByteRanges, Zenon
        <4> QED
          BY <4>1, <4>2
      <3>3. EmitByte(str[i + k]) = << str[i + k] >>
        BY <3>2, EmitByteText
      <3> DEFINE d == str[i + k]
      <3>4. Len(<< d >>) = 1
        OBVIOUS
      <3> HIDE DEF d
      <3> QED
        BY <3>1, <3>3, <3>4 DEF Placed, d
    <2>2. /\ at[i] \in Nat /\ at[i] >= 1 /\ at[i + m] = at[i] + m /\ at[i] + m <= Len(t) + 1
          /\ \A k \in 0 .. m - 1 : t[at[i] + k] = str[i + k]
      <3>1. \A k \in 0 .. m - 1 :
              /\ at[i + k] \in 1 .. Len(t) /\ t[at[i + k]] = str[i + k]
              /\ at[i + k + 1] = at[i + k] + 1
        <4> TAKE k \in 0 .. m - 1
        <4>1. Sits(t, at[i + k], << str[i + k] >>) /\ at[i + k + 1] = at[i + k] + 1
          BY <2>1, Zenon
        <4> DEFINE a == at[i + k]
                   b == str[i + k]
        <4>2. Sits(t, a, << b >>)
          BY <4>1
        <4> HIDE DEF a, b
        <4>3. a \in 1 .. Len(t) /\ t[a] = b
          BY <4>2, SitsByte, Zenon
        <4> QED
          BY <4>1, <4>3, Zenon DEF a, b
      <3>2. Len(t) \in Nat
        BY TextFacts
      <3>3. m = 2 \/ m = 3 \/ m = 4
        BY <1>5
      <3>4. /\ at[i] \in 1 .. Len(t) /\ t[at[i]] = str[i] /\ at[i + 1] = at[i] + 1
            /\ t[at[i + 1]] = str[i + 1] /\ at[i + 2] = at[i + 1] + 1 /\ at[i + 1] \in 1 .. Len(t)
        <4>1. 0 \in 0 .. m - 1 /\ 1 \in 0 .. m - 1 /\ i + 0 = i /\ i + 0 + 1 = i + 1
              /\ i + 1 + 1 = i + 2
          BY <3>3
        <4> QED
          BY <3>1, <4>1
      <3>5. m >= 3 => t[at[i + 2]] = str[i + 2] /\ at[i + 3] = at[i + 2] + 1 /\ at[i + 2] \in 1 .. Len(t)
        <4>1. m >= 3 => 2 \in 0 .. m - 1 /\ i + 2 + 1 = i + 3
          BY <3>3
        <4> QED
          BY <3>1, <4>1
      <3>6. m >= 4 => t[at[i + 3]] = str[i + 3] /\ at[i + 4] = at[i + 3] + 1 /\ at[i + 3] \in 1 .. Len(t)
        <4>1. m >= 4 => 3 \in 0 .. m - 1 /\ i + 3 + 1 = i + 4
          BY <3>3
        <4> QED
          BY <3>1, <4>1
      <3>7. at[i] \in Nat /\ at[i] >= 1 /\ at[i + m] = at[i] + m /\ at[i] + m <= Len(t) + 1
        <4> DEFINE a0 == at[i]
                   a1 == at[i + 1]
                   a2 == at[i + 2]
                   a3 == at[i + 3]
                   a4 == at[i + 4]
                   l == Len(t)
                   last == at[i + m]
        <4>1. /\ l \in Nat /\ a0 \in 1 .. l /\ a1 = a0 + 1 /\ a2 = a1 + 1 /\ a1 \in 1 .. l
              /\ m >= 3 => a3 = a2 + 1 /\ a2 \in 1 .. l
              /\ m >= 4 => a4 = a3 + 1 /\ a3 \in 1 .. l
          BY <3>2, <3>4, <3>5, <3>6, Zenon
        <4>2. (m = 2 => last = a2) /\ (m = 3 => last = a3) /\ (m = 4 => last = a4)
          BY Zenon
        <4> HIDE DEF a0, a1, a2, a3, a4, l, last
        <4>3. a0 \in Nat /\ a0 >= 1 /\ last = a0 + m /\ a0 + m <= l + 1
          BY <3>3, <4>1, <4>2
        <4> QED
          BY <4>3 DEF a0, last, l
      <3>8. \A k \in 0 .. m - 1 : t[at[i] + k] = str[i + k]
        <4> TAKE k \in 0 .. m - 1
        <4>1. k = 0 \/ k = 1 \/ k = 2 \/ k = 3
          BY <3>3
        <4>2. CASE k = 0
          BY <3>4, <4>2
        <4>3. CASE k = 1
          BY <3>4, <4>3
        <4>4. CASE k = 2
          <5>1. m >= 3 /\ at[i] + 2 = at[i + 2]
            BY <3>3, <3>4, <4>4
          <5> QED
            BY <3>5, <4>4, <5>1
        <4>5. CASE k = 3
          <5>1. m >= 3 /\ m >= 4 /\ at[i] + 3 = at[i + 3]
            BY <3>3, <3>4, <3>5, <4>5
          <5> QED
            BY <3>6, <4>5, <5>1
        <4> QED
          BY <4>1, <4>2, <4>3, <4>4, <4>5
      <3> QED
        BY <3>7, <3>8
    <2>3. Sits(t, at[i], c)
      <3>1. Len(t) \in Nat
        BY TextFacts
      <3>2. \A k \in 1 .. m : t[at[i] + k - 1] = c[k]
        <4> TAKE k \in 1 .. m
        <4>1. k - 1 \in 0 .. m - 1 /\ at[i] + (k - 1) = at[i] + k - 1 /\ i + (k - 1) = i + k - 1
          BY <1>0, <2>2
        <4>2. t[at[i] + (k - 1)] = str[i + (k - 1)]
          BY <2>2, <4>1
        <4> QED
          BY <1>1, <4>1, <4>2
      <3> HIDE DEF c
      <3> QED
        BY <1>1, <2>2, <3>1, <3>2 DEF Sits
    <2>4. c[1] > 31 /\ c[1] \notin {Quote, Backslash} /\ c[1] # Quote /\ c[1] # Backslash
      BY <1>2, <1>5, ByteRanges, Zenon
    <2> HIDE DEF c
    <2>5. IsBare(c)
      BY <1>1, <2>4 DEF IsBare
    <2>6. UnitMeans(c) = {c}
      BY <2>4, <2>5, UnitCases
    <2>7. Len(c) \in 1 .. 12
      BY <1>1
    <2> QED
      <3>1. Len(c) = m /\ c \in Text
        BY <1>1, Zenon
      <3>2. at[i + m] = at[i] + Len(c) /\ c \in UnitMeans(c)
        BY <2>2, <2>6, <3>1
      <3>3. WrittenAs(c, t, at[i], at[i + m])
        BY <2>3, <2>4, <2>7, <3>1, <3>2, Zenon DEF WrittenAs
      <3> QED
        BY <1>0, <1>3, <3>3 DEF c, e
  <1> QED
    BY <1>4, <1>5

(* The string that is read is the one that was written.                    *)
Begun(str, i) == i = Len(str) + 1 \/ (i \in 1 .. Len(str) /\ str[i] \notin Follows8)
Clear(str, i) == \A k \in i .. Len(str) : str[k] # UnitSeparator

(* From the first byte of any character on, parse_string reads the rest of *)
(* a written string back, unless there is a U+001F in it.                  *)
LEMMA CharactersWalk ==
    ASSUME NEW str \in Strings, NEW t \in Text, NEW at, Placed(str, t, at),
           Sits(t, at[Len(str) + 1], << Quote >>),
           NEW of, NEW g, NEW tot
    PROVE  \A i \in 1 .. Len(str) + 1 : Begun(str, i) =>
             (AwaitsQuote(t, of, g, Piece(str, 1, i - 1), at[i], tot)
                <=> Clear(str, i) /\ AfterString(t, of, g, str, at[Len(str) + 1] + 1, tot))
  <1> DEFINE n == Len(str)
             End == AfterString(t, of, g, str, at[n + 1] + 1, tot)
             Claim(i) == AwaitsQuote(t, of, g, Piece(str, 1, i - 1), at[i], tot)
                           <=> Clear(str, i) /\ End
             S == {d \in Nat : \A i \in 1 .. n + 1 : n + 1 - i <= d /\ Begun(str, i) => Claim(i)}
  <1>0. str \in Text /\ n \in Nat
    <2>1. str \in Text
      BY DEF Strings
    <2> QED
      BY <2>1, TextFacts
  <1>1. \A i \in 1 .. n + 1 : Tuple(Piece(str, 1, i - 1))
    <2> TAKE i \in 1 .. n + 1
    <2> DEFINE h == i - 1
    <2>1. Span(str, 1, h)
      BY <1>0 DEF Span
    <2> HIDE DEF h
    <2>2. Piece(str, 1, h) \in Seq(1 .. 255)
      BY <1>0, <2>1, Heads DEF Text
    <2> QED
      BY <2>2, Zenon DEF Tuple, h
  <1>2. Claim(n + 1)
    <2>1. Piece(str, 1, (n + 1) - 1) = str
      <3>1. (n + 1) - 1 = n
        BY <1>0
      <3> QED
        BY <1>0, <3>1, Whole
    <2>2. at[n + 1] \in 1 .. Len(t) /\ ByteAt(t, at[n + 1]) = Quote
      BY SitsByte
    <2>3. Tuple(str)
      BY <1>0, Zenon DEF Tuple, Text
    <2> DEFINE q == at[n + 1]
    <2>4. AwaitsQuote(t, of, g, str, q, tot) <=> AfterString(t, of, g, str, q + 1, tot)
      <3>1. q \in 1 .. Len(t) /\ ByteAt(t, q) = Quote
        BY <2>2
      <3> HIDE DEF q
      <3> QED
        BY <2>3, <3>1, StringStops
    <2>5. Clear(str, n + 1)
      BY <1>0 DEF Clear
    <2> QED
      BY <2>1, <2>4, <2>5, Zenon
  <1>3. 0 \in S
    <2>1. \A i \in 1 .. n + 1 : n + 1 - i <= 0 => i = n + 1
      BY <1>0
    <2> HIDE DEF Claim
    <2> QED
      BY <1>2, <2>1
  <1>4. ASSUME NEW d \in Nat, d \in S
        PROVE  d + 1 \in S
    <2> SUFFICES ASSUME NEW i \in 1 .. n + 1, n + 1 - i <= d + 1, Begun(str, i)
                 PROVE  Claim(i)
      OBVIOUS
    <2>1. CASE i = n + 1
      <3> HIDE DEF Claim
      <3> QED
        BY <1>2, <2>1
    <2>2. CASE i # n + 1
      <3>1. i \in 1 .. n /\ str[i] \notin Follows8 /\ i \in Nat
        BY <1>0, <2>2 DEF Begun
      <3>2. PICK m \in 1 .. 4 : /\ i + m <= n + 1 /\ IsUtf8(SubSeq(str, i, i + m - 1))
                                /\ i + m <= n => str[i + m] \notin Follows8
        BY <3>1, CharacterAt
      <3>3. i + m \in 1 .. n + 1 /\ n + 1 - (i + m) <= d /\ Begun(str, i + m)
        BY <1>0, <3>1, <3>2 DEF Begun
      <3>4. Claim(i + m)
        <4> HIDE DEF Claim
        <4> QED
          BY <1>4, <3>3
      <3>5. CASE str[i] = UnitSeparator
        <4>1. ~Clear(str, i)
          BY <1>0, <3>1, <3>5 DEF Clear
        <4>2. ~AwaitsQuote(t, of, g, Piece(str, 1, i - 1), at[i], tot)
          <5> DEFINE q == at[i]
                     c == str[i]
                     buf == Piece(str, 1, i - 1)
          <5>1. c \in 1 .. 255
            BY <1>0, <3>1, TextFacts
          <5>2. Sits(t, q, EmitByte(c))
            BY <3>1 DEF Placed
          <5>3. c = UnitSeparator /\ Tuple(buf)
            BY <1>1, <3>5, Zenon
          <5> HIDE DEF q, c, buf
          <5>4. Sits(t, q, << c >>)
            BY <5>1, <5>2, <5>3, EmitByteText
          <5>5. q \in 1 .. Len(t) /\ ByteAt(t, q) = c /\ Len(t) \in Nat
            BY <5>4, SitsByte
          <5>6. q \in 1 .. Len(t) + 1
            BY <5>5
          <5>7. ~AwaitsQuote(t, of, g, buf, q, tot)
            BY <5>3, <5>5, <5>6, SeparatorStops
          <5> QED
            BY <5>7 DEF q, buf
        <4> QED
          BY <4>1, <4>2, Zenon
      <3>6. CASE str[i] # UnitSeparator
        <4> DEFINE e == i + m - 1
                   c == Piece(str, i, e)
                   buf == Piece(str, 1, i - 1)
        <4>1. /\ Span(str, i, e) /\ \A k \in i .. e : str[k] # UnitSeparator
              /\ WrittenAs(c, t, at[i], at[i + m])
          <5>1. str \in Text /\ i \in 1 .. Len(str) /\ i + m <= Len(str) + 1
                /\ IsUtf8(SubSeq(str, i, i + m - 1))
            BY <1>0, <3>1, <3>2
          <5>2. /\ Span(str, i, i + m - 1)
                /\ \A k \in i .. i + m - 1 : str[k] # UnitSeparator
                /\ WrittenAs(Piece(str, i, i + m - 1), t, at[i], at[i + m])
            BY <3>6, <5>1, CharacterPlaced, Zenon
          <5> QED
            BY <5>2, Zenon
        <4>2. PICK y \in Text : /\ Sits(t, at[i], y) /\ Len(y) \in 1 .. 12 /\ y[1] # Quote
                                /\ c \in UnitMeans(y) /\ at[i + m] = at[i] + Len(y)
          BY <4>1, Zenon DEF WrittenAs
        <4>3. Tuple(buf)
          BY <1>1, Zenon
        <4>4. buf \o c = Piece(str, 1, (i + m) - 1)
          <5>1. e = (i + m) - 1 /\ i >= 1
            BY <3>1
          <5> HIDE DEF e
          <5>2. Piece(str, 1, i - 1) \o Piece(str, i, e) = Piece(str, 1, e)
            BY <1>0, <4>1, <5>1, PieceJoin
          <5> QED
            BY <5>1, <5>2
        <4>5. AwaitsQuote(t, of, g, buf, at[i], tot)
                <=> AwaitsQuote(t, of, g, buf \o c, at[i] + Len(y), tot)
          <5> DEFINE p == at[i]
          <5>1. Sits(t, p, y)
            BY <4>2
          <5> HIDE DEF p, c, buf
          <5>2. AwaitsQuote(t, of, g, buf, p, tot)
                  <=> AwaitsQuote(t, of, g, buf \o c, p + Len(y), tot)
            BY <4>2, <4>3, <5>1, CharacterReads
          <5> QED
            BY <5>2 DEF p
        <4>6. Clear(str, i) <=> Clear(str, i + m)
          <5>1. \A k \in i .. n : k \in i .. e \/ k \in i + m .. n
            BY <1>0, <3>1
          <5>2. \A k \in i + m .. n : k \in i .. n
            BY <1>0, <3>1
          <5> HIDE DEF e
          <5> QED
            BY <4>1, <5>1, <5>2, Zenon DEF Clear
        <4>7. AwaitsQuote(t, of, g, Piece(str, 1, (i + m) - 1), at[i + m], tot)
                <=> Clear(str, i + m) /\ End
          BY <3>4
        <4> HIDE DEF c, e, End
        <4> QED
          BY <4>2, <4>4, <4>5, <4>6, <4>7, Zenon DEF buf
      <3> QED
        BY <3>5, <3>6
    <2> QED
      BY <2>1, <2>2
  <1> HIDE DEF S
  <1>5. Nat \subseteq S
    BY <1>3, <1>4, Induct
  <1>6. ASSUME NEW i \in 1 .. n + 1, Begun(str, i)
        PROVE  Claim(i)
    <2>1. n + 1 - i \in Nat /\ n + 1 - i <= n + 1 - i
      BY <1>0
    <2>2. n + 1 - i \in S
      BY <1>5, <2>1
    <2> HIDE DEF Claim
    <2> QED
      BY <1>6, <2>1, <2>2 DEF S
  <1> QED
    BY <1>6, Zenon

(* emit_string writes a text that starts with a quote.                     *)
LEMMA StringText ==
    ASSUME NEW str \in Strings
    PROVE  /\ emit_string(str) \in Text /\ Len(emit_string(str)) \in Nat
           /\ Len(emit_string(str)) >= 1 /\ emit_string(str)[1] = Quote
  <1> DEFINE n == Len(str)
             ss == [k \in DOMAIN str |-> EmitByte(str[k])]
             x == FlattenSeq(ss)
             q == << Quote >>
  <1>1. str \in Text /\ n \in Nat /\ DOMAIN str = 1 .. n /\ \A k \in 1 .. n : str[k] \in 1 .. 255
    <2>1. str \in Text
      BY DEF Strings
    <2> QED
      BY <2>1, TextFacts
  <1>2. ss \in [1 .. n -> Text]
    BY <1>1, EmitByteText
  <1> HIDE DEF ss, n
  <1>3. x \in Text
    BY <1>1, <1>2, FlattenText
  <1>4. q \in Text /\ Len(q) = 1 /\ q[1] = Quote
    BY DEF Text, Quote
  <1>5. emit_string(str) = q \o x \o q
    BY DEF emit_string, ss
  <1> HIDE DEF x, q
  <1>6. q \o x \in Text /\ Len(q \o x) = 1 + Len(x) /\ Len(x) \in Nat /\ (q \o x)[1] = Quote
    <2>1. 1 \in 1 .. Len(q)
      BY <1>4
    <2>2. /\ q \o x \in Text /\ Len(q \o x) = Len(q) + Len(x) /\ Len(x) \in Nat
          /\ \A k \in 1 .. Len(q) : (q \o x)[k] = q[k]
      BY <1>3, <1>4, JoinFacts, Zenon
    <2> QED
      BY <1>4, <2>1, <2>2
  <1> DEFINE y == q \o x
  <1>7. y \in Text /\ Len(y) = 1 + Len(x) /\ y[1] = Quote
    BY <1>6
  <1> HIDE DEF y
  <1>8. y \o q \in Text /\ Len(y \o q) = 2 + Len(x) /\ (y \o q)[1] = Quote
    <2>1. 1 \in 1 .. Len(y)
      BY <1>6, <1>7
    <2> QED
      BY <1>4, <1>6, <1>7, <2>1, JoinFacts
  <1> QED
    BY <1>5, <1>6, <1>8 DEF y

(* Where a written string stands, each of its bytes has a place, and a     *)
(* quote comes after the last.                                             *)
LEMMA StringPlaced ==
    ASSUME NEW str \in Strings, NEW t \in Text, NEW p, Sits(t, p, emit_string(str))
    PROVE  /\ p \in 1 .. Len(t) /\ ByteAt(t, p) = Quote
           /\ \E at : /\ at[1] = p + 1 /\ Placed(str, t, at)
                      /\ at[Len(str) + 1] + 1 = p + Len(emit_string(str))
                      /\ Sits(t, at[Len(str) + 1], << Quote >>)
  <1> DEFINE n == Len(str)
             ss == [k \in DOMAIN str |-> EmitByte(str[k])]
             x == FlattenSeq(ss)
             q == << Quote >>
             y == q \o x
  <1>1. str \in Text /\ n \in Nat /\ DOMAIN str = 1 .. n /\ \A k \in 1 .. n : str[k] \in 1 .. 255
    <2>1. str \in Text
      BY DEF Strings
    <2> QED
      BY <2>1, TextFacts
  <1>2. ss \in [1 .. n -> Text] /\ \A k \in 1 .. n : ss[k] = EmitByte(str[k])
    BY <1>1, EmitByteText
  <1> HIDE DEF ss, n
  <1>3. x \in Text
    BY <1>1, <1>2, FlattenText
  <1>4. q \in Text /\ Len(q) = 1
    BY DEF Text, Quote
  <1>5. emit_string(str) = y \o q
    BY DEF emit_string, ss
  <1> HIDE DEF x, q
  <1>6. y \in Text /\ Len(y) = 1 + Len(x) /\ Len(x) \in Nat
    <2>1. y \in Text /\ Len(y) = Len(q) + Len(x) /\ Len(x) \in Nat
      BY <1>3, <1>4, JoinFacts, Zenon
    <2> QED
      BY <1>4, <2>1
  <1>7. Len(y \o q) = Len(y) + 1
    <2> HIDE DEF y
    <2>1. Len(y \o q) = Len(y) + Len(q)
      BY <1>4, <1>6, JoinFacts, Zenon
    <2> QED
      BY <1>4, <2>1
  <1>8. Sits(t, p, y) /\ Sits(t, p + Len(y), q)
    <2>1. Sits(t, p, y \o q)
      BY <1>5
    <2> HIDE DEF y
    <2> QED
      BY <1>4, <1>6, <2>1, SitsJoin
  <1>9. Sits(t, p, q) /\ Sits(t, p + 1, x)
    BY <1>3, <1>4, <1>8, SitsJoin
  <1>10. p \in 1 .. Len(t) /\ ByteAt(t, p) = Quote
    BY <1>9, SitsByte DEF q
  <1> DEFINE p1 == p + 1
  <1>11. PICK at : /\ at[1] = p1 /\ at[n + 1] = p1 + Len(x)
                   /\ \A k \in 1 .. n : Sits(t, at[k], ss[k]) /\ at[k + 1] = at[k] + Len(ss[k])
    <2>1. Sits(t, p1, FlattenSeq(ss))
      BY <1>9 DEF x
    <2> HIDE DEF p1
    <2> QED
      <3>1. \E at : InPlaces(n, ss, t, p1, p1 + Len(FlattenSeq(ss)), at)
        BY <1>1, <1>2, <2>1, FlattenPlaces, Zenon
      <3> QED
        BY <3>1, Zenon DEF InPlaces, x
  <1>12. Placed(str, t, at)
    BY <1>2, <1>11, Zenon DEF Placed, n
  <1>13. p + Len(y) = at[n + 1] /\ at[n + 1] + 1 = p + Len(y \o q)
    BY <1>6, <1>7, <1>10, <1>11
  <1>14. Sits(t, at[n + 1], q)
    BY <1>8, <1>13
  <1> HIDE DEF y
  <1> QED
    BY <1>5, <1>10, <1>11, <1>12, <1>13, <1>14 DEF q, n

(* At the start of a string a character begins.                            *)
LEMMA StringBegins ==
    ASSUME NEW str \in Strings
    PROVE  Begun(str, 1) /\ 1 \in 1 .. Len(str) + 1 /\ Piece(str, 1, 1 - 1) = << >>
           /\ StringValue(str) \in [tag : {"STRING"}, string_ : Strings]
  <1>1. /\ str \in Text /\ Len(str) \in Nat /\ DOMAIN str = 1 .. Len(str)
        /\ \A a \in DOMAIN str : \E j \in 1 .. a : \E n \in 1 .. 4 :
              a < j + n /\ j + n <= Len(str) + 1 /\ IsUtf8(SubSeq(str, j, j + n - 1))
    <2>1. str \in Text
      BY DEF Strings
    <2> QED
      BY <2>1, TextFacts DEF Strings
  <1>2. Piece(str, 1, 1 - 1) = << >>
    <2>1. Span(str, 1, 0)
      BY <1>1 DEF Span
    <2>2. Piece(str, 1, 0) \in Seq(1 .. 255) /\ Len(Piece(str, 1, 0)) = 0
      BY <1>1, <2>1, Heads DEF Text
    <2> DEFINE u == Piece(str, 1, 0)
    <2>3. u = << >>
      <3>1. u \in Seq(1 .. 255) /\ Len(u) = 0
        BY <2>2
      <3> HIDE DEF u
      <3> QED
        BY <3>1
    <2>4. 1 - 1 = 0
      OBVIOUS
    <2> QED
      BY <2>3, <2>4
  <1>3. CASE Len(str) = 0
    BY <1>2, <1>3 DEF Begun, StringValue
  <1>4. CASE Len(str) # 0
    <2>1. 1 \in 1 .. Len(str)
      BY <1>1, <1>4
    <2>2. PICK j \in 1 .. 1 : \E n \in 1 .. 4 :
              1 < j + n /\ j + n <= Len(str) + 1 /\ IsUtf8(SubSeq(str, j, j + n - 1))
      BY <1>1, <2>1
    <2>3. PICK n \in 1 .. 4 :
              1 < j + n /\ j + n <= Len(str) + 1 /\ IsUtf8(SubSeq(str, j, j + n - 1))
      BY <2>2
    <2>4. j = 1 /\ j \in Nat /\ j >= 1
      OBVIOUS
    <2>5. str[j] \notin Follows8
      BY <1>1, <2>3, <2>4, Utf8Placed
    <2> QED
      BY <1>1, <1>2, <2>1, <2>4, <2>5 DEF Begun, StringValue
  <1> QED
    BY <1>3, <1>4

(* A written string is read back, as a value and as a key, unless it holds *)
(* U+001F.                                                                 *)
LEMMA StringReads ==
    ASSUME NEW str \in Strings, NEW t \in Text, NEW p, Sits(t, p, emit_string(str)),
           NEW g, IsStack(g), NEW tot
    PROVE  LET q == p + Len(emit_string(str))
           IN  /\ p \in 1 .. Len(t)
               /\ Awaits(t, g, p, tot)
                    <=> Clear(str, 1) /\ Chain(t, g, StringValue(str), q, tot)
               /\ AwaitsName(t, g, p, tot) <=> Clear(str, 1) /\ KeyChain(t, g, str, q, tot)
  <1> DEFINE q == p + Len(emit_string(str))
  <1>1. p \in 1 .. Len(t) /\ ByteAt(t, p) = Quote
    BY StringPlaced
  <1>2. PICK at : /\ at[1] = p + 1 /\ Placed(str, t, at)
                  /\ at[Len(str) + 1] + 1 = p + Len(emit_string(str))
                  /\ Sits(t, at[Len(str) + 1], << Quote >>)
    BY StringPlaced, Zenon
  <1>3. ASSUME NEW of
        PROVE  AwaitsQuote(t, of, g, << >>, p + 1, tot)
                 <=> Clear(str, 1) /\ AfterString(t, of, g, str, q, tot)
    <2>1. AwaitsQuote(t, of, g, Piece(str, 1, 1 - 1), at[1], tot)
            <=> Clear(str, 1) /\ AfterString(t, of, g, str, at[Len(str) + 1] + 1, tot)
      BY <1>2, StringBegins, CharactersWalk, Zenon
    <2>2. Piece(str, 1, 1 - 1) = << >>
      BY StringBegins, Zenon
    <2> QED
      BY <1>2, <2>1, <2>2, Zenon
  <1> HIDE DEF q
  <1>4. /\ Awaits(t, g, p, tot) <=> AwaitsQuote(t, "value", g, << >>, p + 1, tot)
        /\ AwaitsName(t, g, p, tot) <=> AwaitsQuote(t, "key", g, << >>, p + 1, tot)
    BY <1>1, StringHere
  <1>5. /\ AfterString(t, "value", g, str, q, tot) <=> Chain(t, g, StringValue(str), q, tot)
        /\ AfterString(t, "key", g, str, q, tot) <=> KeyChain(t, g, str, q, tot)
    BY DEF AfterString
  <1> QED
    BY <1>1, <1>3, <1>4, <1>5 DEF q

(* A text that is read as the tree it was written from, wherever it stands *)
(* before what ends a value; as nothing, if the node is not readable.      *)
Firsts == WordLetters \cup Digits \cup {Minus, Quote, OpenBracket, OpenBrace}
Reads(t, p, q, node, readable, v) ==
    \A g, tot : IsStack(g) =>
        (Awaits(t, g, p, tot) <=> node \in readable /\ Chain(t, g, v, q, tot))
Legible(x, node, readable, v) ==
    /\ x \in Text /\ Len(x) \in Nat /\ Len(x) >= 1 /\ x[1] \in Firsts
    /\ \A t \in Text : \A p : Sits(t, p, x) /\ ByteAt(t, p + Len(x)) \in Enders =>
                                Reads(t, p, p + Len(x), node, readable, v)

(* The words null, false and true are written for the values they are read *)
(* as.                                                                     *)
LEMMA WordIs ==
    ASSUME NEW w \in Words
    PROVE  Word(w.value) = w.word /\ w.value.tag \in {"NULL", "BOOL"}
           /\ (w.value.tag = "NULL" => w.value = Null)
  <1>1. \A a, b \in Words : a.value = b.value => a = b
    <2> DEFINE wn == [word |-> << 110, 117, 108, 108 >>, value |-> [tag |-> "NULL"]]
               wf == [word |-> << 102, 97, 108, 115, 101 >>,
                      value |-> [tag |-> "BOOL", bool_ |-> FALSE]]
               wt == [word |-> << 116, 114, 117, 101 >>,
                      value |-> [tag |-> "BOOL", bool_ |-> TRUE]]
    <2>1. Words = {wn, wf, wt}
      BY DEF Words
    <2>2. /\ wn.value.tag = "NULL" /\ wf.value.tag = "BOOL" /\ wt.value.tag = "BOOL"
          /\ wf.value.bool_ = FALSE /\ wt.value.bool_ = TRUE
      OBVIOUS
    <2> HIDE DEF wn, wf, wt
    <2>3. wn.value # wf.value /\ wn.value # wt.value /\ wf.value # wt.value
      <3>1. "NULL" # "BOOL" /\ TRUE # FALSE
        OBVIOUS
      <3> QED
        BY <2>2, <3>1, Zenon
    <2> QED
      BY <2>1, <2>3, Zenon
  <1>2. Word(w.value) = w.word
    <2>1. \E a \in Words : a.value = w.value
      BY Zenon
    <2> DEFINE a == CHOOSE a \in Words : a.value = w.value
    <2>2. a \in Words /\ a.value = w.value
      BY <2>1, Zenon
    <2> HIDE DEF a
    <2>3. a = w
      BY <1>1, <2>2, Zenon
    <2> QED
      BY <2>3, Zenon DEF a, Word
  <1>3. w.value.tag \in {"NULL", "BOOL"} /\ (w.value.tag = "NULL" => w.value = Null)
    BY DEF Words, Null
  <1> QED
    BY <1>2, <1>3

(* A word is legible as its value.                                         *)
LEMMA WordLegible ==
    ASSUME NEW w \in Words, NEW node, NEW readable, node \in readable
    PROVE  Legible(w.word, node, readable, w.value)
  <1> DEFINE x == w.word
  <1>1. x \in Text /\ Len(x) \in Nat /\ Len(x) >= 1 /\ x[1] \in WordLetters
    <2>1. x \in Text /\ Len(x) \in 4 .. 5 /\ x[1] \in WordLetters
      BY WordBytes
    <2> HIDE DEF x
    <2> QED
      BY <2>1
  <1>2. ASSUME NEW t \in Text, NEW p, Sits(t, p, x)
        PROVE  Reads(t, p, p + Len(x), node, readable, w.value)
    <2>1. p \in 1 .. Len(t) + 1 /\ \A k \in 1 .. Len(x) : ByteAt(t, p + k - 1) = x[k]
      <3> HIDE DEF x
      <3> QED
        BY <1>1, <1>2, SitsFacts
    <2>2. ByteAt(t, p) = w.word[1]
      <3>1. 1 \in 1 .. Len(x) /\ p + 1 - 1 = p
        BY <1>1, <2>1
      <3>2. ByteAt(t, p + 1 - 1) = x[1]
        BY <2>1, <3>1
      <3> QED
        BY <3>1, <3>2
    <2>3. ASSUME NEW g, NEW tot, IsStack(g)
          PROVE  Awaits(t, g, p, tot) <=> Chain(t, g, w.value, p + Len(x), tot)
      BY <2>1, <2>2, <2>3, WordHere
    <2> QED
      BY <2>3, Zenon DEF Reads
  <1> HIDE DEF x
  <1>3. x[1] \in Firsts
    BY <1>1, Zenon DEF Firsts
  <1>4. Legible(x, node, readable, w.value)
    BY <1>1, <1>2, <1>3, Zenon DEF Legible
  <1> QED
    BY <1>4 DEF x

(* number_is_valid accepts the numbers of the grammar and nothing else.    *)
THEOREM NumberValid ==
    ASSUME NEW x \in Text
    PROVE  number_is_valid(x) <=> IsNumber(x)
  <1> DEFINE n == parse_number(x, 1)
  <1>1. Len(x) \in Nat /\ 1 \in 1 .. Len(x) + 1 /\ Span(x, 1, Len(x)) /\ x = Piece(x, 1, Len(x))
    BY TextFacts, Whole
  <1>2. ASSUME n.ok, n.end = Len(x) + 1
        PROVE  IsNumber(x)
    <2>1. n.end \in 2 .. Len(x) + 1 /\ IsNumber(Piece(x, 1, n.end - 1))
      BY <1>1, <1>2, NumberSound
    <2>2. n.end - 1 = Len(x)
      BY <1>1, <1>2
    <2> QED
      BY <1>1, <2>1, <2>2
  <1>3. ASSUME IsNumber(x)
        PROVE  n.ok /\ n.end = Len(x) + 1
    <2> DEFINE b == Len(x)
    <2>1. ByteAt(x, b + 1) \notin Digits \cup {Dot, 69, 101}
      <3>1. ByteAt(x, b + 1) = 0
        BY <1>1 DEF ByteAt
      <3>2. 0 \notin Digits \cup {Dot, 69, 101}
        BY DEF Digits, Dot
      <3> QED
        BY <3>1, <3>2
    <2>2. Span(x, 1, b) /\ IsNumber(Piece(x, 1, b))
      BY <1>1, <1>3
    <2> HIDE DEF b
    <2>3. parse_number(x, 1).ok /\ parse_number(x, 1).end = b + 1
      BY <2>1, <2>2, NumberComplete
    <2> QED
      BY <2>3 DEF b
  <1> HIDE DEF n
  <1>4. number_is_valid(x) <=> n.ok /\ n.end = Len(x) + 1
    BY Zenon DEF number_is_valid, n
  <1> QED
    BY <1>2, <1>3, <1>4, Zenon

(* A number is legible as itself.                                          *)
LEMMA NumberLegible ==
    ASSUME NEW x \in Text, IsNumber(x), NEW node, NEW readable, node \in readable
    PROVE  Legible(x, node, readable, NumberValue(x))
  <1>1. Len(x) \in Nat /\ Len(x) >= 1 /\ x[1] \in Digits \cup {Minus}
    <2>1. Span(x, 1, Len(x)) /\ x = Piece(x, 1, Len(x)) /\ Len(x) \in Nat
      BY TextFacts, Whole
    <2> QED
      BY <2>1, NumberEnds
  <1>2. ASSUME NEW t \in Text, NEW p, Sits(t, p, x), ByteAt(t, p + Len(x)) \in Enders
        PROVE  Reads(t, p, p + Len(x), node, readable, NumberValue(x))
    <2> DEFINE b == p + Len(x) - 1
    <2>1. /\ p \in 1 .. Len(t) + 1 /\ p \in Nat /\ Span(t, p, b) /\ Piece(t, p, b) = x
          /\ \A k \in 1 .. Len(x) : ByteAt(t, p + k - 1) = x[k]
      BY <1>2, SitsFacts
    <2>2. ByteAt(t, p) = x[1]
      <3>1. 1 \in 1 .. Len(x) /\ p + 1 - 1 = p
        BY <1>1, <2>1
      <3>2. ByteAt(t, p + 1 - 1) = x[1]
        BY <2>1, <3>1
      <3> QED
        BY <3>1, <3>2
    <2>3. b + 1 = p + Len(x)
      BY <1>1, <2>1
    <2>4. ByteAt(t, b + 1) \notin Digits \cup {Dot, 69, 101}
      BY <1>2, <2>3, EnderBytes
    <2> HIDE DEF b
    <2>5. parse_number(t, p).ok /\ parse_number(t, p).end = b + 1
      BY <2>1, <2>4, NumberComplete
    <2>6. ByteAt(t, p) \notin WordLetters \cup {Quote, OpenBracket, OpenBrace} \cup Spaces
      <3>1. x[1] \notin WordLetters \cup {Quote, OpenBracket, OpenBrace}
        BY <1>1, KindBytes
      <3>2. x[1] \notin Spaces
        BY <1>1, KindBytes
      <3> QED
        BY <2>2, <3>1, <3>2
    <2>7. SubSeq(t, p, (b + 1) - 1) = x
      <3>1. (b + 1) - 1 = b
        BY <2>1 DEF Span
      <3> QED
        BY <2>1, <3>1 DEF Piece
    <2>8. ASSUME NEW g, NEW tot, IsStack(g)
          PROVE  Awaits(t, g, p, tot) <=> Chain(t, g, NumberValue(x), p + Len(x), tot)
      <3> DEFINE n == parse_number(t, p)
      <3>1. n.ok => (Awaits(t, g, p, tot)
                       <=> Chain(t, g, NumberValue(SubSeq(t, p, n.end - 1)), n.end, tot))
        BY <2>1, <2>6, <2>8, NumberHere
      <3>2. n.ok /\ n.end = b + 1
        BY <2>5
      <3> HIDE DEF n
      <3> QED
        BY <2>3, <2>7, <3>1, <3>2
    <2> QED
      BY <2>8, Zenon DEF Reads
  <1>3. x[1] \in Firsts
    BY <1>1 DEF Firsts
  <1> QED
    BY <1>1, <1>2, <1>3, Zenon DEF Legible

(* A written string is legible as itself, if it holds no U+001F.           *)
LEMMA StringLegible ==
    ASSUME NEW str \in Strings, NEW node, NEW readable,
           node \in readable <=> Clear(str, 1)
    PROVE  Legible(emit_string(str), node, readable, StringValue(str))
  <1> DEFINE x == emit_string(str)
  <1>1. x \in Text /\ Len(x) \in Nat /\ Len(x) >= 1 /\ x[1] \in Firsts
    BY StringText DEF Firsts
  <1>2. ASSUME NEW t \in Text, NEW p, Sits(t, p, x)
        PROVE  Reads(t, p, p + Len(x), node, readable, StringValue(str))
    <2>1. ASSUME NEW g, NEW tot, IsStack(g)
          PROVE  Awaits(t, g, p, tot)
                   <=> Clear(str, 1) /\ Chain(t, g, StringValue(str), p + Len(x), tot)
      BY <1>2, <2>1, StringReads
    <2> QED
      BY <2>1, Zenon DEF Reads
  <1> HIDE DEF x
  <1>3. Legible(x, node, readable, StringValue(str))
    BY <1>1, <1>2, Zenon DEF Legible
  <1> QED
    BY <1>3 DEF x

(* The leaves.                                                             *)
LEMMA ClearIs ==
    ASSUME NEW str \in Strings
    PROVE  Clear(str, 1) <=> UnitSeparator \notin ToSet(str)
  <1>1. DOMAIN str = 1 .. Len(str)
    <2>1. str \in Text
      BY DEF Strings
    <2> QED
      BY <2>1, TextFacts
  <1> QED
    BY <1>1 DEF Clear, ToSet

(* Every node that is no collection is legible, inf and nan as null.       *)
LEMMA LeafLegible ==
    ASSUME NEW node \in Leaves, NEW below, NEW as, NEW readable,
           node \in readable <=> IsReadable(node, below)
    PROVE  /\ Legible(emit_leaf(node), node, readable, IsReadAs(node, as))
           /\ node.tag \notin {"ARRAY", "OBJECT"}
  <1>1. CASE \E w \in Words : node = w.value
    <2>1. PICK w \in Words : node = w.value
      BY <1>1
    <2>2. Word(node) = w.word /\ node.tag \in {"NULL", "BOOL"}
      BY <2>1, WordIs
    <2>3. node.tag \notin {"STRING", "NUMBER", "ARRAY", "OBJECT"}
      BY <2>2
    <2>4. emit_leaf(node) = w.word
      BY <2>2, Zenon DEF emit_leaf
    <2>5. IsReadAs(node, as) = w.value
      BY <2>1, <2>3 DEF IsReadAs
    <2>6. node \in readable
      BY <2>3 DEF IsReadable
    <2>7. Legible(w.word, node, readable, w.value)
      BY <2>6, WordLegible
    <2> QED
      BY <2>3, <2>4, <2>5, <2>7, Zenon
  <1>2. CASE node \in [tag : {"STRING"}, string_ : Strings]
    <2>1. node.tag = "STRING" /\ node.string_ \in Strings /\ node = StringValue(node.string_)
      BY <1>2 DEF StringValue
    <2>2. node.tag \notin {"NULL", "BOOL", "NUMBER", "ARRAY", "OBJECT"}
      BY <2>1
    <2>3. emit_leaf(node) = emit_string(node.string_)
      BY <2>1, <2>2 DEF emit_leaf
    <2>4. IsReadAs(node, as) = node
      BY <2>2 DEF IsReadAs
    <2>5. node \in readable <=> Clear(node.string_, 1)
      BY <2>1, <2>2, ClearIs DEF IsReadable
    <2>6. Legible(emit_string(node.string_), node, readable, StringValue(node.string_))
      BY <2>1, <2>5, StringLegible
    <2> QED
      BY <2>1, <2>2, <2>3, <2>4, <2>6, Zenon
  <1>3. CASE node \in [tag : {"NUMBER"}, number_ : Text]
    <2>1. node.tag = "NUMBER" /\ node.number_ \in Text /\ node = NumberValue(node.number_)
      BY <1>3 DEF NumberValue
    <2>2. node.tag \notin {"NULL", "BOOL", "STRING", "ARRAY", "OBJECT"}
      BY <2>1
    <2>3. emit_leaf(node) = emit_number(node.number_)
      BY <2>1, <2>2 DEF emit_leaf
    <2>4. IsReadAs(node, as) = IF IsNumber(node.number_) THEN node ELSE Null
      BY <2>1 DEF IsReadAs
    <2>5. node \in readable
      BY <2>2 DEF IsReadable
    <2>6. CASE IsNumber(node.number_)
      <3>1. emit_leaf(node) = node.number_
        BY <2>1, <2>3, <2>6, NumberValid DEF emit_number
      <3>2. Legible(node.number_, node, readable, NumberValue(node.number_))
        BY <2>1, <2>5, <2>6, NumberLegible
      <3> QED
        BY <2>1, <2>2, <2>4, <2>6, <3>1, <3>2, Zenon
    <2>7. CASE ~IsNumber(node.number_)
      <3>1. PICK w \in Words : w.value = Null
        BY DEF Words, Null
      <3>2. emit_leaf(node) = w.word
        <4>1. emit_number(node.number_) = Word(Null)
          BY <2>1, <2>7, NumberValid DEF emit_number
        <4> QED
          BY <2>3, <3>1, <4>1, WordIs
      <3>3. Legible(w.word, node, readable, w.value)
        BY <2>5, WordLegible
      <3> QED
        BY <2>2, <2>4, <2>7, <3>1, <3>2, <3>3, Zenon
    <2> QED
      BY <2>6, <2>7
  <1> QED
    BY <1>1, <1>2, <1>3 DEF Leaves

(* Texts in a row with one between each two of them.                       *)
Spread(n, texts, between, t, p, q, at) ==
    /\ at[1] = p /\ at[n] + Len(texts[n]) = q
    /\ \A k \in 1 .. n : Sits(t, at[k], texts[k])
    /\ \A k \in 1 .. n - 1 : /\ Sits(t, at[k] + Len(texts[k]), between)
                             /\ at[k + 1] = at[k] + Len(texts[k]) + Len(between)

(* Where separated texts stand, each of them has a place.                  *)
LEMMA SpreadPlaces ==
    ASSUME NEW n \in Nat, n >= 1, NEW texts \in [1 .. n -> Text], NEW between \in Text
    PROVE  /\ Separated(texts, between) \in Text
           /\ \A t \in Text : \A p : Sits(t, p, Separated(texts, between)) =>
                \E at : Spread(n, texts, between, t, p, p + Len(Separated(texts, between)), at)
  <1> DEFINE ss == [k \in 1 .. n |-> IF k < n THEN texts[k] \o between ELSE texts[k]]
             x == FlattenSeq(ss)
  <1>1. Len(texts) = n /\ DOMAIN texts = 1 .. n
    BY FunctionIsSeq
  <1>2. Separated(texts, between) = x
    BY <1>1, Zenon DEF Separated
  <1>3. ss \in [1 .. n -> Text]
    <2>1. \A k \in 1 .. n : texts[k] \o between \in Text
      BY JoinFacts
    <2> QED
      BY <2>1
  <1>4. \A k \in 1 .. n - 1 : ss[k] = texts[k] \o between
    OBVIOUS
  <1>5. ss[n] = texts[n]
    OBVIOUS
  <1> HIDE DEF ss
  <1>6. x \in Text
    BY <1>3, FlattenText
  <1>7. ASSUME NEW t \in Text, NEW p, Sits(t, p, x)
        PROVE  \E at : Spread(n, texts, between, t, p, p + Len(x), at)
    <2>1. PICK at : InPlaces(n, ss, t, p, p + Len(x), at)
      BY <1>3, <1>7, FlattenPlaces, Zenon
    <2>2. /\ at[1] = p /\ at[n + 1] = p + Len(x)
          /\ \A k \in 1 .. n : Sits(t, at[k], ss[k]) /\ at[k + 1] = at[k] + Len(ss[k])
      BY <2>1, Zenon DEF InPlaces
    <2>3. Sits(t, at[n], texts[n]) /\ at[n] + Len(texts[n]) = p + Len(x)
      <3>1. n \in 1 .. n
        OBVIOUS
      <3> QED
        BY <1>5, <2>2, <3>1, Zenon
    <2>4. ASSUME NEW k \in 1 .. n - 1
          PROVE  /\ Sits(t, at[k], texts[k]) /\ Sits(t, at[k] + Len(texts[k]), between)
                 /\ at[k + 1] = at[k] + Len(texts[k]) + Len(between)
      <3> DEFINE a == at[k]
                 b == at[k + 1]
                 y == texts[k]
      <3>1. k \in 1 .. n /\ y \in Text
        OBVIOUS
      <3>2. Sits(t, a, y \o between) /\ b = a + Len(y \o between)
        BY <1>4, <2>2, <3>1
      <3> HIDE DEF a, b, y
      <3>3. Sits(t, a, y) /\ Sits(t, a + Len(y), between)
        BY <3>1, <3>2, SitsJoin
      <3>4. /\ Len(y \o between) = Len(y) + Len(between) /\ Len(y) \in Nat
            /\ Len(between) \in Nat
        BY <3>1, JoinFacts
      <3>5. a \in Nat
        BY <3>1, <3>3, SitsFacts
      <3>6. b = a + Len(y) + Len(between)
        BY <3>2, <3>4, <3>5
      <3> QED
        BY <3>3, <3>6 DEF a, b, y
    <2>5. \A k \in 1 .. n : k \in 1 .. n - 1 \/ k = n
      OBVIOUS
    <2>6. Spread(n, texts, between, t, p, p + Len(x), at)
      BY <2>2, <2>3, <2>4, <2>5, Zenon DEF Spread
    <2> QED
      BY <2>6
  <1> HIDE DEF x
  <1> QED
    BY <1>2, <1>6, <1>7, Zenon

(* Items between brackets: where they stand, with only space around them.  *)
Gap(t, i, j) == i \in 1 .. Len(t) + 1 /\ j \in i .. Len(t) + 1 /\ BlankSpan(t, i, j - 1)
LeadsTo(t, e, c, j) == e \in 1 .. Len(t) /\ t[e] = c /\ Gap(t, e + 1, j)
Rows(t, p, n, items, open, close, at, q) ==
    /\ LeadsTo(t, p, open, at[1])
    /\ \A k \in 1 .. n : Sits(t, at[k], items[k])
    /\ \A k \in 1 .. n - 1 : LeadsTo(t, at[k] + Len(items[k]), Comma, at[k + 1])
    /\ Gap(t, at[n] + Len(items[n]), q) /\ q \in 1 .. Len(t) /\ t[q] = close

(* A text of items between brackets, with nothing but space around them.   *)
Rowed(x, n, items, open, close) ==
    /\ x \in Text /\ Len(x) \in Nat /\ Len(x) >= 1 /\ x[1] = open
    /\ \A t \in Text : \A p : Sits(t, p, x) =>
         \E at, q : Rows(t, p, n, items, open, close, at, q) /\ q + 1 = p + Len(x)

(* Where a text of spaces stands, there is a gap.                          *)
LEMMA GapBlank ==
    ASSUME NEW t \in Text, NEW p, NEW x \in Text, Sits(t, p, x), Blank(x)
    PROVE  Gap(t, p, p + Len(x))
  <1>1. p \in 1 .. Len(t) + 1 /\ p + Len(x) \in 1 .. Len(t) + 1 /\ Len(x) \in Nat
    BY SitsFacts
  <1>2. BlankSpan(t, p, p + Len(x) - 1)
    BY SitsBlank
  <1>3. p + Len(x) \in p .. Len(t) + 1
    BY <1>1
  <1> QED
    BY <1>1, <1>2, <1>3 DEF Gap

(* A gap may be empty.                                                     *)
LEMMA GapNone ==
    ASSUME NEW t \in Text, NEW p \in 1 .. Len(t) + 1
    PROVE  Gap(t, p, p)
  BY TextFacts DEF Gap, BlankSpan

(* A gap behind a gap is a gap.                                            *)
LEMMA GapJoin ==
    ASSUME NEW t \in Text, NEW i, NEW j, NEW k, Gap(t, i, j), Gap(t, j, k)
    PROVE  Gap(t, i, k)
  <1>1. /\ i \in 1 .. Len(t) + 1 /\ j \in i .. Len(t) + 1 /\ k \in j .. Len(t) + 1
        /\ BlankSpan(t, i, j - 1) /\ BlankSpan(t, j, k - 1) /\ Len(t) \in Nat
    BY TextFacts DEF Gap
  <1>2. BlankSpan(t, i, k - 1)
    <2> SUFFICES ASSUME NEW a \in i .. k - 1
                 PROVE  t[a] \in Spaces
      BY DEF BlankSpan
    <2>1. a \in i .. j - 1 \/ a \in j .. k - 1
      BY <1>1
    <2> QED
      BY <1>1, <2>1 DEF BlankSpan
  <1> QED
    BY <1>1, <1>2 DEF Gap

(* A byte and a gap lead on.                                               *)
LEMMA LeadsByte ==
    ASSUME NEW t \in Text, NEW e, NEW c, Sits(t, e, << c >>), NEW j, Gap(t, e + 1, j)
    PROVE  LeadsTo(t, e, c, j)
  BY SitsByte DEF LeadsTo

(* Items on one line stand in a row between their brackets.                *)
LEMMA RowOne ==
    ASSUME NEW n \in Nat, n >= 1, NEW items \in [1 .. n -> Text],
           NEW open \in 1 .. 255, NEW close \in 1 .. 255
    PROVE  Rowed(<< open >> \o Separated(items, << Comma >>) \o << close >>,
                 n, items, open, close)
  <1> DEFINE o == << open >>
             c == << close >>
             m == << Comma >>
             z == Separated(items, m)
             y == o \o z
             x == y \o c
  <1>1. o \in Text /\ c \in Text /\ m \in Text /\ Len(o) = 1 /\ Len(c) = 1 /\ Len(m) = 1
        /\ o[1] = open
    BY DEF Text, Comma
  <1> HIDE DEF o, c, m
  <1>2. z \in Text
    BY <1>1, SpreadPlaces
  <1> HIDE DEF z
  <1>3. y \in Text /\ Len(y) = Len(o) + Len(z) /\ Len(z) \in Nat /\ \A k \in 1 .. Len(o) : y[k] = o[k]
    BY <1>1, <1>2, JoinFacts, Zenon
  <1> HIDE DEF y
  <1>4. x \in Text /\ Len(x) = Len(y) + Len(c) /\ \A k \in 1 .. Len(y) : x[k] = y[k]
    BY <1>1, <1>3, JoinFacts, Zenon
  <1> HIDE DEF x
  <1>5. Len(x) = Len(z) + 2 /\ Len(x) \in Nat /\ Len(x) >= 1 /\ x[1] = open
    BY <1>1, <1>3, <1>4
  <1>6. ASSUME NEW t \in Text, NEW p, Sits(t, p, x)
        PROVE  \E at, q : Rows(t, p, n, items, open, close, at, q) /\ q + 1 = p + Len(x)
    <2>1. Sits(t, p, y) /\ Sits(t, p + Len(y), c)
      BY <1>1, <1>3, <1>6, SitsJoin DEF x
    <2>2. Sits(t, p, o) /\ Sits(t, p + 1, z)
      <3>1. Sits(t, p, o) /\ Sits(t, p + Len(o), z)
        BY <1>1, <1>2, <2>1, SitsJoin DEF y
      <3> QED
        BY <1>1, <3>1
    <2> DEFINE p1 == p + 1
               q == p1 + Len(z)
    <2>3. p \in 1 .. Len(t) /\ p \in Nat /\ Len(t) \in Nat
      BY <2>2, SitsByte DEF o
    <2>4. p + Len(y) = q /\ q + 1 = p + Len(x)
      BY <1>1, <1>3, <1>5, <2>3
    <2>5. PICK at : Spread(n, items, m, t, p1, q, at)
      <3>1. Sits(t, p1, z)
        BY <2>2
      <3> HIDE DEF p1
      <3> QED
        BY <1>1, <3>1, SpreadPlaces, Zenon DEF z
    <2>6. q \in 1 .. Len(t) /\ t[q] = close
      BY <2>1, <2>4, SitsByte DEF c
    <2>7. /\ at[1] = p1 /\ at[n] + Len(items[n]) = q
          /\ \A k \in 1 .. n : Sits(t, at[k], items[k])
          /\ \A k \in 1 .. n - 1 : /\ Sits(t, at[k] + Len(items[k]), m)
                                   /\ at[k + 1] = at[k] + Len(items[k]) + Len(m)
      BY <2>5, Zenon DEF Spread
    <2>8. LeadsTo(t, p, open, at[1])
      <3>1. Sits(t, p, << open >>)
        BY <2>2 DEF o
      <3>2. p + 1 \in 1 .. Len(t) + 1
        BY <2>3
      <3>3. Gap(t, p + 1, p + 1)
        BY <3>2, GapNone
      <3> QED
        BY <2>7, <3>1, <3>3, LeadsByte
    <2>9. ASSUME NEW k \in 1 .. n - 1
          PROVE  LeadsTo(t, at[k] + Len(items[k]), Comma, at[k + 1])
      <3> DEFINE e == at[k] + Len(items[k])
      <3>1. Sits(t, e, << Comma >>)
        BY <2>7 DEF m
      <3>2. at[k + 1] = e + 1
        BY <1>1, <2>7
      <3> HIDE DEF e
      <3>3. e + 1 \in 1 .. Len(t) + 1
        <4>1. e \in 1 .. Len(t) /\ Len(t) \in Nat
          BY <3>1, SitsByte
        <4> QED
          BY <4>1
      <3>4. Gap(t, e + 1, e + 1)
        BY <3>3, GapNone
      <3>5. LeadsTo(t, e, Comma, at[k + 1])
        BY <3>1, <3>2, <3>4, LeadsByte
      <3> QED
        BY <3>5 DEF e
    <2>10. Gap(t, at[n] + Len(items[n]), q)
      <3>1. q \in 1 .. Len(t) + 1
        BY <2>3, <2>6
      <3> HIDE DEF q
      <3> QED
        BY <2>7, <3>1, GapNone
    <2> HIDE DEF q, p1
    <2>11. Rows(t, p, n, items, open, close, at, q)
      BY <2>6, <2>7, <2>8, <2>9, <2>10, Zenon DEF Rows
    <2> QED
      BY <2>4, <2>11
  <1> QED
    <2>1. Rowed(x, n, items, open, close)
      BY <1>4, <1>5, <1>6, Zenon DEF Rowed
    <2> QED
      BY <2>1, Zenon DEF x, y, z, o, m, c

(* The indentation and the line break are texts of spaces.                 *)
LEMMA BlankTexts ==
    ASSUME NEW level \in Nat
    PROVE  /\ Indent(level) \in Text /\ Blank(Indent(level))
           /\ Line \in Text /\ Blank(Line) /\ Len(Line) = 1
  <1> DEFINE n == 4 * level
             x == Indent(level)
  <1>1. n \in Nat
    OBVIOUS
  <1>2. x = [k \in 1 .. n |-> 32]
    BY DEF Indent
  <1>3. 32 \in 1 .. 255 /\ 32 \in Spaces
    BY DEF Spaces
  <1> HIDE DEF n, x
  <1>4. x \in [1 .. n -> 1 .. 255]
    BY <1>2, <1>3
  <1>5. x \in Text
    BY <1>1, <1>4, FunctionIsSeq DEF Text
  <1>6. Blank(x)
    <2>1. DOMAIN x = 1 .. n
      BY <1>2
    <2>2. \A k \in 1 .. n : x[k] = 32
      BY <1>2
    <2> QED
      BY <1>3, <2>1, <2>2, Zenon DEF Blank
  <1>7. Line \in Text /\ Blank(Line) /\ Len(Line) = 1
    BY DEF Line, Text, Blank, Spaces
  <1> QED
    BY <1>5, <1>6, <1>7 DEF x

(* Four more texts in a row.                                               *)
InRow(y, b, i, c) == y \o b \o i \o c
AllTexts(y, b, i, c) == y \in Text /\ b \in Text /\ i \in Text /\ c \in Text
StandInRow(t, p, y, b, i, c) ==
    /\ Sits(t, p, y) /\ Sits(t, p + Len(y), b)
    /\ Sits(t, p + Len(y) + Len(b), i)
    /\ Sits(t, p + Len(y) + Len(b) + Len(i), c)

(* Four texts put together: the length, the first bytes and the places.    *)
LEMMA JoinMore ==
    ASSUME NEW y, NEW b, NEW i, NEW c, AllTexts(y, b, i, c)
    PROVE  /\ InRow(y, b, i, c) \in Text /\ Len(InRow(y, b, i, c)) \in Nat
           /\ Len(InRow(y, b, i, c)) = Len(y) + Len(b) + Len(i) + Len(c)
           /\ \A k \in 1 .. Len(y) : InRow(y, b, i, c)[k] = y[k]
           /\ \A t \in Text : \A p : Sits(t, p, InRow(y, b, i, c)) => StandInRow(t, p, y, b, i, c)
  <1> DEFINE y1 == y \o b
             y2 == y1 \o i
             z == y2 \o c
             x == InRow(y, b, i, c)
  <1>0. x = z
    BY Zenon DEF InRow
  <1>t. y \in Text /\ b \in Text /\ i \in Text /\ c \in Text
    BY DEF AllTexts
  <1>1. /\ y1 \in Text /\ Len(y1) = Len(y) + Len(b) /\ Len(y) \in Nat /\ Len(b) \in Nat
        /\ \A k \in 1 .. Len(y) : y1[k] = y[k]
    BY <1>t, JoinFacts
  <1> HIDE DEF y1
  <1>2. /\ y2 \in Text /\ Len(y2) = Len(y1) + Len(i) /\ Len(i) \in Nat
        /\ \A k \in 1 .. Len(y1) : y2[k] = y1[k]
    BY <1>t, <1>1, JoinFacts
  <1> HIDE DEF y2
  <1>h. /\ z \in Text /\ Len(z) = Len(y2) + Len(c) /\ Len(c) \in Nat
        /\ \A k \in 1 .. Len(y2) : z[k] = y2[k]
    BY <1>t, <1>2, JoinFacts
  <1>3. /\ x \in Text /\ Len(x) = Len(y2) + Len(c) /\ Len(c) \in Nat
        /\ \A k \in 1 .. Len(y2) : x[k] = y2[k]
    BY <1>0, <1>h, Zenon
  <1> HIDE DEF x
  <1>4. Len(x) = Len(y) + Len(b) + Len(i) + Len(c) /\ Len(x) \in Nat
    BY <1>1, <1>2, <1>3
  <1>5. \A k \in 1 .. Len(y) : x[k] = y[k]
    <2> TAKE k \in 1 .. Len(y)
    <2>1. k \in 1 .. Len(y1) /\ k \in 1 .. Len(y2)
      BY <1>1, <1>2
    <2> QED
      BY <1>1, <1>2, <1>3, <2>1, Zenon
  <1>6. ASSUME NEW t \in Text, NEW p, Sits(t, p, x)
        PROVE  StandInRow(t, p, y, b, i, c)
    <2>1. Sits(t, p, y2) /\ Sits(t, p + Len(y2), c)
      BY <1>0, <1>2, <1>6, <1>t, SitsJoin
    <2>2. Sits(t, p, y1) /\ Sits(t, p + Len(y1), i)
      BY <1>1, <2>1, <1>t, SitsJoin DEF y2
    <2>3. Sits(t, p, y) /\ Sits(t, p + Len(y), b)
      BY <2>2, <1>t, SitsJoin DEF y1
    <2>4. p \in Nat
      BY <1>t, <2>3, SitsFacts
    <2>5. p + Len(y1) = p + Len(y) + Len(b) /\ p + Len(y2) = p + Len(y) + Len(b) + Len(i)
      BY <1>1, <1>2, <2>4
    <2> QED
      BY <2>1, <2>2, <2>3, <2>5 DEF StandInRow
  <1> QED
    BY <1>3, <1>4, <1>5, <1>6, Zenon DEF x

(* Padded items, and what stands around them.                              *)
LEMMA RowBlock ==
    ASSUME NEW n \in Nat, n >= 1, NEW items \in [1 .. n -> Text],
           NEW open \in 1 .. 255, NEW close \in 1 .. 255, NEW level \in Nat
    PROVE  Rowed(<< open >> \o Line
                 \o Separated([k \in 1 .. n |-> Indent(level + 1) \o items[k]],
                              << Comma >> \o Line)
                 \o Line \o Indent(level) \o << close >>, n, items, open, close)
  <1> DEFINE o == << open >>
             c == << close >>
             m == << Comma >>
             b == Line
             w == m \o b
             i == Indent(level)
             pad == Indent(level + 1)
             texts == [k \in 1 .. n |-> pad \o items[k]]
             z == Separated(texts, w)
             y1 == o \o b
             y == y1 \o z
             x == y \o b \o i \o c
  <1>1. o \in Text /\ c \in Text /\ m \in Text /\ Len(o) = 1 /\ Len(c) = 1 /\ Len(m) = 1
        /\ o[1] = open
    BY DEF Text, Comma
  <1>2. b \in Text /\ i \in Text /\ pad \in Text /\ Blank(b) /\ Blank(i) /\ Blank(pad)
        /\ Len(b) = 1
    <2>1. level + 1 \in Nat
      OBVIOUS
    <2> QED
      BY <2>1, BlankTexts
  <1> HIDE DEF o, c, m, b, i, pad
  <1>3. w \in Text /\ Len(w) = 2
    <2>1. w \in Text /\ Len(w) = Len(m) + Len(b)
      BY <1>1, <1>2, JoinFacts, Zenon
    <2> QED
      BY <1>1, <1>2, <2>1
  <1>4. texts \in [1 .. n -> Text] /\ \A k \in 1 .. n : texts[k] = pad \o items[k]
    <2>1. \A k \in 1 .. n : pad \o items[k] \in Text
      BY <1>2, JoinFacts
    <2> QED
      BY <2>1
  <1> HIDE DEF w, texts
  <1>5. z \in Text
    BY <1>3, <1>4, SpreadPlaces
  <1> HIDE DEF z
  <1>6. /\ y1 \in Text /\ Len(y1) = Len(o) + Len(b) /\ \A k \in 1 .. Len(o) : y1[k] = o[k]
    BY <1>1, <1>2, JoinFacts, Zenon
  <1> HIDE DEF y1
  <1>7. /\ y \in Text /\ Len(y) = Len(y1) + Len(z) /\ Len(z) \in Nat
        /\ \A k \in 1 .. Len(y1) : y[k] = y1[k]
    BY <1>5, <1>6, JoinFacts, Zenon
  <1> HIDE DEF y
  <1>8. /\ x \in Text /\ Len(x) = Len(y) + Len(b) + Len(i) + Len(c) /\ Len(x) \in Nat
        /\ \A k \in 1 .. Len(y) : x[k] = y[k]
    <2>0. AllTexts(y, b, i, c)
      BY <1>1, <1>2, <1>7, Zenon DEF AllTexts
    <2>1. x = InRow(y, b, i, c)
      BY Zenon DEF InRow
    <2> HIDE DEF x
    <2>2. /\ InRow(y, b, i, c) \in Text /\ Len(InRow(y, b, i, c)) \in Nat
          /\ Len(InRow(y, b, i, c)) = Len(y) + Len(b) + Len(i) + Len(c)
          /\ \A k \in 1 .. Len(y) : InRow(y, b, i, c)[k] = y[k]
      <3> HIDE DEF x
      <3> QED
        BY <2>0, JoinMore
    <2> QED
      BY <2>1, <2>2
  <1>9. Len(y1) = 2 /\ Len(y) = 2 + Len(z) /\ Len(x) >= 1 /\ x[1] = open
    <2>1. Len(y1) = 2 /\ Len(y) = 2 + Len(z) /\ Len(i) \in Nat
      BY <1>1, <1>2, <1>6, <1>7, TextFacts
    <2>2. 1 \in 1 .. Len(o) /\ 1 \in 1 .. Len(y1) /\ 1 \in 1 .. Len(y)
      BY <1>1, <1>7, <2>1
    <2>3. x[1] = open
      <3> HIDE DEF x
      <3>1. x[1] = y[1] /\ y[1] = y1[1] /\ y1[1] = o[1]
        BY <1>6, <1>7, <1>8, <2>2
      <3> QED
        BY <1>1, <3>1
    <2>4. Len(x) >= 1
      BY <1>1, <1>2, <1>7, <1>8, <2>1
    <2> QED
      BY <2>1, <2>3, <2>4
  <1>10. ASSUME NEW t \in Text, NEW p, Sits(t, p, x)
         PROVE  \E at, q : Rows(t, p, n, items, open, close, at, q) /\ q + 1 = p + Len(x)
    <2>1. /\ Sits(t, p, y) /\ Sits(t, p + Len(y), b)
          /\ Sits(t, p + Len(y) + Len(b), i)
          /\ Sits(t, p + Len(y) + Len(b) + Len(i), c)
      <3>1. x = InRow(y, b, i, c)
        BY Zenon DEF InRow
      <3> HIDE DEF x
      <3>2. StandInRow(t, p, y, b, i, c)
        <4>1. AllTexts(y, b, i, c)
          BY <1>1, <1>2, <1>7, Zenon DEF AllTexts
        <4> QED
          BY <1>10, <3>1, <4>1, JoinMore, Zenon
      <3> QED
        BY <3>2, Zenon DEF StandInRow
    <2> HIDE DEF x
    <2>2. Sits(t, p, y1) /\ Sits(t, p + Len(y1), z)
      BY <1>5, <1>6, <2>1, SitsJoin DEF y
    <2>3. Sits(t, p, o) /\ Sits(t, p + Len(o), b)
      BY <1>1, <1>2, <2>2, SitsJoin DEF y1
    <2> DEFINE p2 == p + 2
               r == p2 + Len(z)
               q == r + 1 + Len(i)
    <2>4. p \in 1 .. Len(t) /\ p \in Nat /\ Len(t) \in Nat
      BY <2>3, SitsByte DEF o
    <2>5. /\ p + Len(y1) = p2 /\ p + Len(o) = p + 1 /\ p + Len(y) = r
          /\ p + Len(y) + Len(b) = r + 1 /\ p + Len(y) + Len(b) + Len(i) = q
          /\ q + 1 = p + Len(x) /\ Len(i) \in Nat
      <3>1. Len(i) \in Nat
        BY <1>2, TextFacts
      <3> QED
        BY <1>1, <1>2, <1>7, <1>8, <1>9, <2>4, <3>1
    <2>6. /\ Sits(t, p, o) /\ Sits(t, p + 1, b) /\ Sits(t, p2, z)
          /\ Sits(t, r, b) /\ Sits(t, r + 1, i) /\ Sits(t, q, c)
      BY <2>1, <2>2, <2>3, <2>5
    <2> HIDE DEF p2
    <2>7. PICK at : Spread(n, texts, w, t, p2, r, at)
      BY <1>3, <1>4, <2>6, SpreadPlaces, Zenon DEF z
    <2>8. q \in 1 .. Len(t) /\ t[q] = close
      <3> HIDE DEF q
      <3> QED
        BY <2>6, SitsByte DEF c
    <2>9. /\ at[1] = p2 /\ at[n] + Len(texts[n]) = r
          /\ \A k \in 1 .. n : Sits(t, at[k], texts[k])
          /\ \A k \in 1 .. n - 1 : /\ Sits(t, at[k] + Len(texts[k]), w)
                                   /\ at[k + 1] = at[k] + Len(texts[k]) + Len(w)
      BY <2>7, Zenon DEF Spread
    <2> DEFINE st == [k \in 1 .. n |-> at[k] + Len(pad)]
    <2>10. ASSUME NEW k \in 1 .. n
           PROVE  /\ Sits(t, st[k], items[k]) /\ Gap(t, at[k], st[k])
                  /\ st[k] + Len(items[k]) = at[k] + Len(texts[k])
      <3> DEFINE a == at[k]
                 u == items[k]
      <3>1. u \in Text /\ texts[k] = pad \o u /\ Sits(t, a, pad \o u)
        BY <1>4, <2>9
      <3>2. st[k] = a + Len(pad)
        OBVIOUS
      <3> HIDE DEF a, u
      <3>3. Sits(t, a, pad) /\ Sits(t, a + Len(pad), u)
        BY <1>2, <3>1, SitsJoin
      <3>4. Gap(t, a, a + Len(pad))
        BY <1>2, <3>3, GapBlank
      <3>5. Len(pad \o u) = Len(pad) + Len(u) /\ Len(pad) \in Nat /\ Len(u) \in Nat
        BY <1>2, <3>1, JoinFacts, Zenon
      <3>6. a \in Nat
        BY <1>2, <3>3, SitsFacts
      <3>7. a + Len(pad) + Len(u) = a + Len(texts[k])
        BY <3>1, <3>5, <3>6
      <3> HIDE DEF st
      <3> QED
        BY <3>2, <3>3, <3>4, <3>7 DEF a, u
    <2> HIDE DEF st
    <2>11. LeadsTo(t, p, open, st[1])
      <3>1. Sits(t, p, << open >>)
        BY <2>6 DEF o
      <3>2. Gap(t, p + 1, p + 1 + Len(b))
        BY <1>2, <2>6, GapBlank
      <3>3. p + 1 + Len(b) = p2
        BY <1>2, <2>4 DEF p2
      <3>4. Gap(t, p2, st[1])
        <4>1. 1 \in 1 .. n
          OBVIOUS
        <4> QED
          BY <2>9, <2>10, <4>1
      <3>5. Gap(t, p + 1, st[1])
        BY <3>2, <3>3, <3>4, GapJoin
      <3> QED
        BY <3>1, <3>5, LeadsByte
    <2>12. ASSUME NEW k \in 1 .. n - 1
           PROVE  LeadsTo(t, st[k] + Len(items[k]), Comma, st[k + 1])
      <3> DEFINE e == at[k] + Len(texts[k])
      <3>1. k \in 1 .. n /\ k + 1 \in 1 .. n
        OBVIOUS
      <3>2. st[k] + Len(items[k]) = e /\ Gap(t, at[k + 1], st[k + 1])
        BY <2>10, <3>1
      <3>3. Sits(t, e, m \o b) /\ at[k + 1] = e + 2
        BY <1>3, <2>9 DEF w
      <3> HIDE DEF e
      <3>4. Sits(t, e, m) /\ Sits(t, e + 1, b)
        <4>1. Sits(t, e, m) /\ Sits(t, e + Len(m), b)
          BY <1>1, <1>2, <3>3, SitsJoin
        <4> QED
          BY <1>1, <4>1
      <3>5. Sits(t, e, << Comma >>)
        BY <3>4 DEF m
      <3>6. e \in Nat
        BY <3>5, SitsByte
      <3>7. Gap(t, e + 1, e + 1 + Len(b))
        BY <1>2, <3>4, GapBlank
      <3>8. e + 1 + Len(b) = at[k + 1]
        BY <1>2, <3>3, <3>6
      <3>9. Gap(t, e + 1, st[k + 1])
        BY <3>2, <3>7, <3>8, GapJoin
      <3> QED
        BY <3>2, <3>5, <3>9, LeadsByte
    <2>13. Gap(t, st[n] + Len(items[n]), q)
      <3>1. st[n] + Len(items[n]) = r
        BY <2>9, <2>10
      <3>2. Gap(t, r, r + 1)
        <4>1. Gap(t, r, r + Len(b))
          <5> HIDE DEF r
          <5> QED
            BY <1>2, <2>6, GapBlank
        <4> QED
          BY <1>2, <4>1
      <3> DEFINE r1 == r + 1
      <3>3. Gap(t, r1, q)
        <4>1. Sits(t, r1, i) /\ q = r1 + Len(i)
          BY <2>6
        <4> HIDE DEF r1, q
        <4> QED
          BY <1>2, <4>1, GapBlank
      <3> HIDE DEF r1, q, r
      <3>4. Gap(t, r, q)
        BY <3>2, <3>3, GapJoin DEF r1
      <3> QED
        BY <3>1, <3>4
    <2> HIDE DEF q, r
    <2>14. Rows(t, p, n, items, open, close, st, q)
      BY <2>8, <2>10, <2>11, <2>12, <2>13, Zenon DEF Rows
    <2> QED
      BY <2>5, <2>14
  <1> QED
    <2> HIDE DEF x
    <2>1. Rowed(x, n, items, open, close)
      BY <1>8, <1>9, <1>10, Zenon DEF Rowed
    <2> QED
      BY <2>1, Zenon DEF x, y, y1, z, texts, w, pad, i, b, o, m, c

(* The first values of a tuple.                                            *)
Prefix(v, k) == [i \in 1 .. k |-> v[i]]

(* A tuple grows from nothing to its whole by one value at a time.         *)
LEMMA PrefixFacts ==
    ASSUME NEW n \in Nat, NEW v, v = [k \in 1 .. n |-> v[k]]
    PROVE  /\ Prefix(v, 0) = << >> /\ Prefix(v, n) = v
           /\ \A k \in 0 .. n : Tuple(Prefix(v, k))
           /\ \A k \in 1 .. n : Append(Prefix(v, k - 1), v[k]) = Prefix(v, k)
  <1> DEFINE S == {v[k] : k \in 1 .. n}
  <1>1. \A k \in 1 .. n : v[k] \in S
    OBVIOUS
  <1> HIDE DEF S
  <1>2. ASSUME NEW k \in 0 .. n
        PROVE  Prefix(v, k) \in Seq(S) /\ Len(Prefix(v, k)) = k
               /\ \A i \in 1 .. k : Prefix(v, k)[i] = v[i]
    <2> DEFINE u == Prefix(v, k)
    <2>1. \A i \in 1 .. k : v[i] \in S
      BY <1>1
    <2>2. u \in [1 .. k -> S] /\ \A i \in 1 .. k : u[i] = v[i]
      BY <2>1 DEF Prefix
    <2> HIDE DEF u
    <2>3. u \in Seq(S) /\ Len(u) = k
      BY <2>2, FunctionIsSeq
    <2> QED
      BY <2>2, <2>3 DEF u
  <1>3. Prefix(v, 0) = << >>
    <2>1. 0 \in 0 .. n
      OBVIOUS
    <2> DEFINE u == Prefix(v, 0)
    <2>2. u \in Seq(S) /\ Len(u) = 0
      BY <1>2, <2>1
    <2> HIDE DEF u
    <2>3. u = << >>
      BY <2>2
    <2> QED
      BY <2>3 DEF u
  <1>4. Prefix(v, n) = v
    BY DEF Prefix
  <1>5. ASSUME NEW k \in 1 .. n
        PROVE  Append(Prefix(v, k - 1), v[k]) = Prefix(v, k)
    <2> DEFINE h == k - 1
               a == Prefix(v, h)
               b == Prefix(v, k)
               e == v[k]
    <2>1. h \in 0 .. n /\ k \in 0 .. n /\ e \in S /\ k = h + 1
      BY <1>1
    <2> HIDE DEF h
    <2>2. a \in Seq(S) /\ Len(a) = h /\ \A i \in 1 .. h : a[i] = v[i]
      BY <1>2, <2>1
    <2>3. b \in Seq(S) /\ Len(b) = k /\ \A i \in 1 .. k : b[i] = v[i]
      BY <1>2, <2>1
    <2>4. b[k] = e
      BY <2>1, <2>3
    <2> HIDE DEF a, b, e
    <2>5. Append(a, e) = b
      <3>1. /\ Append(a, e) \in Seq(S) /\ Len(Append(a, e)) = h + 1
            /\ \A i \in 1 .. h : Append(a, e)[i] = a[i]
            /\ Append(a, e)[h + 1] = e
        BY <2>1, <2>2
      <3>2. \A i \in 1 .. k : Append(a, e)[i] = b[i]
        <4>1. \A i \in 1 .. h : i \in 1 .. k /\ Append(a, e)[i] = v[i]
          BY <2>1, <2>2, <3>1
        <4>2. \A i \in 1 .. h : Append(a, e)[i] = b[i]
          BY <2>3, <4>1, Zenon
        <4>3. \A i \in 1 .. k : i \in 1 .. h \/ i = k
          BY <2>1
        <4>4. Append(a, e)[k] = b[k]
          BY <2>1, <2>4, <3>1
        <4> QED
          BY <4>2, <4>3, <4>4, Zenon
      <3> QED
        BY <2>1, <2>3, <3>1, <3>2, SeqEqual
    <2> QED
      BY <2>5 DEF a, b, e, h
  <1>6. \A k \in 0 .. n : Tuple(Prefix(v, k))
    BY <1>2, Zenon DEF Tuple
  <1> QED
    BY <1>3, <1>4, <1>5, <1>6

(* Items that are read one after the other, in an array.                   *)
ItemsRead(t, n, items, at, kids, readable, v) ==
    \A k \in 1 .. n : Reads(t, at[k], at[k] + Len(items[k]), kids[k], readable, v[k])

(* What a byte that leads on says of the text.                             *)
LEMMA LeadsFacts ==
    ASSUME NEW t \in Text, NEW e, NEW c, NEW j, LeadsTo(t, e, c, j)
    PROVE  /\ e \in 1 .. Len(t) /\ e \in 1 .. Len(t) + 1 /\ ByteAt(t, e) = c
           /\ e + 1 \in 1 .. Len(t) + 1 /\ j \in e + 1 .. Len(t) + 1
           /\ j \in 1 .. Len(t) + 1 /\ BlankSpan(t, e + 1, j - 1)
  <1>1. /\ e \in 1 .. Len(t) /\ t[e] = c /\ e + 1 \in 1 .. Len(t) + 1
        /\ j \in e + 1 .. Len(t) + 1 /\ BlankSpan(t, e + 1, j - 1) /\ Len(t) \in Nat
    BY TextFacts DEF LeadsTo, Gap
  <1>2. ByteAt(t, e) = c
    BY <1>1 DEF ByteAt
  <1>3. e \in 1 .. Len(t) + 1 /\ j \in 1 .. Len(t) + 1
    BY <1>1
  <1> QED
    BY <1>1, <1>2, <1>3

(* parse_array reads items in a row: from the last item back to the first, *)
(* what is left of them is read exactly when their nodes are readable.     *)
LEMMA ArrayWalk ==
    ASSUME NEW t \in Text, NEW p, NEW n \in Nat, n >= 1, NEW items, NEW at, NEW q,
           Rows(t, p, n, items, OpenBracket, CloseBracket, at, q),
           NEW kids, NEW readable, NEW v, v = [k \in 1 .. n |-> v[k]],
           ItemsRead(t, n, items, at, kids, readable, v),
           ByteAt(t, at[1]) \in Firsts, NEW g, IsStack(g), NEW tot
    PROVE  Awaits(t, g, p, tot)
             <=> (\A k \in 1 .. n : kids[k] \in readable)
                 /\ Chain(t, g, ArrayValue(v), q + 1, tot)
  <1> DEFINE F(k) == [fn |-> "array", kids |-> Prefix(v, k - 1)]
             End == Chain(t, g, ArrayValue(v), q + 1, tot)
             All(k) == \A j \in k .. n : kids[j] \in readable
             Claim(k) == Awaits(t, << F(k) >> \o g, at[k], tot) <=> All(k) /\ End
             S == {d \in Nat : d < n => Claim(n - d)}
  <1>1. /\ LeadsTo(t, p, OpenBracket, at[1])
        /\ \A k \in 1 .. n : Sits(t, at[k], items[k])
        /\ \A k \in 1 .. n - 1 : LeadsTo(t, at[k] + Len(items[k]), Comma, at[k + 1])
        /\ Gap(t, at[n] + Len(items[n]), q) /\ q \in 1 .. Len(t) /\ t[q] = CloseBracket
    BY Zenon DEF Rows
  <1>2. ASSUME NEW k \in 1 .. n
        PROVE  /\ F(k).fn = "array" /\ Tuple(F(k).kids)
               /\ Append(F(k).kids, v[k]) = Prefix(v, k) /\ F(k).kids = Prefix(v, k - 1)
               /\ IsStack(<< F(k) >> \o g)
    <2> DEFINE f == F(k)
    <2>1. k - 1 \in 0 .. n
      OBVIOUS
    <2>2. f.fn = "array" /\ f.kids = Prefix(v, k - 1)
      BY Zenon
    <2>3. Tuple(Prefix(v, k - 1)) /\ Append(Prefix(v, k - 1), v[k]) = Prefix(v, k)
      <3>1. /\ \A i \in 0 .. n : Tuple(Prefix(v, i))
            /\ \A i \in 1 .. n : Append(Prefix(v, i - 1), v[i]) = Prefix(v, i)
        BY PrefixFacts, Zenon
      <3> QED
        BY <1>2, <2>1, <3>1, Zenon
    <2> HIDE DEF f
    <2>4. IsStack(<< f >> \o g)
      BY PushFacts
    <2> QED
      BY <2>2, <2>3, <2>4 DEF f
  <1>3. ASSUME NEW k \in 1 .. n
        PROVE  Awaits(t, << F(k) >> \o g, at[k], tot)
                 <=> kids[k] \in readable
                     /\ Chain(t, << F(k) >> \o g, v[k], at[k] + Len(items[k]), tot)
    <2> DEFINE h == << F(k) >> \o g
    <2>1. IsStack(h)
      BY <1>2
    <2> HIDE DEF h
    <2> QED
      BY <2>1, Zenon DEF ItemsRead, Reads, h
  <1>4. Claim(n)
    <2> DEFINE f == F(n)
               e == at[n] + Len(items[n])
               u == v[n]
    <2>1. n \in 1 .. n
      OBVIOUS
    <2>2. /\ f.fn = "array" /\ Tuple(f.kids) /\ Append(f.kids, u) = v /\ IsStack(<< f >> \o g)
      BY <1>2, <2>1, PrefixFacts
    <2>3. e \in 1 .. Len(t) + 1 /\ q \in e .. Len(t) + 1 /\ BlankSpan(t, e, q - 1)
      BY <1>1, Zenon DEF Gap
    <2>4. q \in 1 .. Len(t) + 1 /\ ByteAt(t, q) = CloseBracket
      <3>1. Len(t) \in Nat
        BY TextFacts
      <3> QED
        BY <1>1, <3>1 DEF ByteAt
    <2>5. CloseBracket \notin Spaces
      BY KindBytes
    <2> DEFINE f2 == [fn |-> "array", kids |-> v]
    <2>6. f2.fn = "array" /\ f2.kids = v
      OBVIOUS
    <2>7. Awaits(t, << f >> \o g, at[n], tot)
            <=> kids[n] \in readable /\ Chain(t, << f >> \o g, u, e, tot)
      BY <1>3, <2>1
    <2> HIDE DEF f, e, f2, u
    <2>8. Chain(t, << f >> \o g, u, e, tot) <=> Chain(t, << f >> \o g, u, q, tot)
      <3> DEFINE h == << f >> \o g
      <3>1. IsStack(h)
        BY <2>2
      <3> HIDE DEF h
      <3>2. Chain(t, h, u, e, tot) <=> Chain(t, h, u, q, tot)
        BY <2>3, <3>1, ChainSkips
      <3> QED
        BY <3>2 DEF h
    <2>9. Chain(t, << f >> \o g, u, q, tot) <=> Chain(t, g, ArrayValue(f2.kids), q + 1, tot)
      <3>1. ByteAt(t, q) \notin Spaces /\ f2.kids = Append(f.kids, u)
        BY <2>2, <2>4, <2>5, <2>6
      <3> QED
        BY <2>2, <2>4, <2>6, <3>1, ElementEnds
    <2>10. All(n) <=> kids[n] \in readable
      OBVIOUS
    <2>11. Claim(n)
      BY <2>6, <2>7, <2>8, <2>9, <2>10, Zenon DEF f
    <2> QED
      BY <2>11
  <1>5. ASSUME NEW k \in 1 .. n - 1, Claim(k + 1)
        PROVE  Claim(k)
    <2> DEFINE f == F(k)
               f2 == F(k + 1)
               e == at[k] + Len(items[k])
               u == v[k]
               b == at[k + 1]
    <2>1. k \in 1 .. n /\ k + 1 \in 1 .. n /\ (k + 1) - 1 = k
      OBVIOUS
    <2>2. /\ f.fn = "array" /\ Tuple(f.kids) /\ Append(f.kids, u) = Prefix(v, k)
          /\ f2.fn = "array" /\ f2.kids = Prefix(v, k)
      BY <1>2, <2>1
    <2>3. LeadsTo(t, e, Comma, b)
      BY <1>1
    <2>4. Awaits(t, << f >> \o g, at[k], tot)
            <=> kids[k] \in readable /\ Chain(t, << f >> \o g, u, e, tot)
      BY <1>3, <2>1
    <2>5. Awaits(t, << f2 >> \o g, b, tot) <=> All(k + 1) /\ End
      BY <1>5
    <2> HIDE DEF f, f2, e, u, b
    <2>6. /\ e \in 1 .. Len(t) + 1 /\ ByteAt(t, e) = Comma /\ e + 1 \in 1 .. Len(t) + 1
          /\ b \in e + 1 .. Len(t) + 1 /\ BlankSpan(t, e + 1, b - 1)
      BY <2>3, LeadsFacts
    <2>7. ByteAt(t, e) \notin Spaces /\ f2.kids = Append(f.kids, u)
      BY <2>2, <2>6, KindBytes
    <2>8. Chain(t, << f >> \o g, u, e, tot) <=> Awaits(t, << f2 >> \o g, e + 1, tot)
      BY <2>2, <2>6, <2>7, ElementEnds
    <2>9. Awaits(t, << f2 >> \o g, e + 1, tot) <=> Awaits(t, << f2 >> \o g, b, tot)
      <3> DEFINE h == << f2 >> \o g
                 e1 == e + 1
      <3>1. e1 \in 1 .. Len(t) + 1 /\ b \in e1 .. Len(t) + 1 /\ BlankSpan(t, e1, b - 1)
        BY <2>6
      <3> HIDE DEF h, e1
      <3>2. Awaits(t, h, e1, tot) <=> Awaits(t, h, b, tot)
        BY <3>1, AwaitsSkips
      <3> QED
        BY <3>2 DEF h, e1
    <2>10. All(k) <=> kids[k] \in readable /\ All(k + 1)
      <3>1. /\ \A j \in k .. n : j = k \/ j \in k + 1 .. n
            /\ \A j \in k + 1 .. n : j \in k .. n
            /\ k \in k .. n
        OBVIOUS
      <3> QED
        BY <3>1, Zenon
    <2>11. Claim(k)
      BY <2>4, <2>5, <2>8, <2>9, <2>10, Zenon DEF f
    <2> QED
      BY <2>11
  <1> HIDE DEF Claim
  <1>6. Nat \subseteq S
    <2>1. 0 \in S
      BY <1>4
    <2>2. ASSUME NEW d \in Nat, d \in S
          PROVE  d + 1 \in S
      <3> SUFFICES ASSUME d + 1 < n
                   PROVE  Claim(n - (d + 1))
        OBVIOUS
      <3>1. n - (d + 1) \in 1 .. n - 1 /\ (n - (d + 1)) + 1 = n - d /\ d < n
        OBVIOUS
      <3>2. Claim(n - d)
        BY <2>2, <3>1
      <3> DEFINE k == n - (d + 1)
      <3>3. k \in 1 .. n - 1 /\ Claim(k + 1)
        BY <3>1, <3>2
      <3> HIDE DEF k
      <3>4. Claim(k)
        BY <1>5, <3>3
      <3> QED
        BY <3>4 DEF k
    <2> HIDE DEF S
    <2> QED
      BY <2>1, <2>2, Induct
  <1>7. Claim(1)
    <2>1. n - 1 \in Nat /\ n - 1 < n /\ n - (n - 1) = 1
      OBVIOUS
    <2>2. n - 1 \in S
      BY <1>6, <2>1
    <2> QED
      BY <2>1, <2>2
  <1>8. Awaits(t, g, p, tot) <=> Awaits(t, << F(1) >> \o g, at[1], tot)
    <2> DEFINE f == F(1)
               b == at[1]
    <2>1. 1 \in 1 .. n /\ 1 - 1 = 0
      OBVIOUS
    <2>2. f.fn = "array" /\ f.kids = << >>
      BY <1>2, <2>1, PrefixFacts
    <2>3. LeadsTo(t, p, OpenBracket, b) /\ ByteAt(t, b) \in Firsts
      BY <1>1
    <2> HIDE DEF f, b
    <2>4. /\ p \in 1 .. Len(t) /\ ByteAt(t, p) = OpenBracket /\ b \in p + 1 .. Len(t) + 1
          /\ BlankSpan(t, p + 1, b - 1)
      BY <2>3, LeadsFacts
    <2>5. ByteAt(t, b) \notin Spaces /\ ByteAt(t, b) # CloseBracket
      BY <2>3, KindBytes DEF Firsts
    <2>6. Inks(t, p + 1, b)
      BY <2>4, <2>5 DEF Inks
    <2>7. Awaits(t, g, p, tot) <=> Awaits(t, << f >> \o g, b, tot)
      BY <2>2, <2>4, <2>5, <2>6, ArrayHere
    <2> QED
      BY <2>7 DEF f, b
  <1> QED
    BY <1>7, <1>8, Zenon DEF Claim

(* A member that is read as its key and the tree its value was written     *)
(* from.                                                                   *)
Member(key, colon, x) == emit_string(key) \o colon \o x
MemberReads(t, p, q, key, node, readable, v) ==
    \A f, g, tot : IsStack(g) =>
        (AwaitsName(t, << f >> \o g, p, tot)
           <=> Clear(key, 1) /\ node \in readable
               /\ Chain(t, << Keyed(f, key) >> \o g, v, q, tot))

(* The key of the object on top of the stack.                              *)
LEMMA NamedPushed ==
    ASSUME NEW g, IsStack(g), NEW f, NEW key
    PROVE  Named(<< f >> \o g, key) = << Keyed(f, key) >> \o g
  <1>1. (<< f >> \o g)[1] = f /\ Tail(<< f >> \o g) = g
    BY TopOf
  <1> QED
    BY <1>1, Zenon DEF Named

(* A written member is legible, if its value is: the key, the colon with   *)
(* or without a space, the value.                                          *)
LEMMA MemberRead ==
    ASSUME NEW key \in Strings, NEW colon \in {<< Colon >>, << Colon, 32 >>},
           NEW x, NEW node, NEW readable, NEW v, Legible(x, node, readable, v)
    PROVE  /\ Member(key, colon, x) \in Text
           /\ \A t \in Text : \A p :
                /\ Sits(t, p, Member(key, colon, x))
                /\ ByteAt(t, p + Len(Member(key, colon, x))) \in Enders
                => /\ ByteAt(t, p) = Quote
                   /\ MemberReads(t, p, p + Len(Member(key, colon, x)), key, node, readable, v)
  <1> DEFINE y == emit_string(key)
             z == y \o colon
             m == z \o x
  <1>1. /\ y \in Text /\ Len(y) \in Nat
        /\ colon \in Text /\ Len(colon) \in 1 .. 2 /\ colon[1] = Colon
        /\ (Len(colon) = 2 => colon[2] = 32) /\ x \in Text /\ Len(x) \in Nat
    <2>1. y \in Text /\ Len(y) \in Nat
      BY StringText
    <2>2. x \in Text /\ Len(x) \in Nat
      BY Zenon DEF Legible
    <2>3. colon \in Text /\ Len(colon) \in 1 .. 2 /\ colon[1] = Colon
          /\ (Len(colon) = 2 => colon[2] = 32)
      <3>1. CASE colon = << Colon >>
        <4>1. Colon \in 1 .. 255
          BY DEF Colon
        <4> QED
          BY <3>1, <4>1 DEF Text
      <3>2. CASE colon = << Colon, 32 >>
        <4>1. Colon \in 1 .. 255
          BY DEF Colon
        <4>2. << Colon, 32 >> \in Seq(1 .. 255)
          BY <4>1
        <4>3. Len(colon) = 2 /\ colon[1] = Colon /\ colon[2] = 32
          BY <3>2
        <4> QED
          BY <3>2, <4>2, <4>3 DEF Text
      <3> QED
        BY <3>1, <3>2
    <2> QED
      BY <2>1, <2>2, <2>3
  <1>2. z \in Text /\ Len(z) = Len(y) + Len(colon)
    <2> HIDE DEF y
    <2> QED
      BY <1>1, JoinFacts, Zenon
  <1> HIDE DEF z
  <1>3. m \in Text /\ Len(m) = Len(z) + Len(x)
    BY <1>1, <1>2, JoinFacts, Zenon
  <1>4. Member(key, colon, x) = m
    BY Zenon DEF Member, z
  <1> HIDE DEF m
  <1>5. ASSUME NEW t \in Text, NEW p, Sits(t, p, m), ByteAt(t, p + Len(m)) \in Enders
        PROVE  /\ ByteAt(t, p) = Quote
               /\ MemberReads(t, p, p + Len(m), key, node, readable, v)
    <2>1. Sits(t, p, z) /\ Sits(t, p + Len(z), x)
      BY <1>1, <1>2, <1>5, SitsJoin DEF m
    <2>2. Sits(t, p, y) /\ Sits(t, p + Len(y), colon)
      BY <1>1, <2>1, SitsJoin DEF z
    <2>3. ByteAt(t, p) = Quote
      BY <2>2, StringPlaced
    <2> DEFINE q == p + Len(y)
               q1 == q + 1
               r == p + Len(z)
    <2>4. p \in Nat /\ Len(t) \in Nat
      BY <1>1, <2>2, SitsFacts
    <2>5. r = q + Len(colon) /\ p + Len(m) = r + Len(x)
      BY <1>1, <1>2, <1>3, <2>4
    <2>6. q \in 1 .. Len(t) + 1 /\ q \in Nat /\ q + Len(colon) \in 1 .. Len(t) + 1
          /\ \A k \in 1 .. Len(colon) : q + k - 1 \in 1 .. Len(t)
                                        /\ ByteAt(t, q + k - 1) = colon[k]
      <3>1. Sits(t, q, colon)
        BY <2>2
      <3> HIDE DEF q
      <3> QED
        BY <1>1, <3>1, SitsFacts
    <2>7. ByteAt(t, q) = Colon
      <3>1. 1 \in 1 .. Len(colon) /\ q + 1 - 1 = q
        BY <1>1, <2>6
      <3>2. ByteAt(t, q + 1 - 1) = colon[1]
        BY <2>6, <3>1
      <3> HIDE DEF q
      <3> QED
        BY <1>1, <3>1, <3>2
    <2>8. Inks(t, q, q)
      <3>1. ByteAt(t, q) \notin Spaces
        BY <2>7, KindBytes
      <3>2. BlankSpan(t, q, q - 1)
        BY <2>6 DEF BlankSpan
      <3> QED
        BY <2>6, <3>1, <3>2 DEF Inks
    <2>9. q1 \in 1 .. Len(t) + 1 /\ r \in q1 .. Len(t) + 1 /\ BlankSpan(t, q1, r - 1)
      <3>1. CASE Len(colon) = 1
        BY <2>5, <2>6, <3>1 DEF BlankSpan
      <3>2. CASE Len(colon) = 2
        <4>1. 2 \in 1 .. Len(colon) /\ q + 2 - 1 = q1
          BY <2>6, <3>2
        <4>2. q + 2 - 1 \in 1 .. Len(t) /\ ByteAt(t, q + 2 - 1) = colon[2]
          BY <2>6, <4>1
        <4>3. q1 \in 1 .. Len(t) /\ ByteAt(t, q1) = 32
          BY <1>1, <3>2, <4>1, <4>2
        <4>4. t[q1] \in Spaces
          BY <4>3 DEF ByteAt, Spaces
        <4>5. r = q1 + 1
          BY <2>5, <2>6, <3>2
        <4> HIDE DEF q1, r
        <4> QED
          BY <4>3, <4>4, <4>5 DEF BlankSpan
      <3> QED
        BY <1>1, <3>1, <3>2
    <2>10. Reads(t, r, r + Len(x), node, readable, v)
      <3>1. Sits(t, r, x) /\ ByteAt(t, r + Len(x)) \in Enders
        BY <1>5, <2>1, <2>5
      <3> HIDE DEF r
      <3> QED
        BY <3>1, Zenon DEF Legible
    <2>11. ASSUME NEW f, NEW g, NEW tot, IsStack(g)
           PROVE  AwaitsName(t, << f >> \o g, p, tot)
                    <=> Clear(key, 1) /\ node \in readable
                        /\ Chain(t, << Keyed(f, key) >> \o g, v, p + Len(m), tot)
      <3> DEFINE h == << f >> \o g
                 h2 == << Keyed(f, key) >> \o g
      <3>1. IsStack(h) /\ IsStack(h2)
        BY <2>11, PushFacts
      <3>2. Named(h, key) = h2
        BY <2>11, NamedPushed
      <3> HIDE DEF h, h2
      <3>3. AwaitsName(t, h, p, tot) <=> Clear(key, 1) /\ KeyChain(t, h, key, q, tot)
        BY <2>2, <3>1, StringReads
      <3> HIDE DEF q, q1, r
      <3>4. KeyChain(t, h, key, q, tot) <=> Awaits(t, h2, q1, tot)
        <4>1. KeyChain(t, h, key, q, tot) <=> Awaits(t, Named(h, key), q + 1, tot)
          BY <2>6, <2>7, <2>8, KeyHere
        <4> QED
          BY <3>2, <4>1 DEF q1
      <3>5. Awaits(t, h2, q1, tot) <=> Awaits(t, h2, r, tot)
        BY <2>9, AwaitsSkips
      <3>6. Awaits(t, h2, r, tot) <=> node \in readable /\ Chain(t, h2, v, r + Len(x), tot)
        BY <2>10, <3>1, Zenon DEF Reads
      <3>7. Awaits(t, h2, r, tot) <=> node \in readable /\ Chain(t, h2, v, p + Len(m), tot)
        BY <2>5, <3>6, Zenon
      <3> QED
        BY <3>3, <3>4, <3>5, <3>7, Zenon DEF h, h2
    <2>12. MemberReads(t, p, p + Len(m), key, node, readable, v)
      BY <2>11, Zenon DEF MemberReads
    <2> QED
      BY <2>3, <2>12
  <1> QED
    BY <1>3, <1>4, <1>5, Zenon

(* Members that are read one after the other, in an object.                *)
EntriesRead(t, n, items, at, keys, kids, readable, v) ==
    \A k \in 1 .. n :
        /\ ByteAt(t, at[k]) = Quote
        /\ MemberReads(t, at[k], at[k] + Len(items[k]), keys[k], kids[k], readable, v[k])

Entries(n, keys, v) == [k \in 1 .. n |-> Entry(keys[k], v[k])]

(* parse_object reads members in a row, in the same way.                   *)
LEMMA ObjectWalk ==
    ASSUME NEW t \in Text, NEW p, NEW n \in Nat, n >= 1, NEW items, NEW at, NEW q,
           Rows(t, p, n, items, OpenBrace, CloseBrace, at, q),
           NEW keys, NEW kids, NEW readable, NEW v,
           EntriesRead(t, n, items, at, keys, kids, readable, v),
           NEW g, IsStack(g), NEW tot
    PROVE  Awaits(t, g, p, tot)
             <=> (\A k \in 1 .. n : Clear(keys[k], 1) /\ kids[k] \in readable)
                 /\ Chain(t, g, ObjectValue(Entries(n, keys, v)), q + 1, tot)
  <1> DEFINE es == Entries(n, keys, v)
             F(k) == [fn |-> "object", kids |-> Prefix(es, k - 1)]
             K(k) == Keyed(F(k), keys[k])
             Fine(k) == Clear(keys[k], 1) /\ kids[k] \in readable
             End == Chain(t, g, ObjectValue(es), q + 1, tot)
             All(k) == \A j \in k .. n : Fine(j)
             Claim(k) == AwaitsName(t, << F(k) >> \o g, at[k], tot) <=> All(k) /\ End
             S == {d \in Nat : d < n => Claim(n - d)}
  <1>0. es = [k \in 1 .. n |-> es[k]] /\ \A k \in 1 .. n : es[k] = Entry(keys[k], v[k])
    BY DEF Entries
  <1> HIDE DEF es, Fine
  <1>1. /\ LeadsTo(t, p, OpenBrace, at[1])
        /\ \A k \in 1 .. n : Sits(t, at[k], items[k])
        /\ \A k \in 1 .. n - 1 : LeadsTo(t, at[k] + Len(items[k]), Comma, at[k + 1])
        /\ Gap(t, at[n] + Len(items[n]), q) /\ q \in 1 .. Len(t) /\ t[q] = CloseBrace
    BY Zenon DEF Rows
  <1>2. ASSUME NEW k \in 1 .. n
        PROVE  /\ F(k).fn = "object" /\ Tuple(F(k).kids)
               /\ Append(F(k).kids, es[k]) = Prefix(es, k) /\ F(k).kids = Prefix(es, k - 1)
               /\ IsStack(<< F(k) >> \o g)
    <2> DEFINE f == F(k)
    <2>1. k - 1 \in 0 .. n
      OBVIOUS
    <2>2. f.fn = "object" /\ f.kids = Prefix(es, k - 1)
      BY Zenon
    <2>3. Tuple(Prefix(es, k - 1)) /\ Append(Prefix(es, k - 1), es[k]) = Prefix(es, k)
      <3>1. /\ \A i \in 0 .. n : Tuple(Prefix(es, i))
            /\ \A i \in 1 .. n : Append(Prefix(es, i - 1), es[i]) = Prefix(es, i)
        BY <1>0, PrefixFacts, Zenon
      <3> QED
        BY <1>2, <2>1, <3>1, Zenon
    <2> HIDE DEF f
    <2>4. IsStack(<< f >> \o g)
      BY PushFacts
    <2> QED
      BY <2>2, <2>3, <2>4 DEF f
  <1>3. ASSUME NEW k \in 1 .. n
        PROVE  /\ AwaitsName(t, << F(k) >> \o g, at[k], tot)
                    <=> Fine(k) /\ Chain(t, << K(k) >> \o g, v[k], at[k] + Len(items[k]), tot)
               /\ K(k).fn = "object" /\ K(k).key = keys[k] /\ Tuple(K(k).kids)
               /\ Append(K(k).kids, Entry(K(k).key, v[k])) = Prefix(es, k)
    <2> DEFINE f == F(k)
               key == keys[k]
               h == Keyed(f, key)
    <2>1. MemberReads(t, at[k], at[k] + Len(items[k]), key, kids[k], readable, v[k])
      BY Zenon DEF EntriesRead
    <2>2. AwaitsName(t, << f >> \o g, at[k], tot)
            <=> Clear(key, 1) /\ kids[k] \in readable
                /\ Chain(t, << h >> \o g, v[k], at[k] + Len(items[k]), tot)
      <3> HIDE DEF f, h
      <3> QED
        BY <2>1, Zenon DEF MemberReads, h
    <2>3. /\ Tuple(f.kids) /\ Append(f.kids, es[k]) = Prefix(es, k)
      BY <1>2
    <2> HIDE DEF f
    <2>4. h.fn = "object" /\ h.key = key /\ h.kids = f.kids
      BY DEF Keyed
    <2>5. es[k] = Entry(key, v[k])
      BY <1>0
    <2> HIDE DEF key, h
    <2>6. Tuple(h.kids) /\ Append(h.kids, Entry(h.key, v[k])) = Prefix(es, k)
      BY <2>3, <2>4, <2>5, Zenon
    <2> QED
      BY <2>2, <2>4, <2>6, Zenon DEF f, key, h, Fine
  <1>4. Claim(n)
    <2> DEFINE f == F(n)
               f1 == K(n)
               e == at[n] + Len(items[n])
               u == v[n]
               f2 == [fn |-> "object", kids |-> es]
    <2>1. n \in 1 .. n
      OBVIOUS
    <2>2. /\ f1.fn = "object" /\ Tuple(f1.kids) /\ Append(f1.kids, Entry(f1.key, u)) = es
      <3>1. Prefix(es, n) = es
        BY <1>0, PrefixFacts, Zenon
      <3> QED
        BY <1>3, <2>1, <3>1
    <2>3. e \in 1 .. Len(t) + 1 /\ q \in e .. Len(t) + 1 /\ BlankSpan(t, e, q - 1)
      BY <1>1, Zenon DEF Gap
    <2>4. q \in 1 .. Len(t) + 1 /\ ByteAt(t, q) = CloseBrace
      <3>1. Len(t) \in Nat
        BY TextFacts
      <3> QED
        BY <1>1, <3>1 DEF ByteAt
    <2>5. CloseBrace \notin Spaces
      BY KindBytes
    <2>6. f2.kids = es
      OBVIOUS
    <2>7. AwaitsName(t, << f >> \o g, at[n], tot)
            <=> Fine(n) /\ Chain(t, << f1 >> \o g, u, e, tot)
      BY <1>3, <2>1
    <2> HIDE DEF f, f1, e, f2, u
    <2>8. Chain(t, << f1 >> \o g, u, e, tot) <=> Chain(t, << f1 >> \o g, u, q, tot)
      <3> DEFINE h == << f1 >> \o g
      <3>1. IsStack(h)
        BY PushFacts
      <3> HIDE DEF h
      <3>2. Chain(t, h, u, e, tot) <=> Chain(t, h, u, q, tot)
        BY <2>3, <3>1, ChainSkips
      <3> QED
        BY <3>2 DEF h
    <2>9. Chain(t, << f1 >> \o g, u, q, tot) <=> Chain(t, g, ObjectValue(f2.kids), q + 1, tot)
      <3>1. ByteAt(t, q) \notin Spaces /\ f2.kids = Append(f1.kids, Entry(f1.key, u))
        BY <2>2, <2>4, <2>5, <2>6
      <3> QED
        BY <2>2, <2>4, <3>1, MemberEnds
    <2>10. All(n) <=> Fine(n)
      OBVIOUS
    <2>11. Claim(n)
      BY <2>6, <2>7, <2>8, <2>9, <2>10, Zenon DEF f
    <2> QED
      BY <2>11
  <1>5. ASSUME NEW k \in 1 .. n - 1, Claim(k + 1)
        PROVE  Claim(k)
    <2> DEFINE f == F(k)
               f1 == K(k)
               f2 == F(k + 1)
               e == at[k] + Len(items[k])
               u == v[k]
               b == at[k + 1]
    <2>1. k \in 1 .. n /\ k + 1 \in 1 .. n /\ (k + 1) - 1 = k
      OBVIOUS
    <2>2. /\ f1.fn = "object" /\ Tuple(f1.kids)
          /\ Append(f1.kids, Entry(f1.key, u)) = Prefix(es, k) /\ f2.kids = Prefix(es, k)
      BY <1>2, <1>3, <2>1
    <2>3. LeadsTo(t, e, Comma, b)
      BY <1>1
    <2>4. AwaitsName(t, << f >> \o g, at[k], tot)
            <=> Fine(k) /\ Chain(t, << f1 >> \o g, u, e, tot)
      BY <1>3, <2>1
    <2>5. AwaitsName(t, << f2 >> \o g, b, tot) <=> All(k + 1) /\ End
      BY <1>5
    <2> HIDE DEF f, f1, f2, e, u, b
    <2>6. /\ e \in 1 .. Len(t) + 1 /\ ByteAt(t, e) = Comma /\ e + 1 \in 1 .. Len(t) + 1
          /\ b \in e + 1 .. Len(t) + 1 /\ BlankSpan(t, e + 1, b - 1)
      BY <2>3, LeadsFacts
    <2>7. ByteAt(t, e) \notin Spaces /\ f2.kids = Append(f1.kids, Entry(f1.key, u))
      BY <2>2, <2>6, KindBytes
    <2>8. Chain(t, << f1 >> \o g, u, e, tot) <=> AwaitsName(t, << f2 >> \o g, e + 1, tot)
      BY <2>2, <2>6, <2>7, MemberEnds
    <2>9. AwaitsName(t, << f2 >> \o g, e + 1, tot) <=> AwaitsName(t, << f2 >> \o g, b, tot)
      <3> DEFINE h == << f2 >> \o g
                 e1 == e + 1
      <3>1. e1 \in 1 .. Len(t) + 1 /\ b \in e1 .. Len(t) + 1 /\ BlankSpan(t, e1, b - 1)
        BY <2>6
      <3> HIDE DEF h, e1
      <3>2. AwaitsName(t, h, e1, tot) <=> AwaitsName(t, h, b, tot)
        BY <3>1, NameSkips
      <3> QED
        BY <3>2 DEF h, e1
    <2>10. All(k) <=> Fine(k) /\ All(k + 1)
      <3>1. /\ \A j \in k .. n : j = k \/ j \in k + 1 .. n
            /\ \A j \in k + 1 .. n : j \in k .. n
            /\ k \in k .. n
        OBVIOUS
      <3> QED
        BY <3>1, Zenon
    <2>11. Claim(k)
      BY <2>4, <2>5, <2>8, <2>9, <2>10, Zenon DEF f
    <2> QED
      BY <2>11
  <1> HIDE DEF Claim
  <1>6. Nat \subseteq S
    <2>1. 0 \in S
      BY <1>4
    <2>2. ASSUME NEW d \in Nat, d \in S
          PROVE  d + 1 \in S
      <3> SUFFICES ASSUME d + 1 < n
                   PROVE  Claim(n - (d + 1))
        OBVIOUS
      <3>1. n - (d + 1) \in 1 .. n - 1 /\ (n - (d + 1)) + 1 = n - d /\ d < n
        OBVIOUS
      <3>2. Claim(n - d)
        BY <2>2, <3>1
      <3> DEFINE k == n - (d + 1)
      <3>3. k \in 1 .. n - 1 /\ Claim(k + 1)
        BY <3>1, <3>2
      <3> HIDE DEF k
      <3>4. Claim(k)
        BY <1>5, <3>3
      <3> QED
        BY <3>4 DEF k
    <2> HIDE DEF S
    <2> QED
      BY <2>1, <2>2, Induct
  <1>7. Claim(1)
    <2>1. n - 1 \in Nat /\ n - 1 < n /\ n - (n - 1) = 1
      OBVIOUS
    <2>2. n - 1 \in S
      BY <1>6, <2>1
    <2> QED
      BY <2>1, <2>2
  <1>8. Awaits(t, g, p, tot) <=> AwaitsName(t, << F(1) >> \o g, at[1], tot)
    <2> DEFINE f == F(1)
               b == at[1]
    <2>1. 1 \in 1 .. n /\ 1 - 1 = 0
      OBVIOUS
    <2>2. f.kids = << >>
      <3>1. Prefix(es, 0) = << >>
        BY <1>0, PrefixFacts, Zenon
      <3> QED
        BY <1>2, <2>1, <3>1
    <2>3. LeadsTo(t, p, OpenBrace, b) /\ ByteAt(t, b) = Quote
      BY <1>1, <2>1 DEF EntriesRead
    <2> HIDE DEF f, b
    <2>4. /\ p \in 1 .. Len(t) /\ ByteAt(t, p) = OpenBrace /\ b \in p + 1 .. Len(t) + 1
          /\ BlankSpan(t, p + 1, b - 1)
      BY <2>3, LeadsFacts
    <2>5. ByteAt(t, b) \notin Spaces /\ ByteAt(t, b) # CloseBrace
      BY <2>3, KindBytes
    <2>6. Inks(t, p + 1, b)
      BY <2>4, <2>5 DEF Inks
    <2>7. Awaits(t, g, p, tot) <=> AwaitsName(t, << f >> \o g, b, tot)
      BY <2>2, <2>4, <2>5, <2>6, ObjectHere
    <2> QED
      BY <2>7 DEF f, b
  <1> QED
    BY <1>7, <1>8, Zenon DEF Claim, es, Fine

(* Behind every item comes a byte that ends a value.                       *)
LEMMA RowEnders ==
    ASSUME NEW t \in Text, NEW p, NEW n \in Nat, n >= 1, NEW items, NEW open,
           NEW close \in {CloseBracket, CloseBrace}, NEW at, NEW q,
           Rows(t, p, n, items, open, close, at, q)
    PROVE  \A k \in 1 .. n : ByteAt(t, at[k] + Len(items[k])) \in Enders
  <1>1. /\ \A k \in 1 .. n - 1 : LeadsTo(t, at[k] + Len(items[k]), Comma, at[k + 1])
        /\ Gap(t, at[n] + Len(items[n]), q) /\ q \in 1 .. Len(t) /\ t[q] = close
    BY Zenon DEF Rows
  <1>2. ASSUME NEW k \in 1 .. n - 1
        PROVE  ByteAt(t, at[k] + Len(items[k])) \in Enders
    <2> DEFINE e == at[k] + Len(items[k])
    <2>1. LeadsTo(t, e, Comma, at[k + 1])
      BY <1>1
    <2> HIDE DEF e
    <2>2. ByteAt(t, e) = Comma
      BY <2>1, LeadsFacts
    <2> QED
      BY <2>2 DEF e, Enders
  <1>3. ByteAt(t, at[n] + Len(items[n])) \in Enders
    <2> DEFINE e == at[n] + Len(items[n])
    <2>1. /\ e \in 1 .. Len(t) + 1 /\ q \in e .. Len(t) + 1 /\ BlankSpan(t, e, q - 1)
          /\ Len(t) \in Nat /\ q \in 1 .. Len(t) /\ t[q] = close
      BY <1>1, TextFacts DEF Gap
    <2> HIDE DEF e
    <2>2. CASE e = q
      BY <2>1, <2>2 DEF ByteAt, Enders, e
    <2>3. CASE e # q
      <3>1. e \in 1 .. Len(t) /\ e \in e .. q - 1
        BY <2>1, <2>3
      <3>2. t[e] \in Spaces
        BY <2>1, <3>1 DEF BlankSpan
      <3> QED
        BY <3>1, <3>2 DEF ByteAt, Enders, e
    <2> QED
      BY <2>2, <2>3
  <1>4. \A k \in 1 .. n : k \in 1 .. n - 1 \/ k = n
    OBVIOUS
  <1> QED
    BY <1>2, <1>3, <1>4, Zenon

(* Legible items in a row between brackets are legible as their array.     *)
LEMMA ArrayLegible ==
    ASSUME NEW n \in Nat, n >= 1, NEW items, NEW kids, NEW readable, NEW v,
           v = [k \in 1 .. n |-> v[k]],
           \A k \in 1 .. n : Legible(items[k], kids[k], readable, v[k]),
           NEW x, Rowed(x, n, items, OpenBracket, CloseBracket), NEW node, NEW all,
           node \in all <=> \A k \in 1 .. n : kids[k] \in readable
    PROVE  Legible(x, node, all, ArrayValue(v))
  <1>1. /\ x \in Text /\ Len(x) \in Nat /\ Len(x) >= 1 /\ x[1] = OpenBracket
        /\ \A t \in Text : \A p : Sits(t, p, x) =>
             \E at, q : /\ Rows(t, p, n, items, OpenBracket, CloseBracket, at, q)
                        /\ q + 1 = p + Len(x)
    BY Zenon DEF Rowed
  <1>2. x[1] \in Firsts
    BY <1>1 DEF Firsts
  <1>3. ASSUME NEW t \in Text, NEW p, Sits(t, p, x)
        PROVE  Reads(t, p, p + Len(x), node, all, ArrayValue(v))
    <2>1. PICK at, q : /\ Rows(t, p, n, items, OpenBracket, CloseBracket, at, q)
                       /\ q + 1 = p + Len(x)
      BY <1>1, <1>3, Zenon
    <2>2. \A k \in 1 .. n : ByteAt(t, at[k] + Len(items[k])) \in Enders
      BY <2>1, RowEnders
    <2>3. \A k \in 1 .. n : Sits(t, at[k], items[k])
      BY <2>1, Zenon DEF Rows
    <2>4. ItemsRead(t, n, items, at, kids, readable, v)
      BY <2>2, <2>3, Zenon DEF Legible, ItemsRead
    <2>5. ByteAt(t, at[1]) \in Firsts
      <3> DEFINE a == at[1]
                 y == items[1]
      <3>1. 1 \in 1 .. n
        OBVIOUS
      <3>2. y \in Text /\ Len(y) \in Nat /\ Len(y) >= 1 /\ y[1] \in Firsts /\ Sits(t, a, y)
        BY <2>3, <3>1, Zenon DEF Legible
      <3> HIDE DEF a, y
      <3>3. ByteAt(t, a + 1 - 1) = y[1] /\ a \in Nat
        <4>1. /\ \A k \in 1 .. Len(y) : ByteAt(t, a + k - 1) = y[k]
              /\ a \in Nat
          BY <3>2, SitsFacts
        <4>2. 1 \in 1 .. Len(y)
          BY <3>2
        <4> QED
          BY <4>1, <4>2
      <3>4. a + 1 - 1 = a
        BY <3>3
      <3> QED
        BY <3>2, <3>3, <3>4 DEF a
    <2>6. ASSUME NEW g, NEW tot, IsStack(g)
          PROVE  Awaits(t, g, p, tot)
                   <=> node \in all /\ Chain(t, g, ArrayValue(v), p + Len(x), tot)
      <3>1. Awaits(t, g, p, tot)
              <=> (\A k \in 1 .. n : kids[k] \in readable)
                  /\ Chain(t, g, ArrayValue(v), q + 1, tot)
        BY <2>1, <2>4, <2>5, <2>6, ArrayWalk
      <3> QED
        BY <2>1, <3>1, Zenon
    <2> QED
      BY <2>6, Zenon DEF Reads
  <1> QED
    BY <1>1, <1>2, <1>3, Zenon DEF Legible

(* Members with legible values in a row between braces are legible as      *)
(* their object.                                                           *)
LEMMA ObjectLegible ==
    ASSUME NEW n \in Nat, n >= 1, NEW items, NEW texts, NEW keys, NEW kids, NEW readable, NEW v,
           NEW colon \in {<< Colon >>, << Colon, 32 >>},
           \A k \in 1 .. n : /\ items[k] = Member(keys[k], colon, texts[k])
                             /\ keys[k] \in Strings
                             /\ Legible(texts[k], kids[k], readable, v[k]),
           NEW x, Rowed(x, n, items, OpenBrace, CloseBrace), NEW node, NEW all,
           node \in all <=> \A k \in 1 .. n : Clear(keys[k], 1) /\ kids[k] \in readable
    PROVE  Legible(x, node, all, ObjectValue(Entries(n, keys, v)))
  <1> DEFINE es == Entries(n, keys, v)
  <1>1. /\ x \in Text /\ Len(x) \in Nat /\ Len(x) >= 1 /\ x[1] = OpenBrace
        /\ \A t \in Text : \A p : Sits(t, p, x) =>
             \E at, q : /\ Rows(t, p, n, items, OpenBrace, CloseBrace, at, q)
                        /\ q + 1 = p + Len(x)
    BY Zenon DEF Rowed
  <1>2. x[1] \in Firsts
    BY <1>1 DEF Firsts
  <1>3. ASSUME NEW t \in Text, NEW p, Sits(t, p, x)
        PROVE  Reads(t, p, p + Len(x), node, all, ObjectValue(es))
    <2>1. PICK at, q : /\ Rows(t, p, n, items, OpenBrace, CloseBrace, at, q)
                       /\ q + 1 = p + Len(x)
      BY <1>1, <1>3, Zenon
    <2>2. \A k \in 1 .. n : ByteAt(t, at[k] + Len(items[k])) \in Enders
      BY <2>1, RowEnders
    <2>3. \A k \in 1 .. n : Sits(t, at[k], items[k])
      BY <2>1, Zenon DEF Rows
    <2>4. EntriesRead(t, n, items, at, keys, kids, readable, v)
      <3>1. ASSUME NEW k \in 1 .. n
            PROVE  /\ ByteAt(t, at[k]) = Quote
                   /\ MemberReads(t, at[k], at[k] + Len(items[k]), keys[k], kids[k],
                                  readable, v[k])
        <4> DEFINE a == at[k]
                   y == items[k]
                   key == keys[k]
                   u == texts[k]
                   kid == kids[k]
                   w == v[k]
        <4>1. /\ y = Member(key, colon, u) /\ key \in Strings /\ Legible(u, kid, readable, w)
              /\ Sits(t, a, y) /\ ByteAt(t, a + Len(y)) \in Enders
          BY <2>2, <2>3
        <4> HIDE DEF a, y, key, u, kid, w
        <4>2. ByteAt(t, a) = Quote /\ MemberReads(t, a, a + Len(y), key, kid, readable, w)
          <5>1. \A s1 \in Text : \A p1 :
                  /\ Sits(s1, p1, Member(key, colon, u))
                  /\ ByteAt(s1, p1 + Len(Member(key, colon, u))) \in Enders
                  => /\ ByteAt(s1, p1) = Quote
                     /\ MemberReads(s1, p1, p1 + Len(Member(key, colon, u)), key, kid, readable, w)
            BY <4>1, MemberRead, Zenon
          <5> QED
            BY <4>1, <5>1, Zenon
        <4> QED
          BY <4>2 DEF a, y, key, u, kid, w
      <3> QED
        BY <3>1, Zenon DEF EntriesRead
    <2>5. ASSUME NEW g, NEW tot, IsStack(g)
          PROVE  Awaits(t, g, p, tot)
                   <=> node \in all /\ Chain(t, g, ObjectValue(es), p + Len(x), tot)
      <3>1. Awaits(t, g, p, tot)
              <=> (\A k \in 1 .. n : Clear(keys[k], 1) /\ kids[k] \in readable)
                  /\ Chain(t, g, ObjectValue(es), q + 1, tot)
        BY <2>1, <2>4, <2>5, ObjectWalk
      <3> QED
        BY <2>1, <3>1, Zenon
    <2> QED
      BY <2>5, Zenon DEF Reads
  <1> HIDE DEF es
  <1>4. Legible(x, node, all, ObjectValue(es))
    BY <1>1, <1>2, <1>3, Zenon DEF Legible
  <1> QED
    BY <1>4 DEF es

(* The empty collections.                                                  *)
LEMMA EmptyLegible ==
    ASSUME NEW node, NEW all, node \in all
    PROVE  /\ Legible(<< OpenBracket, CloseBracket >>, node, all, ArrayValue(<< >>))
           /\ Legible(<< OpenBrace, CloseBrace >>, node, all, ObjectValue(<< >>))
  <1>1. ASSUME NEW o \in {OpenBracket, OpenBrace}, NEW c \in {CloseBracket, CloseBrace}
        PROVE  /\ << o, c >> \in Text /\ Len(<< o, c >>) = 2 /\ << o, c >>[1] \in Firsts
               /\ \A t \in Text : \A p : Sits(t, p, << o, c >>) =>
                    /\ p \in 1 .. Len(t) /\ ByteAt(t, p) = o /\ Inks(t, p + 1, p + 1)
                    /\ ByteAt(t, p + 1) = c /\ (p + 1) + 1 = p + 2
    <2> DEFINE x == << o, c >>
    <2>1. o \in 1 .. 255 /\ c \in 1 .. 255 /\ o \in Firsts /\ c \notin Spaces
      BY KindBytes DEF OpenBracket, OpenBrace, CloseBracket, CloseBrace, Firsts
    <2>2. x \in Text /\ Len(x) = 2 /\ x[1] = o /\ x[2] = c
      BY <2>1 DEF Text
    <2> HIDE DEF x
    <2>3. ASSUME NEW t \in Text, NEW p, Sits(t, p, x)
          PROVE  /\ p \in 1 .. Len(t) /\ ByteAt(t, p) = o /\ Inks(t, p + 1, p + 1)
                 /\ ByteAt(t, p + 1) = c /\ (p + 1) + 1 = p + 2
      <3>1. /\ p \in Nat /\ Len(t) \in Nat
            /\ \A k \in 1 .. Len(x) : p + k - 1 \in 1 .. Len(t) /\ ByteAt(t, p + k - 1) = x[k]
        BY <2>2, <2>3, SitsFacts
      <3>2. /\ 1 \in 1 .. Len(x) /\ 2 \in 1 .. Len(x) /\ p + 1 - 1 = p /\ p + 2 - 1 = p + 1
            /\ (p + 1) + 1 = p + 2
        BY <2>2, <3>1
      <3>3. /\ p \in 1 .. Len(t) /\ ByteAt(t, p) = x[1] /\ p + 1 \in 1 .. Len(t)
            /\ ByteAt(t, p + 1) = x[2]
        BY <3>1, <3>2
      <3>4. Inks(t, p + 1, p + 1)
        BY <2>1, <2>2, <3>1, <3>3 DEF Inks, BlankSpan
      <3> QED
        BY <2>2, <3>2, <3>3, <3>4
    <2> QED
      BY <2>1, <2>2, <2>3, Zenon DEF x
  <1> DEFINE fa == [fn |-> "array", kids |-> << >>]
  <1>2. fa.fn = "array" /\ fa.kids = << >>
    OBVIOUS
  <1> HIDE DEF fa
  <1>3. Legible(<< OpenBracket, CloseBracket >>, node, all, ArrayValue(<< >>))
    <2> DEFINE x == << OpenBracket, CloseBracket >>
    <2>1. /\ x \in Text /\ Len(x) = 2 /\ x[1] \in Firsts
          /\ \A t \in Text : \A p : Sits(t, p, x) =>
               /\ p \in 1 .. Len(t) /\ ByteAt(t, p) = OpenBracket /\ Inks(t, p + 1, p + 1)
               /\ ByteAt(t, p + 1) = CloseBracket /\ (p + 1) + 1 = p + 2
      BY <1>1
    <2> HIDE DEF x
    <2>2. ASSUME NEW t \in Text, NEW p, Sits(t, p, x)
          PROVE  Reads(t, p, p + Len(x), node, all, ArrayValue(<< >>))
      <3>1. ASSUME NEW g, NEW tot, IsStack(g)
            PROVE  Awaits(t, g, p, tot) <=> Chain(t, g, ArrayValue(<< >>), (p + 1) + 1, tot)
        BY <1>2, <2>1, <2>2, <3>1, ArrayHere
      <3>2. (p + 1) + 1 = p + Len(x)
        BY <2>1, <2>2
      <3> QED
        BY <3>1, <3>2, Zenon DEF Reads
    <2>3. Len(x) \in Nat /\ Len(x) >= 1
      BY <2>1
    <2>4. Legible(x, node, all, ArrayValue(<< >>))
      BY <2>1, <2>2, <2>3, Zenon DEF Legible
    <2> QED
      BY <2>4 DEF x
  <1>4. Legible(<< OpenBrace, CloseBrace >>, node, all, ObjectValue(<< >>))
    <2> DEFINE x == << OpenBrace, CloseBrace >>
    <2>1. /\ x \in Text /\ Len(x) = 2 /\ x[1] \in Firsts
          /\ \A t \in Text : \A p : Sits(t, p, x) =>
               /\ p \in 1 .. Len(t) /\ ByteAt(t, p) = OpenBrace /\ Inks(t, p + 1, p + 1)
               /\ ByteAt(t, p + 1) = CloseBrace /\ (p + 1) + 1 = p + 2
      BY <1>1
    <2> HIDE DEF x
    <2>2. ASSUME NEW t \in Text, NEW p, Sits(t, p, x)
          PROVE  Reads(t, p, p + Len(x), node, all, ObjectValue(<< >>))
      <3>1. ASSUME NEW g, NEW tot, IsStack(g)
            PROVE  Awaits(t, g, p, tot) <=> Chain(t, g, ObjectValue(<< >>), (p + 1) + 1, tot)
        BY <1>2, <2>1, <2>2, <3>1, ObjectHere
      <3>2. (p + 1) + 1 = p + Len(x)
        BY <2>1, <2>2
      <3> QED
        BY <3>1, <3>2, Zenon DEF Reads
    <2>3. Len(x) \in Nat /\ Len(x) >= 1
      BY <2>1
    <2>4. Legible(x, node, all, ObjectValue(<< >>))
      BY <2>1, <2>2, <2>3, Zenon DEF Legible
    <2> QED
      BY <2>4 DEF x
  <1> QED
    BY <1>3, <1>4

(* Items between brackets as the two emitters write them: on one line, and *)
(* each on a line of its own.                                              *)
Bracketed(open, items, close, level) ==
    {<< open >> \o Separated(items, << Comma >>) \o << close >>,
     Block(<< open >>, items, << close >>, level)}

(* Both ways of writing items put them in a row.                           *)
LEMMA BracketedRowed ==
    ASSUME NEW n \in Nat, n >= 1, NEW items \in [1 .. n -> Text], NEW open \in 1 .. 255,
           NEW close \in 1 .. 255, NEW level \in Nat, NEW x \in Bracketed(open, items, close, level)
    PROVE  Rowed(x, n, items, open, close)
  <1> DEFINE x1 == << open >> \o Separated(items, << Comma >>) \o << close >>
             x2 == << open >> \o Line
                      \o Separated([k \in 1 .. n |-> Indent(level + 1) \o items[k]],
                                   << Comma >> \o Line)
                      \o Line \o Indent(level) \o << close >>
  <1>1. Rowed(x1, n, items, open, close)
    BY RowOne, Zenon
  <1>2. Rowed(x2, n, items, open, close)
    BY RowBlock, Zenon
  <1>3. Block(<< open >>, items, << close >>, level) = x2
    <2>1. DOMAIN items = 1 .. n /\ items # << >>
      OBVIOUS
    <2> QED
      BY <2>1, Zenon DEF Block
  <1> HIDE DEF x1, x2
  <1>4. x = x1 \/ x = x2
    BY <1>3, Zenon DEF Bracketed, x1
  <1> QED
    BY <1>1, <1>2, <1>4, Zenon

(* Both ways of writing write nothing between the brackets of an empty     *)
(* collection.                                                             *)
LEMMA BracketedNothing ==
    ASSUME NEW open \in 1 .. 255, NEW close \in 1 .. 255, NEW level,
           NEW x \in Bracketed(open, << >>, close, level)
    PROVE  x = << open, close >>
  <1> DEFINE ss == [k \in DOMAIN << >> |->
                      IF k < Len(<< >>) THEN << >>[k] \o << Comma >> ELSE << >>[k]]
             o == << open >>
             c == << close >>
  <1>1. ss = << >>
    OBVIOUS
  <1>2. Separated(<< >>, << Comma >>) = FlattenSeq(ss)
    BY Zenon DEF Separated
  <1> HIDE DEF ss
  <1>3. Separated(<< >>, << Comma >>) = << >>
    BY <1>1, <1>2, FlattenNothing, Zenon
  <1>4. o \o << >> = o /\ o \o c = << open, close >>
    <2>1. o \in Seq(1 .. 255) /\ c \in Seq(1 .. 255)
      OBVIOUS
    <2>2. o \o << >> = o
      BY <2>1
    <2>3. o \o c = << open, close >>
      <3> DEFINE u == << open, close >>
                 w == o \o c
      <3>1. u \in Seq(1 .. 255) /\ Len(u) = 2 /\ u[1] = open /\ u[2] = close
        OBVIOUS
      <3>2. w \in Seq(1 .. 255) /\ Len(w) = 2 /\ w[1] = open /\ w[2] = close
        BY <2>1
      <3> HIDE DEF u, w
      <3>3. u = w
        BY <3>1, <3>2, SeqEqual
      <3> QED
        BY <3>3 DEF u, w
    <2> QED
      BY <2>2, <2>3
  <1> HIDE DEF o, c
  <1>5. Block(o, << >>, c, level) = o \o c
    BY Zenon DEF Block
  <1>6. x = o \o Separated(<< >>, << Comma >>) \o c \/ x = Block(o, << >>, c, level)
    BY Zenon DEF Bracketed, o, c
  <1> QED
    BY <1>3, <1>4, <1>5, <1>6, Zenon

(* What is known of the children of a collection.                          *)
AllLegible(nodes, emitted, readable, as) ==
    \A node \in nodes : Legible(emitted[node], node, readable, as[node])

(* An array is legible, written in either way, if its elements are.        *)
LEMMA ArrayNode ==
    ASSUME NEW nodes, NEW emitted, NEW readable, NEW as,
           AllLegible(nodes, emitted, readable, as),
           NEW node \in Arrays(nodes), NEW all, node \in all <=> IsReadable(node, readable),
           NEW level \in Nat,
           NEW x \in {emit_node(node, emitted), emit_node_indented(node, emitted, level)}
    PROVE  Legible(x, node, all, IsReadAs(node, as))
  <1> DEFINE kids == node.kids
             n == Len(kids)
             items == [k \in DOMAIN kids |-> emitted[kids[k]]]
             v == [k \in DOMAIN kids |-> as[kids[k]]]
  <1>1. node.tag = "ARRAY" /\ kids \in Seq(nodes)
    BY DEF Arrays
  <1>2. n \in Nat /\ DOMAIN kids = 1 .. n /\ \A k \in 1 .. n : kids[k] \in nodes
    <2> HIDE DEF kids
    <2> QED
      BY <1>1
  <1>3. x \in Bracketed(OpenBracket, items, CloseBracket, level)
    <2>1. emit_node(node, emitted) = emit_array(node, emitted)
      BY <1>1, Zenon DEF emit_node
    <2>2. emit_node_indented(node, emitted, level) = emit_array_indented(node, emitted, level)
      BY <1>1, Zenon DEF emit_node_indented
    <2> QED
      BY <2>1, <2>2, Zenon DEF Bracketed, emit_array, emit_array_indented
  <1>4. IsReadAs(node, as) = ArrayValue(v)
    <2>1. node.tag # "NUMBER"
      BY <1>1
    <2> QED
      BY <1>1, <2>1 DEF IsReadAs, ArrayValue
  <1>5. node \in all <=> \A k \in 1 .. n : kids[k] \in readable
    <2>1. node.tag # "STRING" /\ node.tag # "OBJECT"
      BY <1>1
    <2> QED
      BY <1>1, <1>2, <2>1, Zenon DEF IsReadable
  <1>6. OpenBracket \in 1 .. 255 /\ CloseBracket \in 1 .. 255
    BY DEF OpenBracket, CloseBracket
  <1>7. CASE n = 0
    <2>1. items = << >> /\ v = << >>
      BY <1>2, <1>7
    <2>2. x = << OpenBracket, CloseBracket >>
      BY <1>3, <1>6, <2>1, BracketedNothing
    <2>3. node \in all
      BY <1>5, <1>7
    <2> HIDE DEF items, v
    <2> QED
      BY <1>4, <2>1, <2>2, <2>3, EmptyLegible
  <1>8. CASE n # 0
    <2>1. n >= 1
      BY <1>2, <1>8
    <2>2. v = [k \in 1 .. n |-> v[k]]
      BY <1>2
    <2>3. \A k \in 1 .. n : Legible(items[k], kids[k], readable, v[k])
      <3>1. \A k \in 1 .. n : items[k] = emitted[kids[k]] /\ v[k] = as[kids[k]]
        BY <1>2
      <3> HIDE DEF items, v, n, kids
      <3> QED
        BY <1>2, <3>1, Zenon DEF AllLegible
    <2>4. items \in [1 .. n -> Text]
      <3>1. \A k \in 1 .. n : items[k] \in Text
        <4> HIDE DEF items, n, v, kids
        <4> QED
          BY <2>3, Zenon DEF Legible
      <3> QED
        BY <1>2, <3>1
    <2> HIDE DEF items, v, n, kids
    <2>5. Rowed(x, n, items, OpenBracket, CloseBracket)
      BY <1>2, <1>3, <1>6, <2>1, <2>4, BracketedRowed
    <2>6. Legible(x, node, all, ArrayValue(v))
      BY <1>2, <1>5, <2>1, <2>2, <2>3, <2>5, ArrayLegible
    <2> QED
      BY <1>4, <2>6
  <1> QED
    BY <1>7, <1>8

(* An object is legible, written in either way, if its values are.         *)
LEMMA ObjectNode ==
    ASSUME NEW nodes, NEW emitted, NEW readable, NEW as,
           AllLegible(nodes, emitted, readable, as),
           NEW node \in Objects(nodes), NEW all, node \in all <=> IsReadable(node, readable),
           NEW level \in Nat,
           NEW x \in {emit_node(node, emitted), emit_node_indented(node, emitted, level)}
    PROVE  Legible(x, node, all, IsReadAs(node, as))
  <1> DEFINE kids == node.kids
             n == Len(kids)
             keys == [k \in 1 .. n |-> kids[k].key]
             vals == [k \in 1 .. n |-> kids[k].value]
             texts == [k \in 1 .. n |-> emitted[kids[k].value]]
             v == [k \in 1 .. n |-> as[kids[k].value]]
             es == Entries(n, keys, v)
             items(colon) == [k \in DOMAIN kids |->
                                emit_string(kids[k].key) \o colon \o emitted[kids[k].value]]
  <1>1. node.tag = "OBJECT" /\ kids \in Seq([key : Strings, value : nodes])
    BY DEF Objects
  <1>2. n \in Nat /\ DOMAIN kids = 1 .. n
        /\ \A k \in 1 .. n : kids[k].key \in Strings /\ kids[k].value \in nodes
    <2> HIDE DEF kids
    <2> DEFINE E == [key : Strings, value : nodes]
    <2>1. kids \in Seq(E) /\ \A e \in E : e.key \in Strings /\ e.value \in nodes
      BY <1>1
    <2> HIDE DEF E
    <2>2. n \in Nat /\ DOMAIN kids = 1 .. n /\ \A k \in 1 .. n : kids[k] \in E
      BY <2>1
    <2> QED
      BY <2>1, <2>2
  <1>3. PICK colon \in {<< Colon >>, << Colon, 32 >>} :
          x \in Bracketed(OpenBrace, items(colon), CloseBrace, level)
    <2>1. emit_node(node, emitted) = emit_object(node, emitted)
      <3>1. node.tag # "ARRAY"
        BY <1>1
      <3> QED
        BY <1>1, <3>1, Zenon DEF emit_node
    <2>2. emit_node_indented(node, emitted, level) = emit_object_indented(node, emitted, level)
      <3>1. node.tag # "ARRAY"
        BY <1>1
      <3> QED
        BY <1>1, <3>1, Zenon DEF emit_node_indented
    <2>3. emit_object(node, emitted) \in Bracketed(OpenBrace, items(<< Colon >>), CloseBrace, level)
      BY Zenon DEF Bracketed, emit_object
    <2>4. emit_object_indented(node, emitted, level)
            \in Bracketed(OpenBrace, items(<< Colon, 32 >>), CloseBrace, level)
      BY Zenon DEF Bracketed, emit_object_indented
    <2> QED
      BY <2>1, <2>2, <2>3, <2>4, Zenon
  <1>4. IsReadAs(node, as) = ObjectValue(es)
    <2>1. node.tag # "NUMBER" /\ node.tag # "ARRAY"
      BY <1>1
    <2>2. IsReadAs(node, as) =
            [tag |-> "OBJECT",
             kids |-> [k \in DOMAIN kids |->
                         [key |-> kids[k].key, value |-> as[kids[k].value]]]]
      BY <1>1, <2>1, Zenon DEF IsReadAs
    <2>3. es = [k \in DOMAIN kids |-> [key |-> kids[k].key, value |-> as[kids[k].value]]]
      BY <1>2 DEF Entry, Entries
    <2> HIDE DEF es
    <2> QED
      BY <2>2, <2>3, Zenon DEF ObjectValue
  <1>5. node \in all <=> \A k \in 1 .. n : Clear(keys[k], 1) /\ vals[k] \in readable
    <2>1. node.tag # "STRING" /\ node.tag # "ARRAY"
      BY <1>1
    <2>2. \A k \in 1 .. n : keys[k] = kids[k].key /\ vals[k] = kids[k].value
      OBVIOUS
    <2>3. IsReadable(node, readable)
            <=> \A k \in 1 .. n : UnitSeparator \notin ToSet(kids[k].key)
                                  /\ kids[k].value \in readable
      BY <1>1, <1>2, <2>1, Zenon DEF IsReadable
    <2>4. \A k \in 1 .. n : Clear(kids[k].key, 1) <=> UnitSeparator \notin ToSet(kids[k].key)
      BY <1>2, ClearIs
    <2> HIDE DEF keys, vals, n, kids
    <2> QED
      BY <2>2, <2>3, <2>4, Zenon
  <1>6. OpenBrace \in 1 .. 255 /\ CloseBrace \in 1 .. 255
    BY DEF OpenBrace, CloseBrace
  <1>7. CASE n = 0
    <2>1. items(colon) = << >> /\ es = << >>
      BY <1>2, <1>7 DEF Entries
    <2>2. x = << OpenBrace, CloseBrace >>
      BY <1>3, <1>6, <2>1, BracketedNothing
    <2>3. node \in all
      BY <1>5, <1>7
    <2> HIDE DEF es
    <2> QED
      BY <1>4, <2>1, <2>2, <2>3, EmptyLegible
  <1>8. CASE n # 0
    <2> DEFINE its == items(colon)
    <2>1. n >= 1
      BY <1>2, <1>8
    <2>2. \A k \in 1 .. n : /\ its[k] = Member(keys[k], colon, texts[k])
                            /\ keys[k] \in Strings
                            /\ Legible(texts[k], vals[k], readable, v[k])
      <3>1. \A k \in 1 .. n : /\ keys[k] = kids[k].key /\ vals[k] = kids[k].value
                              /\ texts[k] = emitted[kids[k].value] /\ v[k] = as[kids[k].value]
                              /\ its[k] = emit_string(kids[k].key) \o colon \o emitted[kids[k].value]
        BY <1>2
      <3> HIDE DEF its, keys, vals, texts, v, n, kids
      <3>2. \A k \in 1 .. n : its[k] = Member(keys[k], colon, texts[k])
        BY <3>1, Zenon DEF Member
      <3>3. \A k \in 1 .. n : Legible(texts[k], vals[k], readable, v[k])
        BY <1>2, <3>1, Zenon DEF AllLegible
      <3> QED
        BY <1>2, <3>1, <3>2, <3>3, Zenon
    <2>3. its \in [1 .. n -> Text]
      <3>1. \A k \in 1 .. n : its[k] \in Text
        <4> HIDE DEF its, keys, vals, texts, v, n, kids
        <4>1. ASSUME NEW k \in 1 .. n
              PROVE  its[k] \in Text
          <5> DEFINE key == keys[k]
                     u == texts[k]
                     w == vals[k]
                     r == v[k]
          <5>1. its[k] = Member(key, colon, u) /\ key \in Strings /\ Legible(u, w, readable, r)
            BY <2>2
          <5> HIDE DEF key, u, w, r
          <5>2. Member(key, colon, u) \in Text
            BY <5>1, MemberRead, Zenon
          <5> QED
            BY <5>1, <5>2
        <4> QED
          BY <4>1
      <3> QED
        BY <1>2, <3>1
    <2>4. x \in Bracketed(OpenBrace, its, CloseBrace, level)
      BY <1>3
    <2> HIDE DEF its, keys, vals, texts, v, n, kids
    <2>5. Rowed(x, n, its, OpenBrace, CloseBrace)
      BY <1>2, <1>6, <2>1, <2>3, <2>4, BracketedRowed
    <2>6. Legible(x, node, all, ObjectValue(es))
      BY <1>2, <1>5, <2>1, <2>2, <2>5, ObjectLegible
    <2> QED
      BY <1>4, <2>6
  <1> QED
    BY <1>7, <1>8

(* What the functions say of one node of a depth.                          *)
LEMMA NodeSaid ==
    ASSUME NEW d \in Nat, NEW node \in Nodes[d]
    PROVE  /\ emit_value[d][node] = emit_node(node, Below(emit_value, d))
           /\ emit_value_indented[d][node]
                = emit_node_indented(node, Below(emit_value_indented, d), Depth - d)
           /\ node \in Readable[d] <=> IsReadable(node, Below(Readable, d))
           /\ ReadAs[d][node] = IsReadAs(node, Below(ReadAs, d))
  <1>1. emit_value[d][node] = emit_node(node, Below(emit_value, d))
    BY EmitIs, Zenon
  <1>2. emit_value_indented[d][node]
          = emit_node_indented(node, Below(emit_value_indented, d), Depth - d)
    BY IndentedIs, Zenon
  <1>3. node \in Readable[d] <=> IsReadable(node, Below(Readable, d))
    BY ReadableIs, Zenon
  <1>4. ReadAs[d][node] = IsReadAs(node, Below(ReadAs, d))
    BY ReadAsIs, Zenon
  <1> QED
    BY <1>1, <1>2, <1>3, <1>4

(* The nodes that are no collections, at any depth.                        *)
LEMMA LeafSaid ==
    ASSUME NEW d \in Nat, NEW node \in Nodes[d], node \in Leaves
    PROVE  /\ Legible(emit_value[d][node], node, Readable[d], ReadAs[d][node])
           /\ Legible(emit_value_indented[d][node], node, Readable[d], ReadAs[d][node])
  <1> DEFINE R == Readable[d]
             low == Below(Readable, d)
             as == Below(ReadAs, d)
             em == Below(emit_value, d)
             ind == Below(emit_value_indented, d)
             level == Depth - d
  <1>1. /\ emit_value[d][node] = emit_node(node, em)
        /\ emit_value_indented[d][node] = emit_node_indented(node, ind, level)
        /\ node \in R <=> IsReadable(node, low)
        /\ ReadAs[d][node] = IsReadAs(node, as)
    BY NodeSaid
  <1> HIDE DEF R, low, as, em, ind, level
  <1>2. Legible(emit_leaf(node), node, R, IsReadAs(node, as)) /\ node.tag \notin {"ARRAY", "OBJECT"}
    BY <1>1, LeafLegible
  <1>3. node.tag # "ARRAY" /\ node.tag # "OBJECT"
    BY <1>2
  <1>4. emit_node(node, em) = emit_leaf(node) /\ emit_node_indented(node, ind, level) = emit_leaf(node)
    BY <1>3, Zenon DEF emit_node, emit_node_indented
  <1> QED
    BY <1>1, <1>2, <1>4, Zenon DEF R

(* Every tree of a depth is legible as it is written, on one line and,     *)
(* down to Depth, on several.                                              *)
Flat(d) == AllLegible(Nodes[d], emit_value[d], Readable[d], ReadAs[d])
Broad(d) == AllLegible(Nodes[d], emit_value_indented[d], Readable[d], ReadAs[d])

(* By induction on the depth.                                              *)
LEMMA TreesLegible ==
    \A d \in 0 .. Depth : Flat(d) /\ Broad(d)
  <1>0. Depth \in Nat
    BY TreesAssumption
  <1> DEFINE S == {d \in Nat : d <= Depth => Flat(d) /\ Broad(d)}
  <1>1. 0 \in S
    <2>1. 0 \in Nat /\ Nodes[0] = Leaves
      BY NodesAre
    <2>2. ASSUME NEW node \in Nodes[0]
          PROVE  /\ Legible(emit_value[0][node], node, Readable[0], ReadAs[0][node])
                 /\ Legible(emit_value_indented[0][node], node, Readable[0], ReadAs[0][node])
      BY <2>1, LeafSaid
    <2>3. Flat(0) /\ Broad(0)
      BY <2>2, Zenon DEF Flat, Broad, AllLegible
    <2> QED
      BY <2>3
  <1>2. ASSUME NEW d \in Nat, d \in S
        PROVE  d + 1 \in S
    <2> SUFFICES ASSUME d + 1 <= Depth
                 PROVE  Flat(d + 1) /\ Broad(d + 1)
      OBVIOUS
    <2> DEFINE e == d + 1
               level == Depth - e
    <2>1. e \in Nat /\ e # 0 /\ e - 1 = d /\ level \in Nat /\ d <= Depth
      BY <1>0
    <2>2. Flat(d) /\ Broad(d)
      BY <1>2, <2>1
    <2>3. Nodes[e] = Leaves \cup Arrays(Nodes[d]) \cup Objects(Nodes[d])
      BY NodesAre
    <2>4. /\ Below(emit_value, e) = emit_value[d]
          /\ Below(emit_value_indented, e) = emit_value_indented[d]
          /\ Below(Readable, e) = Readable[d] /\ Below(ReadAs, e) = ReadAs[d]
      BY <2>1 DEF Below
    <2> HIDE DEF e
    <2>5. ASSUME NEW node \in Nodes[e]
          PROVE  /\ Legible(emit_value[e][node], node, Readable[e], ReadAs[e][node])
                 /\ Legible(emit_value_indented[e][node], node, Readable[e], ReadAs[e][node])
      <3> DEFINE nodes == Nodes[d]
                 em == emit_value[d]
                 ind == emit_value_indented[d]
                 R == Readable[d]
                 as == ReadAs[d]
                 all == Readable[e]
                 x == emit_node(node, em)
                 y == emit_node_indented(node, ind, level)
      <3>1. /\ emit_value[e][node] = x
            /\ emit_value_indented[e][node] = y
            /\ node \in all <=> IsReadable(node, R)
            /\ ReadAs[e][node] = IsReadAs(node, as)
        <4>1. /\ emit_value[e][node] = emit_node(node, Below(emit_value, e))
              /\ emit_value_indented[e][node]
                   = emit_node_indented(node, Below(emit_value_indented, e), level)
              /\ node \in Readable[e] <=> IsReadable(node, Below(Readable, e))
              /\ ReadAs[e][node] = IsReadAs(node, Below(ReadAs, e))
          BY <2>1, NodeSaid
        <4> QED
          BY <2>4, <4>1, Zenon
      <3>2. AllLegible(nodes, em, R, as) /\ AllLegible(nodes, ind, R, as)
        BY <2>2 DEF Flat, Broad
      <3>3. node \in Leaves \/ node \in Arrays(nodes) \/ node \in Objects(nodes)
        BY <2>3
      <3>4. CASE node \in Leaves
        BY <2>1, <3>4, LeafSaid
      <3> HIDE DEF nodes, em, ind, R, as, all, level
      <3>5. CASE node \in Arrays(nodes)
        <4>1. Legible(x, node, all, IsReadAs(node, as))
          <5>1. x \in {emit_node(node, em), emit_node_indented(node, em, level)}
            OBVIOUS
          <5> HIDE DEF x
          <5> QED
            BY <2>1, <3>1, <3>2, <3>5, <5>1, ArrayNode
        <4>2. Legible(y, node, all, IsReadAs(node, as))
          <5>1. y \in {emit_node(node, ind), emit_node_indented(node, ind, level)}
            OBVIOUS
          <5> HIDE DEF y
          <5> QED
            BY <2>1, <3>1, <3>2, <3>5, <5>1, ArrayNode
        <4> QED
          BY <3>1, <4>1, <4>2, Zenon DEF all
      <3>6. CASE node \in Objects(nodes)
        <4>1. Legible(x, node, all, IsReadAs(node, as))
          <5>1. x \in {emit_node(node, em), emit_node_indented(node, em, level)}
            OBVIOUS
          <5> HIDE DEF x
          <5> QED
            BY <2>1, <3>1, <3>2, <3>6, <5>1, ObjectNode
        <4>2. Legible(y, node, all, IsReadAs(node, as))
          <5>1. y \in {emit_node(node, ind), emit_node_indented(node, ind, level)}
            OBVIOUS
          <5> HIDE DEF y
          <5> QED
            BY <2>1, <3>1, <3>2, <3>6, <5>1, ObjectNode
        <4> QED
          BY <3>1, <4>1, <4>2, Zenon DEF all
      <3> QED
        BY <3>3, <3>4, <3>5, <3>6
    <2>6. Flat(e) /\ Broad(e)
      BY <2>5, Zenon DEF Flat, Broad, AllLegible
    <2> QED
      BY <2>6 DEF e
  <1>3. Nat \subseteq S
    <2> HIDE DEF S
    <2> QED
      BY <1>1, <1>2, Induct
  <1> QED
    BY <1>0, <1>3

(* The grammar gives what was written one meaning, the tree it was written *)
(* from with null for inf and nan, or none when a string of the tree holds *)
(* U+001F; whatever the tree, on one line or indented.                     *)
THEOREM WrittenMeans ==
    \A w \in Written :
        /\ w.text \in Text
        /\ Means[<< "value", w.text >>]
             = IF w.tree \in Readable[Depth] THEN {ReadAs[Depth][w.tree]} ELSE {}
  <1>1. Depth \in 0 .. Depth /\ Depth \in Nat /\ Trees \subseteq Nodes[Depth]
    BY TreesAssumption
  <1>2. Flat(Depth) /\ Broad(Depth)
    BY <1>1, TreesLegible
  <1> SUFFICES ASSUME NEW w \in Written
               PROVE  /\ w.text \in Text
                      /\ Means[<< "value", w.text >>]
                           = IF w.tree \in Readable[Depth] THEN {ReadAs[Depth][w.tree]} ELSE {}
    OBVIOUS
  <1> DEFINE t == w.text
             tree == w.tree
             R == Readable[Depth]
             v == ReadAs[Depth][tree]
             means == Means[<< "value", t >>]
  <1>3. tree \in Trees /\ (t = emit_value[Depth][tree] \/ t = emit_value_indented[Depth][tree])
    BY DEF Written
  <1>4. Legible(t, tree, R, v)
    <2>1. tree \in Nodes[Depth]
      BY <1>1, <1>3
    <2> HIDE DEF t, tree
    <2>2. /\ Legible(emit_value[Depth][tree], tree, R, v)
          /\ Legible(emit_value_indented[Depth][tree], tree, R, v)
      BY <1>2, <2>1, Zenon DEF Flat, Broad, AllLegible
    <2> QED
      BY <1>3, <2>2, Zenon
  <1> HIDE DEF t, tree, R, v
  <1>5. t \in Text /\ Len(t) \in Nat /\ t = Piece(t, 1, Len(t))
    BY <1>4, Whole DEF Legible
  <1> DEFINE e == 1 + Len(t)
  <1>6. Reads(t, 1, e, tree, R, v)
    <2>1. Sits(t, 1, t)
      BY <1>5 DEF Sits
    <2>2. ByteAt(t, e) \in Enders
      BY <1>5 DEF ByteAt, Enders
    <2> QED
      BY <1>4, <1>5, <2>1, <2>2, Zenon DEF Legible
  <1>7. \A tot : tot \in means <=> tree \in R /\ tot = v
    <2> TAKE tot
    <2>1. tot \in means <=> Awaits(t, << >>, 1, tot)
      <3>1. MeansValue(t, 1, Len(t), tot) <=> Awaits(t, << >>, 1, tot)
        BY <1>5, AwaitsWhole
      <3> QED
        BY <1>5, <3>1, Zenon DEF MeansValue
    <2>2. IsStack(<< >>)
      <3>1. << >> \in Seq({})
        OBVIOUS
      <3> QED
        BY <3>1 DEF IsStack
    <2>3. Awaits(t, << >>, 1, tot) <=> tree \in R /\ Chain(t, << >>, v, e, tot)
      BY <1>6, <2>2, Zenon DEF Reads
    <2>4. Chain(t, << >>, v, e, tot) <=> v = tot /\ BlankSpan(t, e, Len(t))
      BY ChainEmpty
    <2>5. BlankSpan(t, e, Len(t))
      BY <1>5 DEF BlankSpan
    <2> QED
      BY <2>1, <2>3, <2>4, <2>5
  <1> HIDE DEF means
  <1>8. means = IF tree \in R THEN {v} ELSE {}
    BY <1>7
  <1> QED
    BY <1>5, <1>8 DEF t, tree, R, v, means

(* json_decode reads what json_stringify wrote as the tree it was written  *)
(* from, with null for inf and nan, and refuses it when a string of the    *)
(* tree holds U+001F; whatever the trees.                                  *)
THEOREM RoundTripsCorrect == Spec => []RoundTrips
  <1>1. DecodesJson => RoundTrips
    <2> SUFFICES ASSUME DecodesJson, Ended, out, NEW w \in Written, w.text = text
                 PROVE  IF w.tree \in Readable[Depth]
                        THEN pc = "accepted" /\ value = ReadAs[Depth][w.tree]
                        ELSE pc = "refused"
      BY DEF RoundTrips
    <2> DEFINE means == Means[<< "value", text >>]
               v == ReadAs[Depth][w.tree]
               R == Readable[Depth]
    <2>1. means = IF w.tree \in R THEN {v} ELSE {}
      BY WrittenMeans
    <2>2. (pc = "accepted" <=> means # {}) /\ (pc = "accepted" => means = {value})
      BY DEF DecodesJson
    <2>3. pc \in {"accepted", "refused"}
      BY DEF Ended
    <2> HIDE DEF means, v, R
    <2> QED
      BY <2>1, <2>2, <2>3 DEF v, R
  <1> QED
    BY <1>1, DecodesCorrect, PTL
=============================================================================
