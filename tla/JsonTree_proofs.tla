-------------------------- MODULE JsonTree_proofs --------------------------
(***************************************************************************)
(* The trees of json.c stay well linked, for any number of nodes.  The     *)
(* pointers alone are no inductive invariant: that a node without a first  *)
(* child is nobody's parent needs the lists they stand for.  So the        *)
(* invariant says that there are sequences of children which the pointers  *)
(* represent, and every step is shown to change these sequences.           *)
(*                                                                         *)
(* The same sequences are the state of JsonForest: once the nodes are      *)
(* known to be finitely many, the subtree json_delete works on is the      *)
(* least set of nodes that is closed under the pointers, and each step of  *)
(* JsonTree is shown to change the forest as JsonForest says.              *)
(***************************************************************************)
EXTENDS JsonTree, SequencesExt, FiniteSetTheorems, NaturalsInduction,
        WellFoundedInduction, SequenceTheorems, TLAPS

-----------------------------------------------------------------------------
(* Induction on the numbers: a property of numbers is given as the set of  *)
(* those that have it.                                                     *)

(* A set of numbers has a least one.                                       *)
LEMMA Least ==
    ASSUME NEW T \in SUBSET Nat, T # {}
    PROVE  \E m \in T : \A n \in T : m <= n
  <1> DEFINE R == OpToRel(<, Nat)
  <1>1. IsWellFoundedOn(R, Nat)
    BY NatLessThanWellFounded
  <1>2. \A x, y \in Nat : y < x => << y, x >> \in R
    BY DEF OpToRel
  <1> HIDE DEF R
  <1>3. \E x \in T : \A y \in T : << y, x >> \notin R
    BY <1>1, WFMin
  <1>4. PICK m \in T : \A y \in T : << y, m >> \notin R
    BY <1>3
  <1>5. \A n \in T : ~(n < m)
    BY <1>2, <1>4, Zenon
  <1> QED
    BY <1>5, T \subseteq Nat, m \in T, SMT

(* What holds of 0 and of each successor holds of all of them.             *)
LEMMA Induct ==
    ASSUME NEW S, 0 \in S, \A n \in Nat : n \in S => n + 1 \in S
    PROVE  Nat \subseteq S
  <1> SUFFICES ASSUME NEW k \in Nat, k \notin S
               PROVE  FALSE
    OBVIOUS
  <1>1. PICK m \in Nat \ S : \A n \in Nat \ S : m <= n
    BY Least
  <1>2. m # 0 /\ m - 1 \in Nat /\ m - 1 \in S
    BY <1>1
  <1>3. (m - 1) + 1 \in S
    BY <1>2
  <1> QED
    BY <1>1, <1>3

(* A function may be defined by its value at 0 and a step.                 *)
Recurs(V, base, n, step, f) ==
    /\ f \in [0 .. n -> V] /\ f[0] = base
    /\ \A i \in 1 .. n : f[i] = step[<< i, f[i - 1] >>]

LEMMA Recursion ==
    ASSUME NEW V, NEW base \in V, NEW n \in Nat, NEW step \in [(1 .. n) \X V -> V]
    PROVE  \E f : Recurs(V, base, n, step, f)
  <1> DEFINE Upto(k) == \E f : Recurs(V, base, k, step, f)
             S == {k \in Nat : k <= n => Upto(k)}
  <1>1. 0 \in S
    <2> DEFINE g == [i \in 0 .. 0 |-> base]
    <2>1. g \in [0 .. 0 -> V] /\ g[0] = base
      OBVIOUS
    <2>2. \A i \in 1 .. 0 : g[i] = step[<< i, g[i - 1] >>]
      OBVIOUS
    <2> HIDE DEF g
    <2> QED
      BY <2>1, <2>2 DEF Recurs
  <1>2. ASSUME NEW k \in Nat, k \in S
        PROVE  k + 1 \in S
    <2> SUFFICES ASSUME k + 1 <= n
                 PROVE  Upto(k + 1)
      OBVIOUS
    <2>1. PICK f : Recurs(V, base, k, step, f)
      BY <1>2
    <2> DEFINE v == step[<< k + 1, f[k] >>]
               g == [i \in 0 .. k + 1 |-> IF i = k + 1 THEN v ELSE f[i]]
    <2>2. v \in V
      <3>1. << k + 1, f[k] >> \in (1 .. n) \X V
        BY <2>1 DEF Recurs
      <3> QED
        BY <3>1
    <2> HIDE DEF v
    <2>3. g \in [0 .. k + 1 -> V] /\ g[0] = f[0]
      BY <2>1, <2>2 DEF Recurs
    <2>4. \A i \in 1 .. k + 1 : g[i] = step[<< i, g[i - 1] >>]
      <3>1. ASSUME NEW i \in 1 .. k
            PROVE  g[i] = step[<< i, g[i - 1] >>]
        <4>1. g[i] = f[i] /\ g[i - 1] = f[i - 1]
          OBVIOUS
        <4> QED
          BY <2>1, <4>1 DEF Recurs
      <3>2. g[k + 1] = v /\ g[(k + 1) - 1] = f[k]
        OBVIOUS
      <3> HIDE DEF g
      <3> QED
        BY <3>1, <3>2 DEF v
    <2> HIDE DEF g
    <2> QED
      BY <2>1, <2>3, <2>4 DEF Recurs
  <1>3. Nat \subseteq S
    BY <1>1, <1>2, Induct
  <1> QED
    BY <1>3

(* Two sequences put together, given by their values.                      *)
LEMMA ConcatIs ==
    ASSUME NEW S, NEW s \in Seq(S), NEW t \in Seq(S), NEW u \in Seq(S),
           Len(u) = Len(s) + Len(t),
           \A i \in 1 .. Len(s) : u[i] = s[i],
           \A i \in 1 .. Len(t) : u[Len(s) + i] = t[i]
    PROVE  s \o t = u
  <1>1. /\ s \o t \in Seq(S) /\ Len(s \o t) = Len(s) + Len(t)
        /\ Len(s) \in Nat /\ Len(t) \in Nat
        /\ \A i \in 1 .. Len(s) + Len(t) :
             (s \o t)[i] = IF i <= Len(s) THEN s[i] ELSE t[i - Len(s)]
    BY ConcatProperties, LenProperties
  <1>2. ASSUME NEW i \in 1 .. Len(s) + Len(t)
        PROVE  (s \o t)[i] = u[i]
    <2>1. CASE i \in 1 .. Len(s)
      BY <1>1, <2>1
    <2>2. CASE i - Len(s) \in 1 .. Len(t)
      BY <1>1, <2>2
    <2> QED
      BY <1>1, <2>1, <2>2
  <1> QED
    BY <1>1, <1>2, SeqEqual

(* A function on 1 .. n is a sequence.                                     *)
LEMMA FunctionIsSeq ==
    ASSUME NEW V, NEW n \in Nat, NEW s \in [1 .. n -> V]
    PROVE  s \in Seq(V) /\ Len(s) = n
  <1>1. s \in Seq(V)
    BY SeqDef
  <1> QED
    BY <1>1, LenProperties

-----------------------------------------------------------------------------
JsonNode ==
    [tag : Tags, key : Key \cup {NULL}, parent : Node \cup {NULL},
     prev : Node \cup {NULL}, next : Node \cup {NULL},
     head : Node \cup {NULL}, tail : Node \cup {NULL}]

Heap(h) ==
    /\ DOMAIN h \subseteq Node
    /\ h \in [DOMAIN h -> JsonNode]

(* kids[p] is the sequence of the children of p. *)
Listed(h, kids) ==
    /\ kids \in [DOMAIN h -> Seq(DOMAIN h)]
    /\ \A p \in DOMAIN h : \A i, j \in 1 .. Len(kids[p]) :
          kids[p][i] = kids[p][j] => i = j

Ends(h, kids) ==
    \A p \in DOMAIN h :
        /\ Len(kids[p]) = 0 => h[p].head = NULL /\ h[p].tail = NULL
        /\ Len(kids[p]) > 0 => /\ h[p].tag \in Containers
                               /\ h[p].head = kids[p][1]
                               /\ h[p].tail = kids[p][Len(kids[p])]

Before(s, i) == IF i = 1 THEN NULL ELSE s[i - 1]
After(s, i) == IF i = Len(s) THEN NULL ELSE s[i + 1]

Linked(h, kids) ==
    \A p \in DOMAIN h : \A i \in 1 .. Len(kids[p]) :
        /\ kids[p][i] # p
        /\ h[kids[p][i]].parent = p
        /\ h[kids[p][i]].prev = Before(kids[p], i)
        /\ h[kids[p][i]].next = After(kids[p], i)
        /\ h[kids[p][i]].key = NULL <=> h[p].tag = "ARRAY"

Placed(h, kids) ==
    \A n \in DOMAIN h :
        /\ h[n].parent = NULL => /\ h[n].prev = NULL /\ h[n].next = NULL
                                 /\ h[n].key = NULL
        /\ h[n].parent # NULL =>
             /\ h[n].parent \in DOMAIN h
             /\ \E i \in 1 .. Len(kids[h[n].parent]) : kids[h[n].parent][i] = n

Represents(h, kids) ==
    /\ Heap(h) /\ Listed(h, kids) /\ Ends(h, kids)
    /\ Linked(h, kids) /\ Placed(h, kids)

Trees(h) == \E kids : Represents(h, kids)

(* The nodes json_delete is at are out of every tree, and what it deletes  *)
(* next is the first child that is left.                                   *)
Calls(h, s) ==
    /\ s \in Seq([node : DOMAIN h, child : DOMAIN h \cup {NULL}])
    /\ \A k \in 1 .. Len(s) : /\ h[s[k].node].parent = NULL
                              /\ s[k].child = h[s[k].node].head
    /\ \A j, k \in 1 .. Len(s) : s[j].node = s[k].node => j = k

Inv == Trees(heap) /\ Calls(heap, stack)

-----------------------------------------------------------------------------
(* What the invariant says is what the properties ask. *)
LEMMA RepresentedLinks ==
    ASSUME NEW kids, Represents(heap, kids)
    PROVE  LinksAgree
<1> USE NullAssumption DEF Represents
<1> SUFFICES ASSUME NEW n \in DOMAIN heap
             PROVE  /\ heap[n].parent # n
                    /\ heap[n].next # NULL =>
                         /\ heap[heap[n].next].prev = n
                         /\ heap[heap[n].next].parent = heap[n].parent
                    /\ heap[n].prev # NULL =>
                         /\ heap[heap[n].prev].next = n
                         /\ heap[heap[n].prev].parent = heap[n].parent
                    /\ IF heap[n].parent = NULL
                       THEN heap[n].prev = NULL /\ heap[n].next = NULL /\ heap[n].key = NULL
                       ELSE /\ heap[heap[n].parent].tag \in Containers
                            /\ heap[n].key = NULL <=> heap[heap[n].parent].tag = "ARRAY"
                            /\ heap[n].prev = NULL <=> heap[heap[n].parent].head = n
                            /\ heap[n].next = NULL <=> heap[heap[n].parent].tail = n
                    /\ heap[n].head # NULL => heap[heap[n].head].parent = n
                    /\ heap[n].tail # NULL => heap[heap[n].tail].parent = n
                    /\ heap[n].head = NULL <=> heap[n].tail = NULL
  BY DEF LinksAgree
<1>0. n # NULL
  BY DEF Heap, JsonNode
<1>1. /\ heap[n].head # NULL => heap[heap[n].head].parent = n
      /\ heap[n].tail # NULL => heap[heap[n].tail].parent = n
      /\ heap[n].head = NULL <=> heap[n].tail = NULL
  <2>1. Len(kids[n]) \in Nat /\ \A i \in 1 .. Len(kids[n]) : kids[n][i] \in Node
    BY DEF Listed, Heap, JsonNode
  <2>2. CASE Len(kids[n]) = 0
    BY <2>2 DEF Ends
  <2>3. CASE Len(kids[n]) > 0
    BY <2>1, <2>3 DEF Ends, Linked
  <2> QED
    BY <2>1, <2>2, <2>3
<1>2. CASE heap[n].parent = NULL
  BY <1>0, <1>1, <1>2 DEF Placed
<1>3. CASE heap[n].parent # NULL
  <2> DEFINE p == heap[n].parent
             s == kids[p]
  <2>1. PICK i \in 1 .. Len(s) : s[i] = n
    BY <1>3 DEF Placed
  <2>2. p \in DOMAIN heap /\ Len(s) \in Nat /\ Len(s) > 0
    BY <1>3, <2>1 DEF Placed, Listed
  <2>3. \A j \in 1 .. Len(s) : s[j] \in DOMAIN heap /\ s[j] # NULL
    BY <2>2 DEF Listed, Heap, JsonNode
  <2>4. /\ p # n /\ heap[n].prev = Before(s, i) /\ heap[n].next = After(s, i)
        /\ heap[n].key = NULL <=> heap[p].tag = "ARRAY"
    BY <2>1, <2>2 DEF Linked
  <2>5. /\ heap[p].tag \in Containers
        /\ heap[p].head = s[1] /\ heap[p].tail = s[Len(s)]
    BY <2>2 DEF Ends
  <2>6. \A j \in 1 .. Len(s) : s[j] = n => j = i
    BY <2>1, <2>2 DEF Listed
  <2>7. heap[n].next # NULL => heap[heap[n].next].prev = n /\ heap[heap[n].next].parent = p
    <3>1. ASSUME heap[n].next # NULL
          PROVE  i + 1 \in 1 .. Len(s) /\ heap[n].next = s[i + 1]
      BY <2>2, <2>4, <3>1 DEF After
    <3> QED
      BY <2>1, <2>2, <3>1 DEF Linked, Before
  <2>8. heap[n].prev # NULL => heap[heap[n].prev].next = n /\ heap[heap[n].prev].parent = p
    <3>1. ASSUME heap[n].prev # NULL
          PROVE  i - 1 \in 1 .. Len(s) /\ heap[n].prev = s[i - 1] /\ i - 1 # Len(s)
      BY <2>2, <2>4, <3>1 DEF Before
    <3> QED
      BY <2>1, <2>2, <3>1 DEF Linked, After
  <2>9. heap[n].prev = NULL <=> heap[p].head = n
    BY <2>1, <2>2, <2>3, <2>4, <2>5, <2>6 DEF Before
  <2>10. heap[n].next = NULL <=> heap[p].tail = n
    BY <2>1, <2>2, <2>3, <2>4, <2>5, <2>6 DEF After
  <2> QED
    BY <1>1, <1>3, <2>4, <2>5, <2>7, <2>8, <2>9, <2>10
<1> QED
  BY <1>2, <1>3

LEMMA RepresentedTypes ==
    ASSUME NEW kids, Represents(heap, kids), Calls(heap, stack)
    PROVE  TypeOK
<1> USE NullAssumption DEF Represents
<1>1. ASSUME NEW n \in DOMAIN heap
      PROVE  /\ heap[n].parent \in Pointer
             /\ heap[n].prev \in Pointer /\ heap[n].next \in Pointer
             /\ heap[n].head \in Pointer /\ heap[n].tail \in Pointer
  <2>1. Len(kids[n]) \in Nat /\ \A i \in 1 .. Len(kids[n]) : kids[n][i] \in DOMAIN heap
    BY DEF Listed
  <2>2. heap[n].head \in Pointer /\ heap[n].tail \in Pointer
    BY <2>1 DEF Ends, Pointer
  <2>3. heap[n].parent \in Pointer
    BY DEF Placed, Pointer
  <2>4. heap[n].prev \in Pointer /\ heap[n].next \in Pointer
    <3>1. CASE heap[n].parent = NULL
      BY <3>1 DEF Placed, Pointer
    <3>2. CASE heap[n].parent # NULL
      <4> DEFINE p == heap[n].parent
                 s == kids[p]
      <4>1. PICK i \in 1 .. Len(s) : s[i] = n
        BY <3>2 DEF Placed
      <4>2. p \in DOMAIN heap /\ Len(s) \in Nat /\ \A j \in 1 .. Len(s) : s[j] \in DOMAIN heap
        BY <3>2 DEF Placed, Listed
      <4>3. heap[n].prev = Before(s, i) /\ heap[n].next = After(s, i)
        BY <4>1, <4>2 DEF Linked
      <4> QED
        BY <4>2, <4>3 DEF Before, After, Pointer
    <3> QED
      BY <3>1, <3>2
  <2> QED
    BY <2>2, <2>3, <2>4
<1>2. heap \in [DOMAIN heap ->
                  [tag : Tags, key : Key \cup {NULL}, parent : Pointer,
                   prev : Pointer, next : Pointer, head : Pointer, tail : Pointer]]
  BY <1>1 DEF Heap, JsonNode
<1>3. stack \in Seq([node : DOMAIN heap, child : Pointer])
  BY DEF Calls, Pointer
<1> QED
  BY <1>2, <1>3 DEF TypeOK, Heap, JsonNode

-----------------------------------------------------------------------------
(* What the functions of json.c do to the fields of every node. *)
Fields(h, g) == DOMAIN g = DOMAIN h /\ Heap(g)

AppendedTo(h, g, p, c, key) ==
    /\ Fields(h, g)
    /\ \A n \in DOMAIN h :
        /\ g[n].tag = h[n].tag
        /\ g[n].key = IF n = c THEN key ELSE h[n].key
        /\ g[n].parent = IF n = c THEN p ELSE h[n].parent
        /\ g[n].prev = IF n = c THEN h[p].tail ELSE h[n].prev
        /\ g[n].next = IF n = c THEN NULL
                       ELSE IF n = h[p].tail THEN c ELSE h[n].next
        /\ g[n].head = IF n = p /\ h[p].tail = NULL THEN c ELSE h[n].head
        /\ g[n].tail = IF n = p THEN c ELSE h[n].tail

PrependedTo(h, g, p, c, key) ==
    /\ Fields(h, g)
    /\ \A n \in DOMAIN h :
        /\ g[n].tag = h[n].tag
        /\ g[n].key = IF n = c THEN key ELSE h[n].key
        /\ g[n].parent = IF n = c THEN p ELSE h[n].parent
        /\ g[n].next = IF n = c THEN h[p].head ELSE h[n].next
        /\ g[n].prev = IF n = c THEN NULL
                       ELSE IF n = h[p].head THEN c ELSE h[n].prev
        /\ g[n].tail = IF n = p /\ h[p].head = NULL THEN c ELSE h[n].tail
        /\ g[n].head = IF n = p THEN c ELSE h[n].head

RemovedFrom(h, g, p, c) ==
    /\ Fields(h, g)
    /\ \A n \in DOMAIN h :
        /\ g[n].tag = h[n].tag
        /\ g[n].key = IF n = c THEN NULL ELSE h[n].key
        /\ g[n].parent = IF n = c THEN NULL ELSE h[n].parent
        /\ g[n].prev = IF n = c THEN NULL
                       ELSE IF n = h[c].next THEN h[c].prev ELSE h[n].prev
        /\ g[n].next = IF n = c THEN NULL
                       ELSE IF n = h[c].prev THEN h[c].next ELSE h[n].next
        /\ g[n].head = IF n = p /\ h[c].prev = NULL THEN h[c].next ELSE h[n].head
        /\ g[n].tail = IF n = p /\ h[c].next = NULL THEN h[c].prev ELSE h[n].tail

LEMMA AppendEffect ==
    ASSUME NEW h, Heap(h), NEW p \in DOMAIN h, NEW c \in DOMAIN h, p # c,
           NEW key \in Key \cup {NULL},
           h[p].tail # c, h[p].tail \in DOMAIN h \cup {NULL}
    PROVE  AppendedTo(h, append_node([h EXCEPT ![c].key = key], p, c), p, c, key)
<1> USE NullAssumption
<1> DEFINE last == h[p].tail
           k == [h EXCEPT ![c].key = key]
           placed == [k EXCEPT ![c].parent = p, ![c].prev = k[p].tail, ![c].next = NULL,
                               ![p].tail = c]
           g == append_node(k, p, c)
<1> SUFFICES AppendedTo(h, g, p, c, key)
  OBVIOUS
<1>1. /\ Heap(k) /\ DOMAIN k = DOMAIN h
      /\ \A n \in DOMAIN h \ {c} : k[n] = h[n]
      /\ k[c] = [h[c] EXCEPT !.key = key]
  BY DEF Heap, JsonNode
<1>2. /\ placed \in [DOMAIN h -> JsonNode]
      /\ \A n \in DOMAIN h \ {c, p} : placed[n] = h[n]
      /\ placed[p] = [h[p] EXCEPT !.tail = c]
      /\ placed[c] = [k[c] EXCEPT !.parent = p, !.prev = last, !.next = NULL]
  BY <1>1 DEF Heap, JsonNode
<1>3. g = IF last # NULL THEN [placed EXCEPT ![last].next = c]
                        ELSE [placed EXCEPT ![p].head = c]
  BY <1>1 DEF append_node, Heap, JsonNode
<1> HIDE DEF placed, g, k
<1>4. /\ DOMAIN placed = DOMAIN h /\ DOMAIN h \subseteq Node
      /\ h[c] \in JsonNode /\ h[p] \in JsonNode
      /\ \A n \in DOMAIN h : h[n] \in JsonNode
      /\ \A n \in DOMAIN h : placed[n] \in JsonNode
  BY <1>2 DEF Heap
<1>5. /\ k[c].tag = h[c].tag /\ k[c].key = key
      /\ k[c].head = h[c].head /\ k[c].tail = h[c].tail
      /\ k[c] \in JsonNode
  BY <1>1, <1>4 DEF Heap, JsonNode
<1>6. /\ placed[c].tag = h[c].tag /\ placed[c].key = key
      /\ placed[c].parent = p
      /\ placed[c].prev = last /\ placed[c].next = NULL
      /\ placed[c].head = h[c].head /\ placed[c].tail = h[c].tail
  BY <1>2, <1>5 DEF JsonNode
<1>7. /\ placed[p].tag = h[p].tag /\ placed[p].key = h[p].key
      /\ placed[p].parent = h[p].parent
      /\ placed[p].prev = h[p].prev /\ placed[p].next = h[p].next
      /\ placed[p].head = h[p].head /\ placed[p].tail = c
  BY <1>2, <1>4 DEF JsonNode
<1>8. CASE last = NULL
  <2>1. /\ g \in [DOMAIN h -> JsonNode]
        /\ \A n \in DOMAIN h \ {p} : g[n] = placed[n]
        /\ g[p] = [placed[p] EXCEPT !.head = c]
    <3>1. g = [placed EXCEPT ![p] = [placed[p] EXCEPT !.head = c]]
      BY <1>3, <1>8
    <3>2. [placed[p] EXCEPT !.head = c] \in JsonNode
      BY <1>4 DEF JsonNode
    <3> QED
      BY <1>2, <3>1, <3>2
  <2>2. Fields(h, g)
    BY <1>4, <2>1 DEF Fields, Heap
  <2>3. /\ g[p].head = c /\ g[p].tail = c
        /\ g[p].tag = h[p].tag /\ g[p].key = h[p].key /\ g[p].parent = h[p].parent
        /\ g[p].prev = h[p].prev /\ g[p].next = h[p].next
    BY <1>4, <1>7, <2>1 DEF JsonNode
  <2>4. c \in DOMAIN h \ {p} /\ NULL \notin DOMAIN h
    BY <1>4
  <2>5. ASSUME NEW n \in DOMAIN h
        PROVE  /\ g[n].tag = h[n].tag
               /\ g[n].key = IF n = c THEN key ELSE h[n].key
               /\ g[n].parent = IF n = c THEN p ELSE h[n].parent
               /\ g[n].prev = IF n = c THEN last ELSE h[n].prev
               /\ g[n].next = IF n = c THEN NULL ELSE h[n].next
               /\ g[n].head = IF n = p THEN c ELSE h[n].head
               /\ g[n].tail = IF n = p THEN c ELSE h[n].tail
    <3>1. CASE n = c
      BY <1>6, <2>1, <2>4, <3>1
    <3>2. CASE n = p
      BY <2>3, <2>4, <3>2
    <3>3. CASE n # c /\ n # p
      <4>1. g[n] = h[n]
        BY <1>2, <2>1, <3>3
      <4> QED
        BY <3>3, <4>1
    <3> QED
      BY <3>1, <3>2, <3>3
  <2> QED
    BY <1>8, <2>2, <2>4, <2>5 DEF AppendedTo
<1>9. CASE last # NULL
  <2>1. /\ g \in [DOMAIN h -> JsonNode]
        /\ \A n \in DOMAIN h \ {last} : g[n] = placed[n]
        /\ g[last] = [placed[last] EXCEPT !.next = c]
    <3>1. g = [placed EXCEPT ![last] = [placed[last] EXCEPT !.next = c]]
      BY <1>3, <1>9
    <3>2. last \in DOMAIN h /\ placed[last] \in JsonNode
      BY <1>4, <1>9
    <3>3. [placed[last] EXCEPT !.next = c] \in JsonNode
      BY <1>4, <3>2 DEF JsonNode
    <3> QED
      BY <1>2, <3>1, <3>2, <3>3
  <2>2. Fields(h, g)
    BY <1>4, <2>1 DEF Fields, Heap
  <2>3. last \in DOMAIN h /\ last # c
    BY <1>9
  <2>4. /\ g[last].tag = placed[last].tag /\ g[last].key = placed[last].key
        /\ g[last].parent = placed[last].parent
        /\ g[last].next = c /\ g[last].prev = placed[last].prev
        /\ g[last].head = placed[last].head
        /\ g[last].tail = placed[last].tail
    BY <1>4, <2>1, <2>3 DEF JsonNode
  <2>5. ASSUME NEW n \in DOMAIN h
        PROVE  /\ placed[n].tag = h[n].tag
               /\ placed[n].key = IF n = c THEN key ELSE h[n].key
               /\ placed[n].parent = IF n = c THEN p ELSE h[n].parent
               /\ placed[n].prev = IF n = c THEN last ELSE h[n].prev
               /\ placed[n].next = IF n = c THEN NULL ELSE h[n].next
               /\ placed[n].head = h[n].head
               /\ placed[n].tail = IF n = p THEN c ELSE h[n].tail
    <3>1. CASE n = c
      BY <1>6, <3>1
    <3>2. CASE n = p
      BY <1>7, <3>2
    <3>3. CASE n # c /\ n # p
      BY <1>2, <3>3
    <3> QED
      BY <3>1, <3>2, <3>3
  <2>6. ASSUME NEW n \in DOMAIN h
        PROVE  /\ g[n].tag = placed[n].tag /\ g[n].key = placed[n].key
               /\ g[n].parent = placed[n].parent
               /\ g[n].next = IF n = last THEN c ELSE placed[n].next
               /\ g[n].prev = placed[n].prev
               /\ g[n].head = placed[n].head /\ g[n].tail = placed[n].tail
    <3>1. CASE n = last
      BY <2>4, <3>1
    <3>2. CASE n # last
      BY <2>1, <3>2
    <3> QED
      BY <3>1, <3>2
  <2> QED
    BY <1>9, <2>2, <2>3, <2>5, <2>6 DEF AppendedTo
<1> QED
  BY <1>8, <1>9

LEMMA PrependEffect ==
    ASSUME NEW h, Heap(h), NEW p \in DOMAIN h, NEW c \in DOMAIN h, p # c,
           NEW key \in Key \cup {NULL},
           h[p].head # c, h[p].head \in DOMAIN h \cup {NULL}
    PROVE  PrependedTo(h, prepend_node([h EXCEPT ![c].key = key], p, c), p, c, key)
<1> USE NullAssumption
<1> DEFINE first == h[p].head
           k == [h EXCEPT ![c].key = key]
           placed == [k EXCEPT ![c].parent = p, ![c].prev = NULL, ![c].next = k[p].head,
                               ![p].head = c]
           g == prepend_node(k, p, c)
<1> SUFFICES PrependedTo(h, g, p, c, key)
  OBVIOUS
<1>1. /\ Heap(k) /\ DOMAIN k = DOMAIN h
      /\ \A n \in DOMAIN h \ {c} : k[n] = h[n]
      /\ k[c] = [h[c] EXCEPT !.key = key]
  BY DEF Heap, JsonNode
<1>2. /\ placed \in [DOMAIN h -> JsonNode]
      /\ \A n \in DOMAIN h \ {c, p} : placed[n] = h[n]
      /\ placed[p] = [h[p] EXCEPT !.head = c]
      /\ placed[c] = [k[c] EXCEPT !.parent = p, !.prev = NULL, !.next = first]
  BY <1>1 DEF Heap, JsonNode
<1>3. g = IF first # NULL THEN [placed EXCEPT ![first].prev = c]
                        ELSE [placed EXCEPT ![p].tail = c]
  BY <1>1 DEF prepend_node, Heap, JsonNode
<1> HIDE DEF placed, g, k
<1>4. /\ DOMAIN placed = DOMAIN h /\ DOMAIN h \subseteq Node
      /\ h[c] \in JsonNode /\ h[p] \in JsonNode
      /\ \A n \in DOMAIN h : h[n] \in JsonNode
      /\ \A n \in DOMAIN h : placed[n] \in JsonNode
  BY <1>2 DEF Heap
<1>5. /\ k[c].tag = h[c].tag /\ k[c].key = key
      /\ k[c].head = h[c].head /\ k[c].tail = h[c].tail
      /\ k[c] \in JsonNode
  BY <1>1, <1>4 DEF Heap, JsonNode
<1>6. /\ placed[c].tag = h[c].tag /\ placed[c].key = key
      /\ placed[c].parent = p
      /\ placed[c].prev = NULL /\ placed[c].next = first
      /\ placed[c].head = h[c].head /\ placed[c].tail = h[c].tail
  BY <1>2, <1>5 DEF JsonNode
<1>7. /\ placed[p].tag = h[p].tag /\ placed[p].key = h[p].key
      /\ placed[p].parent = h[p].parent
      /\ placed[p].prev = h[p].prev /\ placed[p].next = h[p].next
      /\ placed[p].tail = h[p].tail /\ placed[p].head = c
  BY <1>2, <1>4 DEF JsonNode
<1>8. CASE first = NULL
  <2>1. /\ g \in [DOMAIN h -> JsonNode]
        /\ \A n \in DOMAIN h \ {p} : g[n] = placed[n]
        /\ g[p] = [placed[p] EXCEPT !.tail = c]
    <3>1. g = [placed EXCEPT ![p] = [placed[p] EXCEPT !.tail = c]]
      BY <1>3, <1>8
    <3>2. [placed[p] EXCEPT !.tail = c] \in JsonNode
      BY <1>4 DEF JsonNode
    <3> QED
      BY <1>2, <3>1, <3>2
  <2>2. Fields(h, g)
    BY <1>4, <2>1 DEF Fields, Heap
  <2>3. /\ g[p].tail = c /\ g[p].head = c
        /\ g[p].tag = h[p].tag /\ g[p].key = h[p].key /\ g[p].parent = h[p].parent
        /\ g[p].prev = h[p].prev /\ g[p].next = h[p].next
    BY <1>4, <1>7, <2>1 DEF JsonNode
  <2>4. c \in DOMAIN h \ {p} /\ NULL \notin DOMAIN h
    BY <1>4
  <2>5. ASSUME NEW n \in DOMAIN h
        PROVE  /\ g[n].tag = h[n].tag
               /\ g[n].key = IF n = c THEN key ELSE h[n].key
               /\ g[n].parent = IF n = c THEN p ELSE h[n].parent
               /\ g[n].prev = IF n = c THEN NULL ELSE h[n].prev
               /\ g[n].next = IF n = c THEN first ELSE h[n].next
               /\ g[n].tail = IF n = p THEN c ELSE h[n].tail
               /\ g[n].head = IF n = p THEN c ELSE h[n].head
    <3>1. CASE n = c
      BY <1>6, <2>1, <2>4, <3>1
    <3>2. CASE n = p
      BY <2>3, <2>4, <3>2
    <3>3. CASE n # c /\ n # p
      <4>1. g[n] = h[n]
        BY <1>2, <2>1, <3>3
      <4> QED
        BY <3>3, <4>1
    <3> QED
      BY <3>1, <3>2, <3>3
  <2> QED
    BY <1>8, <2>2, <2>4, <2>5 DEF PrependedTo
<1>9. CASE first # NULL
  <2>1. /\ g \in [DOMAIN h -> JsonNode]
        /\ \A n \in DOMAIN h \ {first} : g[n] = placed[n]
        /\ g[first] = [placed[first] EXCEPT !.prev = c]
    <3>1. g = [placed EXCEPT ![first] = [placed[first] EXCEPT !.prev = c]]
      BY <1>3, <1>9
    <3>2. first \in DOMAIN h /\ placed[first] \in JsonNode
      BY <1>4, <1>9
    <3>3. [placed[first] EXCEPT !.prev = c] \in JsonNode
      BY <1>4, <3>2 DEF JsonNode
    <3> QED
      BY <1>2, <3>1, <3>2, <3>3
  <2>2. Fields(h, g)
    BY <1>4, <2>1 DEF Fields, Heap
  <2>3. first \in DOMAIN h /\ first # c
    BY <1>9
  <2>4. /\ g[first].tag = placed[first].tag /\ g[first].key = placed[first].key
        /\ g[first].parent = placed[first].parent
        /\ g[first].prev = c /\ g[first].next = placed[first].next
        /\ g[first].head = placed[first].head
        /\ g[first].tail = placed[first].tail
    BY <1>4, <2>1, <2>3 DEF JsonNode
  <2>5. ASSUME NEW n \in DOMAIN h
        PROVE  /\ placed[n].tag = h[n].tag
               /\ placed[n].key = IF n = c THEN key ELSE h[n].key
               /\ placed[n].parent = IF n = c THEN p ELSE h[n].parent
               /\ placed[n].prev = IF n = c THEN NULL ELSE h[n].prev
               /\ placed[n].next = IF n = c THEN first ELSE h[n].next
               /\ placed[n].tail = h[n].tail
               /\ placed[n].head = IF n = p THEN c ELSE h[n].head
    <3>1. CASE n = c
      BY <1>6, <3>1
    <3>2. CASE n = p
      BY <1>7, <3>2
    <3>3. CASE n # c /\ n # p
      BY <1>2, <3>3
    <3> QED
      BY <3>1, <3>2, <3>3
  <2>6. ASSUME NEW n \in DOMAIN h
        PROVE  /\ g[n].tag = placed[n].tag /\ g[n].key = placed[n].key
               /\ g[n].parent = placed[n].parent
               /\ g[n].prev = IF n = first THEN c ELSE placed[n].prev
               /\ g[n].next = placed[n].next
               /\ g[n].head = placed[n].head /\ g[n].tail = placed[n].tail
    <3>1. CASE n = first
      BY <2>4, <3>1
    <3>2. CASE n # first
      BY <2>1, <3>2
    <3> QED
      BY <3>1, <3>2
  <2> QED
    BY <1>9, <2>2, <2>3, <2>5, <2>6 DEF PrependedTo
<1> QED
  BY <1>8, <1>9

LEMMA RemoveEffect ==
    ASSUME NEW h, Heap(h), NEW p \in DOMAIN h, NEW c \in DOMAIN h, p # c,
           h[c].parent = p,
           h[c].prev \in (DOMAIN h \ {c}) \cup {NULL},
           h[c].next \in (DOMAIN h \ {c}) \cup {NULL}
    PROVE  RemovedFrom(h, json_remove_from_parent(h, c), p, c)
<1> USE NullAssumption
<1> DEFINE before == h[c].prev
           after == h[c].next
<1>1. DOMAIN h \subseteq Node /\ NULL \notin DOMAIN h /\ p # NULL
  BY DEF Heap
<1>a. PICK left : left = IF before # NULL THEN [h EXCEPT ![before].next = after]
                                          ELSE [h EXCEPT ![p].head = after]
  OBVIOUS
<1>b. PICK right : right = IF after # NULL THEN [left EXCEPT ![after].prev = before]
                                           ELSE [left EXCEPT ![p].tail = before]
  OBVIOUS
<1>c. PICK alone : alone = [right[c] EXCEPT !.parent = NULL, !.prev = NULL,
                                            !.next = NULL, !.key = NULL]
  OBVIOUS
<1>d. PICK g : g = [right EXCEPT ![c] = alone]
  OBVIOUS
<1>2. json_remove_from_parent(h, c) = g
  BY <1>1, <1>a, <1>b, <1>c, <1>d DEF json_remove_from_parent
<1> SUFFICES RemovedFrom(h, g, p, c)
  BY <1>2
<1>3. /\ before \in Node \cup {NULL} /\ before # c /\ before \in DOMAIN h \cup {NULL}
      /\ after \in Node \cup {NULL} /\ after # c /\ after \in DOMAIN h \cup {NULL}
  BY <1>1
<1>4. /\ Fields(h, left)
      /\ \A n \in DOMAIN h :
           /\ left[n].tag = h[n].tag /\ left[n].key = h[n].key
           /\ left[n].parent = h[n].parent /\ left[n].prev = h[n].prev
           /\ left[n].next = IF n = before THEN after ELSE h[n].next
           /\ left[n].head = IF n = p /\ before = NULL THEN after ELSE h[n].head
           /\ left[n].tail = h[n].tail
  <2>1. CASE before # NULL
    <3>1. before \in DOMAIN h /\ h[before] \in JsonNode
      BY <1>1, <1>3, <2>1 DEF Heap
    <3>2. PICK r : r = [h[before] EXCEPT !.next = after]
      OBVIOUS
    <3>3. /\ r \in JsonNode /\ r.next = after
          /\ r.tag = h[before].tag
          /\ r.key = h[before].key
          /\ r.parent = h[before].parent
          /\ r.prev = h[before].prev
          /\ r.head = h[before].head
          /\ r.tail = h[before].tail
      BY <1>3, <3>1, <3>2 DEF JsonNode
    <3>4. left = [h EXCEPT ![before] = r]
      BY <1>a, <2>1, <3>2
    <3>5. /\ left \in [DOMAIN h -> JsonNode] /\ left[before] = r
          /\ \A n \in DOMAIN h \ {before} : left[n] = h[n]
      BY <1>1, <1>3, <3>1, <3>3, <3>4 DEF Heap
    <3>6. Fields(h, left)
      BY <1>1, <1>3, <3>5 DEF Fields, Heap
    <3> QED
      BY <1>1, <1>3, <2>1, <3>3, <3>5, <3>6
  <2>2. CASE before = NULL
    <3>1. p \in DOMAIN h /\ h[p] \in JsonNode
      BY <1>1, <1>3, <2>2 DEF Heap
    <3>2. PICK r : r = [h[p] EXCEPT !.head = after]
      OBVIOUS
    <3>3. /\ r \in JsonNode /\ r.head = after
          /\ r.tag = h[p].tag
          /\ r.key = h[p].key
          /\ r.parent = h[p].parent
          /\ r.prev = h[p].prev
          /\ r.next = h[p].next
          /\ r.tail = h[p].tail
      BY <1>3, <3>1, <3>2 DEF JsonNode
    <3>4. left = [h EXCEPT ![p] = r]
      BY <1>a, <2>2, <3>2
    <3>5. /\ left \in [DOMAIN h -> JsonNode] /\ left[p] = r
          /\ \A n \in DOMAIN h \ {p} : left[n] = h[n]
      BY <1>1, <1>3, <3>1, <3>3, <3>4 DEF Heap
    <3>6. Fields(h, left)
      BY <1>1, <1>3, <3>5 DEF Fields, Heap
    <3> QED
      BY <1>1, <1>3, <2>2, <3>3, <3>5, <3>6
  <2> QED
    BY <2>1, <2>2
<1>5. Heap(left) /\ DOMAIN left = DOMAIN h
  BY <1>4 DEF Fields
<1>6. /\ Fields(left, right)
      /\ \A n \in DOMAIN h :
           /\ right[n].tag = left[n].tag /\ right[n].key = left[n].key
           /\ right[n].parent = left[n].parent /\ right[n].next = left[n].next
           /\ right[n].prev = IF n = after THEN before ELSE left[n].prev
           /\ right[n].tail = IF n = p /\ after = NULL THEN before ELSE left[n].tail
           /\ right[n].head = left[n].head
  <2>1. CASE after # NULL
    <3>1. after \in DOMAIN h /\ left[after] \in JsonNode
      BY <1>1, <1>3, <1>5, <2>1 DEF Heap
    <3>2. PICK r : r = [left[after] EXCEPT !.prev = before]
      OBVIOUS
    <3>3. /\ r \in JsonNode /\ r.prev = before
          /\ r.tag = left[after].tag
          /\ r.key = left[after].key
          /\ r.parent = left[after].parent
          /\ r.next = left[after].next
          /\ r.head = left[after].head
          /\ r.tail = left[after].tail
      BY <1>3, <3>1, <3>2 DEF JsonNode
    <3>4. right = [left EXCEPT ![after] = r]
      BY <1>b, <2>1, <3>2
    <3>5. /\ right \in [DOMAIN h -> JsonNode] /\ right[after] = r
          /\ \A n \in DOMAIN h \ {after} : right[n] = left[n]
      BY <1>1, <1>3, <1>5, <3>1, <3>3, <3>4 DEF Heap
    <3>6. Fields(left, right)
      BY <1>1, <1>3, <1>5, <3>5 DEF Fields, Heap
    <3> QED
      BY <1>1, <1>3, <1>5, <2>1, <3>3, <3>5, <3>6
  <2>2. CASE after = NULL
    <3>1. p \in DOMAIN h /\ left[p] \in JsonNode
      BY <1>1, <1>3, <1>5, <2>2 DEF Heap
    <3>2. PICK r : r = [left[p] EXCEPT !.tail = before]
      OBVIOUS
    <3>3. /\ r \in JsonNode /\ r.tail = before
          /\ r.tag = left[p].tag
          /\ r.key = left[p].key
          /\ r.parent = left[p].parent
          /\ r.prev = left[p].prev
          /\ r.next = left[p].next
          /\ r.head = left[p].head
      BY <1>3, <3>1, <3>2 DEF JsonNode
    <3>4. right = [left EXCEPT ![p] = r]
      BY <1>b, <2>2, <3>2
    <3>5. /\ right \in [DOMAIN h -> JsonNode] /\ right[p] = r
          /\ \A n \in DOMAIN h \ {p} : right[n] = left[n]
      BY <1>1, <1>3, <1>5, <3>1, <3>3, <3>4 DEF Heap
    <3>6. Fields(left, right)
      BY <1>1, <1>3, <1>5, <3>5 DEF Fields, Heap
    <3> QED
      BY <1>1, <1>3, <1>5, <2>2, <3>3, <3>5, <3>6
  <2> QED
    BY <2>1, <2>2
<1>7. /\ Heap(right) /\ DOMAIN right = DOMAIN h /\ right[c] \in JsonNode
  BY <1>5, <1>6 DEF Fields, Heap
<1>8. /\ alone \in JsonNode
      /\ alone.tag = right[c].tag /\ alone.key = NULL /\ alone.parent = NULL
      /\ alone.prev = NULL /\ alone.next = NULL
      /\ alone.head = right[c].head /\ alone.tail = right[c].tail
  BY <1>7, <1>c DEF JsonNode
<1>9. /\ Fields(h, g)
      /\ g[c] = alone
      /\ \A n \in DOMAIN h \ {c} : g[n] = right[n]
  BY <1>1, <1>7, <1>8, <1>d DEF Fields, Heap
<1>10. ASSUME NEW n \in DOMAIN h
       PROVE  /\ g[n].tag = right[n].tag
              /\ g[n].key = IF n = c THEN NULL ELSE right[n].key
              /\ g[n].parent = IF n = c THEN NULL ELSE right[n].parent
              /\ g[n].prev = IF n = c THEN NULL ELSE right[n].prev
              /\ g[n].next = IF n = c THEN NULL ELSE right[n].next
              /\ g[n].head = right[n].head /\ g[n].tail = right[n].tail
  BY <1>8, <1>9
<1> QED
  BY <1>4, <1>6, <1>9, <1>10 DEF RemovedFrom

(* The sequences of children after a call. *)
Cons1(c, s) == [j \in 1 .. Len(s) + 1 |-> IF j = 1 THEN c ELSE s[j - 1]]
Without(s, i) == [j \in 1 .. Len(s) - 1 |-> s[IF j < i THEN j ELSE j + 1]]

-----------------------------------------------------------------------------
(* The steps, on the sequences that the pointers represent. *)
LEMMA EndIsChild ==
    ASSUME NEW h, NEW kids, Represents(h, kids), NEW p \in DOMAIN h,
           Len(kids[p]) > 0, Len(kids[p]) \in Nat
    PROVE  /\ h[p].head = kids[p][1] /\ h[h[p].head].parent = p
           /\ h[p].tail = kids[p][Len(kids[p])] /\ h[h[p].tail].parent = p
<1>1. h[p].head = kids[p][1] /\ h[p].tail = kids[p][Len(kids[p])]
  BY DEF Represents, Ends
<1>2. 1 \in 1 .. Len(kids[p]) /\ Len(kids[p]) \in 1 .. Len(kids[p])
  OBVIOUS
<1>3. h[kids[p][1]].parent = p /\ h[kids[p][Len(kids[p])]].parent = p
  BY <1>2 DEF Represents, Linked
<1> QED
  BY <1>1, <1>3

LEMMA AppendTrees ==
    ASSUME NEW h, NEW kids, Represents(h, kids),
           NEW p \in DOMAIN h, NEW c \in DOMAIN h, p # c, h[c].parent = NULL,
           NEW key \in Key \cup {NULL}, h[p].tag \in Containers,
           key = NULL <=> h[p].tag = "ARRAY",
           NEW g, AppendedTo(h, g, p, c, key)
    PROVE  Represents(g, [kids EXCEPT ![p] = Append(kids[p], c)])
<1> USE NullAssumption
<1> DEFINE n == Len(kids[p])
           s == Append(kids[p], c)
           more == [kids EXCEPT ![p] = s]
<1>1. /\ DOMAIN g = DOMAIN h /\ Heap(g) /\ NULL \notin DOMAIN h
      /\ \A q \in DOMAIN h : kids[q] \in Seq(DOMAIN h) /\ Len(kids[q]) \in Nat
      /\ \A q \in DOMAIN h : \A i \in 1 .. Len(kids[q]) : kids[q][i] \in DOMAIN h
  BY DEF AppendedTo, Fields, Represents, Listed, Heap
<1>2. /\ s \in Seq(DOMAIN h) /\ Len(s) = n + 1 /\ n \in Nat
      /\ s[n + 1] = c
      /\ \A i \in 1 .. n : s[i] = kids[p][i]
  BY <1>1
<1>3. /\ more \in [DOMAIN h -> Seq(DOMAIN h)]
      /\ more[p] = s /\ \A q \in DOMAIN h \ {p} : more[q] = kids[q]
  BY <1>2 DEF Represents, Listed
<1>4. \A q \in DOMAIN h : \A i \in 1 .. Len(kids[q]) : kids[q][i] # c
  BY <1>1 DEF Represents, Linked
<1>5. \A j \in 1 .. n + 1 : j = n + 1 \/ \E i \in 1 .. n : j = i
  <2> TAKE j \in 1 .. n + 1
  <2>1. j = n + 1 \/ j \in 1 .. n
    BY <1>2
  <2>2. j \in 1 .. n => \E i \in 1 .. n : j = i
    BY <1>2
  <2> QED
    BY <2>1, <2>2
<1> HIDE DEF s, more
<1>6. Listed(g, more)
  <2>1. ASSUME NEW q \in DOMAIN h, NEW i \in 1 .. Len(more[q]), NEW j \in 1 .. Len(more[q]),
               more[q][i] = more[q][j]
        PROVE  i = j
    <3>1. CASE q # p
      BY <1>3, <2>1, <3>1 DEF Represents, Listed
    <3>2. CASE q = p
      <4>1. i \in 1 .. n + 1 /\ j \in 1 .. n + 1 /\ s[i] = s[j]
        BY <1>2, <1>3, <2>1, <3>2
      <4>2. \A a, b \in 1 .. n : kids[p][a] = kids[p][b] => a = b
        BY DEF Represents, Listed
      <4>3. CASE i = n + 1 \/ j = n + 1
        <5>1. ASSUME NEW k \in 1 .. n + 1, k # n + 1
              PROVE  s[k] # c
          <6>1. PICK a \in 1 .. n : k = a
            BY <1>5, <5>1
          <6> QED
            BY <1>2, <1>4, <6>1
        <5> QED
          BY <1>2, <4>1, <4>3, <5>1
      <4>4. CASE i # n + 1 /\ j # n + 1
        <5>1. PICK a \in 1 .. n : i = a
          BY <1>5, <4>1, <4>4
        <5>2. PICK b \in 1 .. n : j = b
          BY <1>5, <4>1, <4>4
        <5>3. s[i] = kids[p][a] /\ s[j] = kids[p][b]
          BY <1>2, <5>1, <5>2
        <5> QED
          BY <4>1, <4>2, <5>1, <5>2, <5>3
      <4> QED
        BY <4>3, <4>4
    <3> QED
      BY <3>1, <3>2
  <2> QED
    BY <1>1, <1>3, <2>1 DEF Listed
<1>7. Ends(g, more)
  <2>1. ASSUME NEW q \in DOMAIN h, q # p
        PROVE  /\ more[q] = kids[q] /\ g[q].tag = h[q].tag
               /\ g[q].head = h[q].head /\ g[q].tail = h[q].tail
    BY <1>3, <2>1 DEF AppendedTo
  <2>2. /\ Len(more[p]) > 0 /\ g[p].tag \in Containers
        /\ g[p].head = s[1] /\ g[p].tail = s[n + 1]
    <3>1. CASE n = 0
      <4>1. h[p].head = NULL /\ h[p].tail = NULL
        BY <3>1 DEF Represents, Ends
      <4>2. g[p].head = c /\ g[p].tail = c /\ g[p].tag = h[p].tag
        BY <4>1 DEF AppendedTo
      <4>3. s[1] = c /\ s[n + 1] = c
        BY <1>2, <3>1
      <4>4. Len(s) > 0 /\ more[p] = s
        BY <1>2, <1>3, <3>1
      <4> QED
        BY <4>2, <4>3, <4>4, Zenon
    <3>2. CASE n > 0
      <4>1. /\ h[p].head = kids[p][1] /\ h[p].tail = kids[p][n]
            /\ h[p].head # NULL /\ h[p].tail # NULL
        BY <1>1, <1>2, <3>2 DEF Represents, Ends
      <4>2. g[p].head = h[p].head /\ g[p].tail = c /\ g[p].tag = h[p].tag
        BY <4>1 DEF AppendedTo
      <4>3. s[n + 1] = c /\ s[1] = kids[p][1]
        BY <1>2, <3>2
      <4> QED
        BY <1>2, <1>3, <4>1, <4>2, <4>3
    <3> QED
      BY <1>2, <3>1, <3>2
  <2>3. /\ Len(more[p]) # 0 /\ g[p].head = more[p][1]
        /\ g[p].tail = more[p][Len(more[p])]
    BY <1>2, <1>3, <2>2
  <2>4. \A q \in DOMAIN h \ {p} :
           /\ Len(more[q]) = 0 => g[q].head = NULL /\ g[q].tail = NULL
           /\ Len(more[q]) > 0 => /\ g[q].tag \in Containers
                                  /\ g[q].head = more[q][1]
                                  /\ g[q].tail = more[q][Len(more[q])]
    BY <2>1 DEF Represents, Ends
  <2> QED
    BY <1>1, <2>2, <2>3, <2>4 DEF Ends
<1>8. Linked(g, more)
  <2>1. ASSUME NEW q \in DOMAIN h, q # p, NEW i \in 1 .. Len(kids[q])
        PROVE  /\ kids[q][i] # q
               /\ g[kids[q][i]].parent = q
               /\ g[kids[q][i]].prev = Before(kids[q], i)
               /\ g[kids[q][i]].next = After(kids[q], i)
               /\ g[kids[q][i]].key = NULL <=> g[q].tag = "ARRAY"
    <3> DEFINE x == kids[q][i]
    <3>1. x \in DOMAIN h /\ x # c
      BY <1>1, <1>4
    <3>2. /\ x # q /\ h[x].parent = q
          /\ h[x].prev = Before(kids[q], i) /\ h[x].next = After(kids[q], i)
          /\ h[x].key = NULL <=> h[q].tag = "ARRAY"
      BY DEF Represents, Linked
    <3>3. x # h[p].tail
      <4>1. CASE n = 0
        BY <1>1, <3>1, <4>1 DEF Represents, Ends
      <4>2. CASE n > 0
        <5>1. h[p].tail = kids[p][n] /\ h[h[p].tail].parent = p
          BY <1>1, <1>2, <4>2, EndIsChild
        <5> QED
          BY <2>1, <3>2, <5>1
      <4> QED
        BY <1>2, <4>1, <4>2
    <3>4. /\ g[x].parent = h[x].parent /\ g[x].prev = h[x].prev
          /\ g[x].next = h[x].next /\ g[x].key = h[x].key /\ g[q].tag = h[q].tag
      BY <3>1, <3>3 DEF AppendedTo
    <3> QED
      BY <3>2, <3>4
  <2>2. /\ c # p /\ g[c].parent = p
        /\ g[c].prev = Before(s, n + 1) /\ g[c].next = After(s, n + 1)
        /\ g[c].key = NULL <=> g[p].tag = "ARRAY"
    <3>1. /\ g[c].parent = p /\ g[c].key = key /\ g[p].tag = h[p].tag
          /\ g[c].next = NULL /\ g[c].prev = h[p].tail
      BY DEF AppendedTo
    <3>2. CASE n = 0
      BY <1>2, <3>1, <3>2 DEF Represents, Ends, Before, After
    <3>3. CASE n > 0
      <4>1. h[p].tail = kids[p][n]
        BY <3>3 DEF Represents, Ends
      <4>2. kids[p][n] = s[n]
        BY <1>2, <3>3
      <4> QED
        BY <1>2, <3>1, <3>3, <4>1, <4>2 DEF Before, After
    <3> QED
      BY <1>2, <3>2, <3>3
  <2>3. ASSUME NEW i \in 1 .. n
        PROVE  /\ kids[p][i] # p /\ g[kids[p][i]].parent = p
               /\ g[kids[p][i]].prev = Before(s, i)
               /\ g[kids[p][i]].next = After(s, i)
               /\ g[kids[p][i]].key = NULL <=> g[p].tag = "ARRAY"
    <3> DEFINE x == kids[p][i]
    <3>1. x \in DOMAIN h /\ x # c
      BY <1>1, <1>4
    <3>2. /\ x # p /\ h[x].parent = p
          /\ h[x].prev = Before(kids[p], i) /\ h[x].next = After(kids[p], i)
          /\ h[x].key = NULL <=> h[p].tag = "ARRAY"
      BY DEF Represents, Linked
    <3>3. h[p].tail = kids[p][n] /\ n \in 1 .. n
      BY <1>2 DEF Represents, Ends
    <3>4. x = h[p].tail <=> i = n
      BY <3>3 DEF Represents, Listed
    <3>5. /\ g[x].parent = h[x].parent /\ g[x].prev = h[x].prev
          /\ g[x].next = IF i = n THEN c ELSE h[x].next
          /\ g[x].key = h[x].key /\ g[p].tag = h[p].tag
      BY <3>1, <3>4 DEF AppendedTo
    <3>6. Before(s, i) = IF i = 1 THEN NULL ELSE kids[p][i - 1]
      <4>1. i # 1 => i - 1 \in 1 .. n /\ (i - 1) + 1 = i
        BY <1>2
      <4>2. Before(s, i) = IF i = 1 THEN NULL ELSE s[i - 1]
        BY <1>2 DEF Before
      <4>3. i # 1 => s[i - 1] = kids[p][i - 1]
        BY <1>2, <4>1
      <4> QED
        BY <1>2, <4>1, <4>2, <4>3
    <3>7. After(s, i) = IF i = n THEN c ELSE kids[p][i + 1]
      <4>1. i # Len(s) /\ i + 1 \in 1 .. n + 1 /\ (i # n => i + 1 \in 1 .. n)
        BY <1>2
      <4>2. After(s, i) = s[i + 1]
        BY <4>1 DEF After
      <4>3. i = n => s[i + 1] = c
        BY <1>2
      <4>4. i # n => s[i + 1] = kids[p][i + 1]
        BY <1>2, <4>1
      <4> QED
        BY <4>2, <4>3, <4>4
    <3> QED
      BY <3>2, <3>5, <3>6, <3>7 DEF Before, After
  <2>4. ASSUME NEW j \in 1 .. n + 1
        PROVE  /\ s[j] # p /\ g[s[j]].parent = p
               /\ g[s[j]].prev = Before(s, j) /\ g[s[j]].next = After(s, j)
               /\ g[s[j]].key = NULL <=> g[p].tag = "ARRAY"
    <3>1. CASE j = n + 1
      BY <1>2, <2>2, <3>1
    <3>2. ASSUME NEW i \in 1 .. n, j = i
          PROVE  s[j] = kids[p][i]
      BY <1>2, <3>2
    <3> QED
      BY <1>5, <2>3, <3>1, <3>2
  <2>5. \A j \in 1 .. Len(more[p]) :
           /\ more[p][j] # p /\ g[more[p][j]].parent = p
           /\ g[more[p][j]].prev = Before(more[p], j)
           /\ g[more[p][j]].next = After(more[p], j)
           /\ g[more[p][j]].key = NULL <=> g[p].tag = "ARRAY"
    BY <1>2, <1>3, <2>4
  <2>6. \A q \in DOMAIN h \ {p} : \A j \in 1 .. Len(more[q]) :
           /\ more[q][j] # q /\ g[more[q][j]].parent = q
           /\ g[more[q][j]].prev = Before(more[q], j)
           /\ g[more[q][j]].next = After(more[q], j)
           /\ g[more[q][j]].key = NULL <=> g[q].tag = "ARRAY"
    <3> TAKE q \in DOMAIN h \ {p}
    <3>1. more[q] = kids[q]
      BY <1>3
    <3> QED
      BY <2>1, <3>1
  <2>7. ASSUME NEW q \in DOMAIN h, NEW j \in 1 .. Len(more[q])
        PROVE  /\ more[q][j] # q /\ g[more[q][j]].parent = q
               /\ g[more[q][j]].prev = Before(more[q], j)
               /\ g[more[q][j]].next = After(more[q], j)
               /\ g[more[q][j]].key = NULL <=> g[q].tag = "ARRAY"
    <3>1. CASE q = p
      BY <2>5, <3>1
    <3>2. CASE q # p
      BY <2>6, <3>2
    <3> QED
      BY <3>1, <3>2
  <2> QED
    BY <1>1, <2>7 DEF Linked
<1>9. Placed(g, more)
  <2> SUFFICES ASSUME NEW m \in DOMAIN h
               PROVE  /\ g[m].parent = NULL => /\ g[m].prev = NULL /\ g[m].next = NULL
                                               /\ g[m].key = NULL
                      /\ g[m].parent # NULL =>
                           /\ g[m].parent \in DOMAIN h
                           /\ \E i \in 1 .. Len(more[g[m].parent]) :
                                 more[g[m].parent][i] = m
    BY <1>1 DEF Placed
  <2>1. CASE m = c
    <3>1. g[m].parent = p /\ p # NULL
      BY <1>1, <2>1 DEF AppendedTo
    <3>2. n + 1 \in 1 .. Len(more[p]) /\ more[p][n + 1] = m
      BY <1>2, <1>3, <2>1
    <3> QED
      BY <3>1, <3>2
  <2>2. CASE m # c /\ h[m].parent = NULL
    <3>1. h[m].prev = NULL /\ h[m].next = NULL /\ h[m].key = NULL
      BY <2>2 DEF Represents, Placed
    <3>2. m # h[p].tail
      <4>1. CASE n = 0
        BY <1>1, <4>1 DEF Represents, Ends
      <4>2. CASE n > 0
        <5>1. h[p].tail = kids[p][n] /\ h[h[p].tail].parent = p
          BY <1>1, <1>2, <4>2, EndIsChild
        <5> QED
          BY <1>1, <2>2, <5>1
      <4> QED
        BY <1>2, <4>1, <4>2
    <3> QED
      BY <2>2, <3>1, <3>2 DEF AppendedTo
  <2>3. CASE m # c /\ h[m].parent # NULL
    <3> DEFINE q == h[m].parent
    <3>1. q \in DOMAIN h /\ g[m].parent = q
      BY <2>3 DEF Represents, Placed, AppendedTo
    <3>2. PICK i \in 1 .. Len(kids[q]) : kids[q][i] = m
      BY <2>3 DEF Represents, Placed
    <3>3. CASE q = p
      <4>1. i \in 1 .. Len(more[p]) /\ more[p][i] = m
        BY <1>2, <1>3, <3>2, <3>3
      <4> QED
        BY <2>3, <3>1, <3>3, <4>1
    <3>4. CASE q # p
      BY <1>3, <2>3, <3>1, <3>2, <3>4
    <3> QED
      BY <3>3, <3>4
  <2> QED
    BY <2>1, <2>2, <2>3
<1>r. Represents(g, more)
  BY <1>1, <1>6, <1>7, <1>8, <1>9 DEF Represents
<1> QED
  BY <1>r DEF more, s

LEMMA PrependTrees ==
    ASSUME NEW h, NEW kids, Represents(h, kids),
           NEW p \in DOMAIN h, NEW c \in DOMAIN h, p # c, h[c].parent = NULL,
           NEW key \in Key \cup {NULL}, h[p].tag \in Containers,
           key = NULL <=> h[p].tag = "ARRAY",
           NEW g, PrependedTo(h, g, p, c, key)
    PROVE  Represents(g, [kids EXCEPT ![p] = Cons1(c, kids[p])])
<1> USE NullAssumption
<1> DEFINE n == Len(kids[p])
           s == [j \in 1 .. n + 1 |-> IF j = 1 THEN c ELSE kids[p][j - 1]]
           more == [kids EXCEPT ![p] = s]
<1>1. /\ DOMAIN g = DOMAIN h /\ Heap(g) /\ NULL \notin DOMAIN h
      /\ \A q \in DOMAIN h : kids[q] \in Seq(DOMAIN h) /\ Len(kids[q]) \in Nat
      /\ \A q \in DOMAIN h : \A i \in 1 .. Len(kids[q]) : kids[q][i] \in DOMAIN h
  BY DEF PrependedTo, Fields, Represents, Listed, Heap
<1>2. /\ s \in Seq(DOMAIN h) /\ Len(s) = n + 1 /\ n \in Nat
      /\ s[1] = c
      /\ \A i \in 1 .. n : s[i + 1] = kids[p][i]
  BY <1>1
<1>3. /\ more \in [DOMAIN h -> Seq(DOMAIN h)]
      /\ more[p] = s /\ \A q \in DOMAIN h \ {p} : more[q] = kids[q]
  BY <1>2 DEF Represents, Listed
<1>4. \A q \in DOMAIN h : \A i \in 1 .. Len(kids[q]) : kids[q][i] # c
  BY <1>1 DEF Represents, Linked
<1>5. \A j \in 1 .. n + 1 : j = 1 \/ \E i \in 1 .. n : j = i + 1
  <2> TAKE j \in 1 .. n + 1
  <2>1. j = 1 \/ j - 1 \in 1 .. n
    BY <1>2
  <2>2. j - 1 \in 1 .. n => \E i \in 1 .. n : j = i + 1
    BY <1>2
  <2> QED
    BY <2>1, <2>2
<1> HIDE DEF s, more
<1>6. Listed(g, more)
  <2>1. ASSUME NEW q \in DOMAIN h, NEW i \in 1 .. Len(more[q]), NEW j \in 1 .. Len(more[q]),
               more[q][i] = more[q][j]
        PROVE  i = j
    <3>1. CASE q # p
      BY <1>3, <2>1, <3>1 DEF Represents, Listed
    <3>2. CASE q = p
      <4>1. i \in 1 .. n + 1 /\ j \in 1 .. n + 1 /\ s[i] = s[j]
        BY <1>2, <1>3, <2>1, <3>2
      <4>2. \A a, b \in 1 .. n : kids[p][a] = kids[p][b] => a = b
        BY DEF Represents, Listed
      <4>3. CASE i = 1 \/ j = 1
        <5>1. ASSUME NEW k \in 1 .. n + 1, k # 1
              PROVE  s[k] # c
          <6>1. PICK a \in 1 .. n : k = a + 1
            BY <1>5, <5>1
          <6>2. s[k] = kids[p][a]
            BY <1>2, <6>1
          <6>3. kids[p][a] # c
            BY <1>2, <1>4, <6>1
          <6> QED
            BY <6>2, <6>3
        <5> QED
          BY <1>2, <4>1, <4>3, <5>1
      <4>4. CASE i # 1 /\ j # 1
        <5>1. PICK a \in 1 .. n : i = a + 1
          BY <1>5, <4>1, <4>4
        <5>2. PICK b \in 1 .. n : j = b + 1
          BY <1>5, <4>1, <4>4
        <5>3. s[i] = kids[p][a] /\ s[j] = kids[p][b]
          BY <1>2, <5>1, <5>2
        <5> QED
          BY <4>1, <4>2, <5>1, <5>2, <5>3
      <4> QED
        BY <4>3, <4>4
    <3> QED
      BY <3>1, <3>2
  <2> QED
    BY <1>1, <1>3, <2>1 DEF Listed
<1>7. Ends(g, more)
  <2>1. ASSUME NEW q \in DOMAIN h, q # p
        PROVE  /\ more[q] = kids[q] /\ g[q].tag = h[q].tag
               /\ g[q].head = h[q].head /\ g[q].tail = h[q].tail
    BY <1>3, <2>1 DEF PrependedTo
  <2>2. /\ Len(more[p]) > 0 /\ g[p].tag \in Containers
        /\ g[p].head = s[1] /\ g[p].tail = s[n + 1]
    <3>1. CASE n = 0
      <4>1. h[p].head = NULL /\ h[p].tail = NULL
        BY <3>1 DEF Represents, Ends
      <4>2. g[p].head = c /\ g[p].tail = c /\ g[p].tag = h[p].tag
        BY <4>1 DEF PrependedTo
      <4>3. s[1] = c /\ s[n + 1] = c
        BY <1>2, <3>1
      <4>4. Len(s) > 0 /\ more[p] = s
        BY <1>2, <1>3, <3>1
      <4> QED
        BY <4>2, <4>3, <4>4, Zenon
    <3>2. CASE n > 0
      <4>1. /\ h[p].head = kids[p][1] /\ h[p].tail = kids[p][n]
            /\ h[p].head # NULL /\ h[p].tail # NULL
        BY <1>1, <1>2, <3>2 DEF Represents, Ends
      <4>2. g[p].tail = h[p].tail /\ g[p].head = c /\ g[p].tag = h[p].tag
        BY <4>1 DEF PrependedTo
      <4>3. s[1] = c /\ s[n + 1] = kids[p][n]
        BY <1>2, <3>2
      <4> QED
        BY <1>2, <1>3, <4>1, <4>2, <4>3
    <3> QED
      BY <1>2, <3>1, <3>2
  <2>3. /\ Len(more[p]) # 0 /\ g[p].head = more[p][1]
        /\ g[p].tail = more[p][Len(more[p])]
    BY <1>2, <1>3, <2>2
  <2>4. \A q \in DOMAIN h \ {p} :
           /\ Len(more[q]) = 0 => g[q].head = NULL /\ g[q].tail = NULL
           /\ Len(more[q]) > 0 => /\ g[q].tag \in Containers
                                  /\ g[q].head = more[q][1]
                                  /\ g[q].tail = more[q][Len(more[q])]
    BY <2>1 DEF Represents, Ends
  <2> QED
    BY <1>1, <2>2, <2>3, <2>4 DEF Ends
<1>8. Linked(g, more)
  <2>1. ASSUME NEW q \in DOMAIN h, q # p, NEW i \in 1 .. Len(kids[q])
        PROVE  /\ kids[q][i] # q
               /\ g[kids[q][i]].parent = q
               /\ g[kids[q][i]].prev = Before(kids[q], i)
               /\ g[kids[q][i]].next = After(kids[q], i)
               /\ g[kids[q][i]].key = NULL <=> g[q].tag = "ARRAY"
    <3> DEFINE x == kids[q][i]
    <3>1. x \in DOMAIN h /\ x # c
      BY <1>1, <1>4
    <3>2. /\ x # q /\ h[x].parent = q
          /\ h[x].prev = Before(kids[q], i) /\ h[x].next = After(kids[q], i)
          /\ h[x].key = NULL <=> h[q].tag = "ARRAY"
      BY DEF Represents, Linked
    <3>3. x # h[p].head
      <4>1. CASE n = 0
        BY <1>1, <3>1, <4>1 DEF Represents, Ends
      <4>2. CASE n > 0
        <5>1. h[p].head = kids[p][1] /\ h[h[p].head].parent = p
          BY <1>1, <1>2, <4>2, EndIsChild
        <5> QED
          BY <2>1, <3>2, <5>1
      <4> QED
        BY <1>2, <4>1, <4>2
    <3>4. /\ g[x].parent = h[x].parent /\ g[x].prev = h[x].prev
          /\ g[x].next = h[x].next /\ g[x].key = h[x].key /\ g[q].tag = h[q].tag
      BY <3>1, <3>3 DEF PrependedTo
    <3> QED
      BY <3>2, <3>4
  <2>2. /\ c # p /\ g[c].parent = p
        /\ g[c].prev = Before(s, 1) /\ g[c].next = After(s, 1)
        /\ g[c].key = NULL <=> g[p].tag = "ARRAY"
    <3>1. /\ g[c].parent = p /\ g[c].key = key /\ g[p].tag = h[p].tag
          /\ g[c].prev = NULL /\ g[c].next = h[p].head
      BY DEF PrependedTo
    <3>2. CASE n = 0
      BY <1>2, <3>1, <3>2 DEF Represents, Ends, Before, After
    <3>3. CASE n > 0
      <4>1. h[p].head = kids[p][1]
        BY <3>3 DEF Represents, Ends
      <4>2. kids[p][1] = s[2]
        BY <1>2, <3>3
      <4> QED
        BY <1>2, <3>1, <3>3, <4>1, <4>2 DEF Before, After
    <3> QED
      BY <1>2, <3>2, <3>3
  <2>3. ASSUME NEW i \in 1 .. n
        PROVE  /\ kids[p][i] # p /\ g[kids[p][i]].parent = p
               /\ g[kids[p][i]].prev = Before(s, i + 1)
               /\ g[kids[p][i]].next = After(s, i + 1)
               /\ g[kids[p][i]].key = NULL <=> g[p].tag = "ARRAY"
    <3> DEFINE x == kids[p][i]
    <3>1. x \in DOMAIN h /\ x # c
      BY <1>1, <1>4
    <3>2. /\ x # p /\ h[x].parent = p
          /\ h[x].prev = Before(kids[p], i) /\ h[x].next = After(kids[p], i)
          /\ h[x].key = NULL <=> h[p].tag = "ARRAY"
      BY DEF Represents, Linked
    <3>3. h[p].head = kids[p][1] /\ 1 \in 1 .. n
      BY <1>2 DEF Represents, Ends
    <3>4. x = h[p].head <=> i = 1
      BY <3>3 DEF Represents, Listed
    <3>5. /\ g[x].parent = h[x].parent /\ g[x].next = h[x].next
          /\ g[x].prev = IF i = 1 THEN c ELSE h[x].prev
          /\ g[x].key = h[x].key /\ g[p].tag = h[p].tag
      BY <3>1, <3>4 DEF PrependedTo
    <3>6. Before(s, i + 1) = IF i = 1 THEN c ELSE kids[p][i - 1]
      <4>1. i # 1 => i - 1 \in 1 .. n /\ (i - 1) + 1 = i
        BY <1>2
      <4>2. Before(s, i + 1) = s[i]
        BY <1>2 DEF Before
      <4>3. i # 1 => s[i] = kids[p][i - 1]
        BY <1>2, <4>1
      <4> QED
        BY <1>2, <4>1, <4>2, <4>3
    <3>7. After(s, i + 1) = IF i = n THEN NULL ELSE kids[p][i + 1]
      BY <1>2 DEF After
    <3> QED
      BY <3>2, <3>5, <3>6, <3>7 DEF Before, After
  <2>4. ASSUME NEW j \in 1 .. n + 1
        PROVE  /\ s[j] # p /\ g[s[j]].parent = p
               /\ g[s[j]].prev = Before(s, j) /\ g[s[j]].next = After(s, j)
               /\ g[s[j]].key = NULL <=> g[p].tag = "ARRAY"
    <3>1. CASE j = 1
      BY <1>2, <2>2, <3>1
    <3>2. ASSUME NEW i \in 1 .. n, j = i + 1
          PROVE  s[j] = kids[p][i]
      BY <1>2, <3>2
    <3> QED
      BY <1>5, <2>3, <3>1, <3>2
  <2>5. \A j \in 1 .. Len(more[p]) :
           /\ more[p][j] # p /\ g[more[p][j]].parent = p
           /\ g[more[p][j]].prev = Before(more[p], j)
           /\ g[more[p][j]].next = After(more[p], j)
           /\ g[more[p][j]].key = NULL <=> g[p].tag = "ARRAY"
    BY <1>2, <1>3, <2>4
  <2>6. \A q \in DOMAIN h \ {p} : \A j \in 1 .. Len(more[q]) :
           /\ more[q][j] # q /\ g[more[q][j]].parent = q
           /\ g[more[q][j]].prev = Before(more[q], j)
           /\ g[more[q][j]].next = After(more[q], j)
           /\ g[more[q][j]].key = NULL <=> g[q].tag = "ARRAY"
    <3> TAKE q \in DOMAIN h \ {p}
    <3>1. more[q] = kids[q]
      BY <1>3
    <3> QED
      BY <2>1, <3>1
  <2>7. ASSUME NEW q \in DOMAIN h, NEW j \in 1 .. Len(more[q])
        PROVE  /\ more[q][j] # q /\ g[more[q][j]].parent = q
               /\ g[more[q][j]].prev = Before(more[q], j)
               /\ g[more[q][j]].next = After(more[q], j)
               /\ g[more[q][j]].key = NULL <=> g[q].tag = "ARRAY"
    <3>1. CASE q = p
      BY <2>5, <3>1
    <3>2. CASE q # p
      BY <2>6, <3>2
    <3> QED
      BY <3>1, <3>2
  <2> QED
    BY <1>1, <2>7 DEF Linked
<1>9. Placed(g, more)
  <2> SUFFICES ASSUME NEW m \in DOMAIN h
               PROVE  /\ g[m].parent = NULL => /\ g[m].prev = NULL /\ g[m].next = NULL
                                               /\ g[m].key = NULL
                      /\ g[m].parent # NULL =>
                           /\ g[m].parent \in DOMAIN h
                           /\ \E i \in 1 .. Len(more[g[m].parent]) :
                                 more[g[m].parent][i] = m
    BY <1>1 DEF Placed
  <2>1. CASE m = c
    <3>1. g[m].parent = p /\ p # NULL
      BY <1>1, <2>1 DEF PrependedTo
    <3>2. 1 \in 1 .. Len(more[p]) /\ more[p][1] = m
      BY <1>2, <1>3, <2>1
    <3> QED
      BY <3>1, <3>2
  <2>2. CASE m # c /\ h[m].parent = NULL
    <3>1. h[m].prev = NULL /\ h[m].next = NULL /\ h[m].key = NULL
      BY <2>2 DEF Represents, Placed
    <3>2. m # h[p].head
      <4>1. CASE n = 0
        BY <1>1, <4>1 DEF Represents, Ends
      <4>2. CASE n > 0
        <5>1. h[p].head = kids[p][1] /\ h[h[p].head].parent = p
          BY <1>1, <1>2, <4>2, EndIsChild
        <5> QED
          BY <1>1, <2>2, <5>1
      <4> QED
        BY <1>2, <4>1, <4>2
    <3> QED
      BY <2>2, <3>1, <3>2 DEF PrependedTo
  <2>3. CASE m # c /\ h[m].parent # NULL
    <3> DEFINE q == h[m].parent
    <3>1. q \in DOMAIN h /\ g[m].parent = q
      BY <2>3 DEF Represents, Placed, PrependedTo
    <3>2. PICK i \in 1 .. Len(kids[q]) : kids[q][i] = m
      BY <2>3 DEF Represents, Placed
    <3>3. CASE q = p
      <4>0. i \in 1 .. n /\ kids[p][i] = m
        BY <1>2, <3>2, <3>3
      <4>1. i + 1 \in 1 .. Len(more[p]) /\ more[p][i + 1] = m
        <5>1. i + 1 \in 1 .. n + 1 /\ s[i + 1] = m
          BY <1>2, <4>0
        <5>2. more[p] = s /\ Len(s) = n + 1
          BY <1>2, <1>3
        <5> QED
          BY <5>1, <5>2
      <4> QED
        BY <2>3, <3>1, <3>3, <4>1
    <3>4. CASE q # p
      BY <1>3, <2>3, <3>1, <3>2, <3>4
    <3> QED
      BY <3>3, <3>4
  <2> QED
    BY <2>1, <2>2, <2>3
<1>r. Represents(g, more)
  BY <1>1, <1>6, <1>7, <1>8, <1>9 DEF Represents
<1> QED
  BY <1>r DEF more, s, n, Cons1

LEMMA Neighbours ==
    ASSUME NEW h, NEW kids, Represents(h, kids), NEW c \in DOMAIN h,
           NEW p \in DOMAIN h, h[c].parent = p,
           NEW i \in 1 .. Len(kids[p]), kids[p][i] = c
    PROVE  /\ p # c /\ Len(kids[p]) \in Nat /\ NULL \notin DOMAIN h
           /\ h[c].prev = Before(kids[p], i) /\ h[c].next = After(kids[p], i)
           /\ h[c].prev # NULL => /\ i - 1 \in 1 .. Len(kids[p])
                                  /\ h[c].prev = kids[p][i - 1]
                                  /\ h[c].prev \in DOMAIN h \ {c}
                                  /\ h[h[c].prev].parent = p
           /\ h[c].next # NULL => /\ i + 1 \in 1 .. Len(kids[p])
                                  /\ h[c].next = kids[p][i + 1]
                                  /\ h[c].next \in DOMAIN h \ {c}
                                  /\ h[h[c].next].parent = p
<1> USE NullAssumption
<1>1. /\ Len(kids[p]) \in Nat /\ NULL \notin DOMAIN h
      /\ \A j \in 1 .. Len(kids[p]) : kids[p][j] \in DOMAIN h
      /\ \A a, b \in 1 .. Len(kids[p]) : kids[p][a] = kids[p][b] => a = b
  BY DEF Represents, Listed, Heap
<1>2. /\ p # c /\ h[c].prev = Before(kids[p], i) /\ h[c].next = After(kids[p], i)
      /\ \A j \in 1 .. Len(kids[p]) : h[kids[p][j]].parent = p
  BY DEF Represents, Linked
<1>3. ASSUME h[c].prev # NULL
      PROVE  i - 1 \in 1 .. Len(kids[p]) /\ h[c].prev = kids[p][i - 1] /\ i - 1 # i
  BY <1>1, <1>2, <1>3 DEF Before
<1>4. ASSUME h[c].next # NULL
      PROVE  i + 1 \in 1 .. Len(kids[p]) /\ h[c].next = kids[p][i + 1] /\ i + 1 # i
  BY <1>1, <1>2, <1>4 DEF After
<1> QED
  BY <1>1, <1>2, <1>3, <1>4

LEMMA RemoveTrees ==
    ASSUME NEW h, NEW kids, Represents(h, kids), NEW c \in DOMAIN h,
           NEW p \in DOMAIN h, h[c].parent = p,
           NEW g, RemovedFrom(h, g, p, c)
    PROVE  \E i \in 1 .. Len(kids[p]) :
              /\ kids[p][i] = c
              /\ Represents(g, [kids EXCEPT ![p] = Without(kids[p], i)])
<1> USE NullAssumption
<1> DEFINE n == Len(kids[p])
           before == h[c].prev
           after == h[c].next
<1>1. /\ DOMAIN g = DOMAIN h /\ Heap(g) /\ NULL \notin DOMAIN h
      /\ \A q \in DOMAIN h : kids[q] \in Seq(DOMAIN h) /\ Len(kids[q]) \in Nat
      /\ \A q \in DOMAIN h : \A k \in 1 .. Len(kids[q]) : kids[q][k] \in DOMAIN h
      /\ \A a, b \in 1 .. n : kids[p][a] = kids[p][b] => a = b
  BY DEF RemovedFrom, Fields, Represents, Listed, Heap
<1>2. PICK i \in 1 .. n : kids[p][i] = c
  BY <1>1 DEF Represents, Placed
<1> DEFINE at(j) == IF j < i THEN j ELSE j + 1
           s == [j \in 1 .. n - 1 |-> kids[p][at(j)]]
           fewer == [kids EXCEPT ![p] = s]
<1>3. /\ p # c
      /\ before = Before(kids[p], i) /\ after = After(kids[p], i)
      /\ before # NULL => /\ i - 1 \in 1 .. n /\ before = kids[p][i - 1]
                          /\ before # c /\ h[before].parent = p
      /\ after # NULL => /\ i + 1 \in 1 .. n /\ after = kids[p][i + 1]
                         /\ after # c /\ h[after].parent = p
  BY <1>2, Neighbours
<1>n. n \in Nat /\ n > 0
  BY <1>1
<1>m. n = 1 \/ (1 \in 1 .. n - 1 /\ n - 1 \in 1 .. n - 1 /\ n - 1 < n)
  <2> HIDE DEF n
  <2> QED
    BY <1>n
<1>4. /\ n \in Nat /\ n > 0
      /\ \A j \in 1 .. n - 1 : at(j) \in 1 .. n /\ at(j) # i
      /\ \A a \in (1 .. n) \ {i} : \E j \in 1 .. n - 1 : at(j) = a
  <2>1. n \in Nat /\ n > 0
    BY <1>1
  <2>2. ASSUME NEW a \in (1 .. n) \ {i}
        PROVE  \E j \in 1 .. n - 1 : at(j) = a
    <3>1. CASE a < i
      BY <2>1, <3>1
    <3>2. CASE a > i
      <4>1. a - 1 \in 1 .. n - 1 /\ at(a - 1) = a
        BY <2>1, <3>2
      <4> QED
        BY <4>1
    <3> QED
      BY <2>1, <3>1, <3>2
  <2>3. \A j \in 1 .. n - 1 : at(j) \in 1 .. n /\ at(j) # i
    BY <2>1
  <2> HIDE DEF at
  <2> QED
    BY <2>1, <2>2, <2>3
<1>5. /\ s \in Seq(DOMAIN h) /\ Len(s) = n - 1
      /\ \A j \in 1 .. n - 1 : s[j] = kids[p][at(j)]
  <2>1. \A j \in 1 .. n - 1 : kids[p][at(j)] \in DOMAIN h
    <3> HIDE DEF at
    <3> QED
      BY <1>1, <1>4
  <2>2. n - 1 \in Nat
    BY <1>4
  <2>3. s \in [1 .. n - 1 -> DOMAIN h]
    BY <2>1
  <2>4. \A j \in 1 .. n - 1 : s[j] = kids[p][at(j)]
    OBVIOUS
  <2>5. s \in Seq(DOMAIN h) /\ Len(s) = n - 1
    <3> HIDE DEF s
    <3> QED
      BY <2>2, <2>3, FunctionIsSeq
  <2> QED
    BY <2>4, <2>5
<1>6. /\ fewer \in [DOMAIN h -> Seq(DOMAIN h)]
      /\ fewer[p] = s /\ \A q \in DOMAIN h \ {p} : fewer[q] = kids[q]
  BY <1>5 DEF Represents, Listed
<1> HIDE DEF s, fewer
<1>7. \A j \in 1 .. n - 1 : s[j] # c
  <2> TAKE j \in 1 .. n - 1
  <2>1. at(j) \in 1 .. n /\ at(j) # i /\ s[j] = kids[p][at(j)]
    BY <1>4, <1>5
  <2> HIDE DEF at
  <2> QED
    BY <1>1, <1>2, <2>1
<1>8. Listed(g, fewer)
  <2>1. ASSUME NEW q \in DOMAIN h, NEW j \in 1 .. Len(fewer[q]), NEW k \in 1 .. Len(fewer[q]),
               fewer[q][j] = fewer[q][k]
        PROVE  j = k
    <3>1. CASE q # p
      BY <1>6, <2>1, <3>1 DEF Represents, Listed
    <3>2. CASE q = p
      <4>1. j \in 1 .. n - 1 /\ k \in 1 .. n - 1 /\ kids[p][at(j)] = kids[p][at(k)]
        BY <1>5, <1>6, <2>1, <3>2
      <4>2. at(j) = at(k)
        BY <1>1, <1>4, <4>1
      <4> QED
        BY <1>4, <4>1, <4>2
    <3> QED
      BY <3>1, <3>2
  <2> QED
    BY <1>1, <1>6, <2>1 DEF Listed
<1>9. Ends(g, fewer)
  <2>1. ASSUME NEW q \in DOMAIN h, q # p
        PROVE  /\ Len(fewer[q]) = 0 => g[q].head = NULL /\ g[q].tail = NULL
               /\ Len(fewer[q]) > 0 => /\ g[q].tag \in Containers
                                       /\ g[q].head = fewer[q][1]
                                       /\ g[q].tail = fewer[q][Len(fewer[q])]
    <3>1. /\ fewer[q] = kids[q] /\ g[q].tag = h[q].tag
          /\ g[q].head = h[q].head /\ g[q].tail = h[q].tail
      BY <1>6, <2>1 DEF RemovedFrom
    <3> QED
      BY <3>1 DEF Represents, Ends
  <2>2. /\ h[p].tag \in Containers /\ g[p].tag = h[p].tag
        /\ h[p].head = kids[p][1] /\ h[p].tail = kids[p][n]
    BY <1>4 DEF Represents, Ends, RemovedFrom
  <2>3. /\ g[p].head = IF before = NULL THEN after ELSE kids[p][1]
        /\ g[p].tail = IF after = NULL THEN before ELSE kids[p][n]
    BY <2>2 DEF RemovedFrom
  <2>4. before = NULL <=> i = 1
    BY <1>1, <1>3, <1>4 DEF Before
  <2>5. after = NULL <=> i = n
    <3>1. i = n => after = NULL
      BY <1>3 DEF After
    <3>2. i # n => after = kids[p][i + 1] /\ i + 1 \in 1 .. n
      BY <1>3, <1>4 DEF After
    <3> QED
      BY <1>1, <3>1, <3>2
  <2>7. ASSUME n # 1
        PROVE  /\ g[p].tag \in Containers
               /\ g[p].head = s[1] /\ g[p].tail = s[n - 1]
    <3>1. g[p].head = s[1]
      <4>1. CASE i = 1
        <5>1. g[p].head = after /\ after = kids[p][2]
          <6>1. i # n
            BY <2>7, <4>1
          <6>2. after = kids[p][i + 1]
            BY <1>3, <6>1 DEF After
          <6> QED
            BY <2>3, <2>4, <4>1, <6>2
        <5>2. 1 \in 1 .. n - 1 /\ at(1) = 2
          BY <1>m, <2>7, <4>1
        <5> QED
          BY <1>5, <5>1, <5>2
      <4>2. CASE i # 1
        <5>1. 1 \in 1 .. n - 1 /\ at(1) = 1
          BY <1>m, <2>7, <4>2
        <5>2. s[1] = kids[p][at(1)]
          BY <1>5, <5>1
        <5> QED
          BY <2>3, <2>4, <4>2, <5>1, <5>2
      <4> QED
        BY <4>1, <4>2
    <3>2. g[p].tail = s[n - 1]
      <4>1. CASE i = n
        <5>1. g[p].tail = before /\ before = kids[p][n - 1]
          <6>1. g[p].tail = before
            BY <2>3, <2>5, <4>1
          <6>2. before = kids[p][i - 1]
            <7>1. i # 1
              BY <1>n, <2>7, <4>1
            <7> QED
              BY <1>3, <7>1 DEF Before
          <6> QED
            BY <4>1, <6>1, <6>2
        <5>2. n - 1 \in 1 .. n - 1 /\ at(n - 1) = n - 1
          <6>1. n - 1 \in 1 .. n - 1 /\ n - 1 < i
            BY <1>m, <2>7, <4>1
          <6> QED
            BY <6>1
        <5> QED
          BY <1>5, <5>1, <5>2
      <4>2. CASE i # n
        <5>1. n - 1 \in 1 .. n - 1 /\ at(n - 1) = n
          BY <1>4, <2>7, <4>2
        <5> QED
          BY <1>5, <2>3, <2>5, <4>2, <5>1
      <4> QED
        BY <4>1, <4>2
    <3> QED
      BY <2>2, <3>1, <3>2
  <2>8. /\ Len(fewer[p]) = 0 => g[p].head = NULL /\ g[p].tail = NULL
        /\ Len(fewer[p]) > 0 => /\ g[p].tag \in Containers
                                /\ g[p].head = fewer[p][1]
                                /\ g[p].tail = fewer[p][Len(fewer[p])]
    <3>1. CASE n = 1
      <4>1. Len(fewer[p]) = 0 /\ i = 1 /\ i = n
        BY <1>4, <1>5, <1>6, <3>1
      <4> QED
        BY <2>3, <2>4, <2>5, <4>1
    <3>2. CASE n # 1
      <4>1. Len(fewer[p]) = n - 1 /\ fewer[p] = s
        BY <1>5, <1>6
      <4>2. Len(fewer[p]) # 0
        BY <1>n, <3>2, <4>1
      <4> QED
        BY <2>7, <3>2, <4>1, <4>2
    <3> QED
      BY <1>4, <3>1, <3>2
  <2> QED
    BY <1>1, <2>1, <2>8 DEF Ends
<1>10. Linked(g, fewer)
  <2>1. ASSUME NEW q \in DOMAIN h, q # p, NEW j \in 1 .. Len(fewer[q])
        PROVE  /\ fewer[q][j] # q /\ g[fewer[q][j]].parent = q
               /\ g[fewer[q][j]].prev = Before(fewer[q], j)
               /\ g[fewer[q][j]].next = After(fewer[q], j)
               /\ g[fewer[q][j]].key = NULL <=> g[q].tag = "ARRAY"
    <3> DEFINE x == kids[q][j]
    <3>1. fewer[q] = kids[q] /\ x \in DOMAIN h
      BY <1>1, <1>6, <2>1
    <3>2. /\ x # q /\ h[x].parent = q
          /\ h[x].prev = Before(kids[q], j) /\ h[x].next = After(kids[q], j)
          /\ h[x].key = NULL <=> h[q].tag = "ARRAY"
      BY <3>1 DEF Represents, Linked
    <3>3. x # c /\ x # before /\ x # after
      BY <1>1, <1>3, <2>1, <3>1, <3>2
    <3>4. /\ g[x].parent = h[x].parent /\ g[x].prev = h[x].prev
          /\ g[x].next = h[x].next /\ g[x].key = h[x].key /\ g[q].tag = h[q].tag
      BY <3>1, <3>3 DEF RemovedFrom
    <3> QED
      BY <3>1, <3>2, <3>4
  <2>2. ASSUME NEW j \in 1 .. n - 1
        PROVE  /\ s[j] # p /\ g[s[j]].parent = p
               /\ g[s[j]].prev = Before(s, j) /\ g[s[j]].next = After(s, j)
               /\ g[s[j]].key = NULL <=> g[p].tag = "ARRAY"
    <3> DEFINE a == at(j)
               x == kids[p][a]
    <3>1. s[j] = x /\ a \in 1 .. n /\ a # i /\ x \in DOMAIN h /\ x # c
      BY <1>1, <1>4, <1>5, <1>7
    <3>2. /\ x # p /\ h[x].parent = p
          /\ h[x].prev = Before(kids[p], a) /\ h[x].next = After(kids[p], a)
          /\ h[x].key = NULL <=> h[p].tag = "ARRAY"
      BY <3>1 DEF Represents, Linked
    <3>3. /\ g[x].parent = h[x].parent /\ g[x].key = h[x].key /\ g[p].tag = h[p].tag
          /\ g[x].prev = IF x = after THEN before ELSE h[x].prev
          /\ g[x].next = IF x = before THEN after ELSE h[x].next
      BY <3>1 DEF RemovedFrom
    <3>4. x = after <=> j = i
      <4>1. x = after => a = i + 1
        BY <1>1, <1>3, <3>1
      <4>2. a = i + 1 => x = after
        <5> HAVE a = i + 1
        <5>1. i < Len(kids[p]) /\ x = kids[p][i + 1]
          BY <1>4, <3>1
        <5> QED
          BY <1>3, <5>1 DEF After
      <4>3. a = i + 1 <=> j = i
        BY <1>4
      <4> QED
        BY <4>1, <4>2, <4>3
    <3>5. x = before <=> j = i - 1
      <4>1. x = before => a = i - 1
        BY <1>1, <1>3, <3>1
      <4>2. a = i - 1 => x = before
        BY <1>3, <1>4, <3>1 DEF Before
      <4>3. a = i - 1 <=> j = i - 1
        BY <1>4
      <4> QED
        BY <4>1, <4>2, <4>3
    <3>6. g[x].prev = Before(s, j)
      <4>1. CASE j = 1
        BY <1>3, <1>4, <3>2, <3>3, <3>4, <4>1 DEF Before
      <4>2. CASE j # 1
        <5>1. j - 1 \in 1 .. n - 1 /\ Before(s, j) = kids[p][at(j - 1)]
          BY <1>4, <1>5, <4>2 DEF Before
        <5>2. CASE j = i
          <6>1. at(j - 1) = i - 1 /\ i # 1
            BY <1>4, <4>2, <5>2
          <6>2. before = kids[p][i - 1]
            BY <1>3, <6>1 DEF Before
          <6> QED
            BY <3>3, <3>4, <5>1, <5>2, <6>1, <6>2
        <5>3. CASE j # i
          <6>1. at(j - 1) = a - 1 /\ a # 1
            BY <1>4, <4>2, <5>3
          <6> QED
            BY <3>2, <3>3, <3>4, <5>1, <5>3, <6>1 DEF Before
        <5> QED
          BY <5>2, <5>3
      <4> QED
        BY <4>1, <4>2
    <3>7. g[x].next = After(s, j)
      <4>1. CASE j = n - 1
        <5>1. After(s, j) = NULL
          BY <1>5, <4>1 DEF After
        <5>2. CASE j = i - 1
          BY <1>3, <1>4, <3>3, <3>5, <4>1, <5>1, <5>2 DEF After
        <5>3. CASE j # i - 1
          <6>1. a = n
            BY <1>4, <4>1, <5>3
          <6> QED
            BY <3>2, <3>3, <3>5, <5>1, <5>3, <6>1 DEF After
        <5> QED
          BY <5>2, <5>3
      <4>2. CASE j # n - 1
        <5>1. j + 1 \in 1 .. n - 1 /\ After(s, j) = kids[p][at(j + 1)]
          BY <1>4, <1>5, <4>2 DEF After
        <5>2. CASE j = i - 1
          <6>1. at(j + 1) = i + 1 /\ i # n
            BY <1>4, <4>2, <5>2
          <6>2. after = kids[p][i + 1]
            BY <1>3, <6>1 DEF After
          <6> QED
            BY <3>3, <3>5, <5>1, <5>2, <6>1, <6>2
        <5>3. CASE j # i - 1
          <6>1. at(j + 1) = a + 1 /\ a # n
            BY <1>4, <4>2, <5>3
          <6> QED
            BY <3>2, <3>3, <3>5, <5>1, <5>3, <6>1 DEF After
        <5> QED
          BY <5>2, <5>3
      <4> QED
        BY <4>1, <4>2
    <3> QED
      BY <3>1, <3>2, <3>3, <3>6, <3>7
  <2>3. ASSUME NEW q \in DOMAIN h, NEW j \in 1 .. Len(fewer[q])
        PROVE  /\ fewer[q][j] # q /\ g[fewer[q][j]].parent = q
               /\ g[fewer[q][j]].prev = Before(fewer[q], j)
               /\ g[fewer[q][j]].next = After(fewer[q], j)
               /\ g[fewer[q][j]].key = NULL <=> g[q].tag = "ARRAY"
    <3>1. CASE q = p
      <4>1. fewer[p] = s /\ j \in 1 .. n - 1
        BY <1>5, <1>6, <3>1
      <4> QED
        BY <2>2, <3>1, <4>1
    <3>2. CASE q # p
      BY <2>1, <3>2
    <3> QED
      BY <3>1, <3>2
  <2> QED
    BY <1>1, <2>3 DEF Linked
<1>11. Placed(g, fewer)
  <2> SUFFICES ASSUME NEW m \in DOMAIN h
               PROVE  /\ g[m].parent = NULL => /\ g[m].prev = NULL /\ g[m].next = NULL
                                               /\ g[m].key = NULL
                      /\ g[m].parent # NULL =>
                           /\ g[m].parent \in DOMAIN h
                           /\ \E j \in 1 .. Len(fewer[g[m].parent]) :
                                 fewer[g[m].parent][j] = m
    BY <1>1 DEF Placed
  <2>1. CASE m = c
    BY <2>1 DEF RemovedFrom
  <2>2. CASE m # c /\ h[m].parent = NULL
    <3>1. h[m].prev = NULL /\ h[m].next = NULL /\ h[m].key = NULL
      BY <2>2 DEF Represents, Placed
    <3>2. m # before /\ m # after
      BY <1>1, <1>3, <2>2
    <3> QED
      BY <2>2, <3>1, <3>2 DEF RemovedFrom
  <2>3. CASE m # c /\ h[m].parent # NULL
    <3> DEFINE q == h[m].parent
    <3>1. q \in DOMAIN h /\ g[m].parent = q
      BY <2>3 DEF Represents, Placed, RemovedFrom
    <3>2. PICK a \in 1 .. Len(kids[q]) : kids[q][a] = m
      BY <2>3 DEF Represents, Placed
    <3>3. CASE q = p
      <4>1. a \in (1 .. n) \ {i}
        BY <1>2, <2>3, <3>2, <3>3
      <4>2. PICK j \in 1 .. n - 1 : at(j) = a
        BY <1>4, <4>1
      <4>3. j \in 1 .. Len(fewer[p]) /\ fewer[p][j] = m
        BY <1>5, <1>6, <3>2, <3>3, <4>2
      <4> QED
        BY <2>3, <3>1, <3>3, <4>3
    <3>4. CASE q # p
      BY <1>6, <2>3, <3>1, <3>2, <3>4
    <3> QED
      BY <3>3, <3>4
  <2> QED
    BY <2>1, <2>2, <2>3
<1>r. Represents(g, fewer)
  BY <1>1, <1>8, <1>9, <1>10, <1>11 DEF Represents
<1> QED
  BY <1>2, <1>r DEF fewer, s, n, at, Without

LEMMA EndsOutside ==
    ASSUME NEW h, Trees(h), NEW p \in DOMAIN h
    PROVE  /\ h[p].head \in DOMAIN h \cup {NULL} /\ h[p].tail \in DOMAIN h \cup {NULL}
           /\ h[p].head # NULL => h[h[p].head].parent = p /\ h[h[p].head].prev = NULL
           /\ h[p].tail # NULL => h[h[p].tail].parent = p
           /\ h[p].head # NULL => h[p].tag \in Containers
<1> USE NullAssumption
<1>1. PICK kids : Represents(h, kids)
  BY DEF Trees
<1>2. /\ Len(kids[p]) \in Nat
      /\ \A i \in 1 .. Len(kids[p]) : kids[p][i] \in DOMAIN h
  BY <1>1 DEF Represents, Listed
<1>3. CASE Len(kids[p]) = 0
  BY <1>1, <1>3 DEF Represents, Ends
<1>4. CASE Len(kids[p]) # 0
  <2>1. 1 \in 1 .. Len(kids[p]) /\ Len(kids[p]) \in 1 .. Len(kids[p])
    BY <1>2, <1>4
  <2>2. /\ h[p].head = kids[p][1] /\ h[p].tail = kids[p][Len(kids[p])]
        /\ h[p].tag \in Containers
    BY <1>1, <1>2, <1>4 DEF Represents, Ends
  <2>3. /\ h[kids[p][1]].parent = p /\ h[kids[p][Len(kids[p])]].parent = p
        /\ h[kids[p][1]].prev = NULL
    BY <1>1, <2>1 DEF Represents, Linked, Before
  <2> QED
    BY <1>2, <2>1, <2>2, <2>3
<1> QED
  BY <1>3, <1>4

LEMMA InsertKids ==
    ASSUME NEW h, NEW kids, Represents(h, kids),
           NEW p \in DOMAIN h, NEW c \in DOMAIN h, p # c,
           h[c].parent = NULL, NEW key \in Key \cup {NULL},
           h[p].tag \in Containers, key = NULL <=> h[p].tag = "ARRAY"
    PROVE  /\ Represents(append_node([h EXCEPT ![c].key = key], p, c),
                         [kids EXCEPT ![p] = Append(kids[p], c)])
           /\ Represents(prepend_node([h EXCEPT ![c].key = key], p, c),
                         [kids EXCEPT ![p] = Cons1(c, kids[p])])
           /\ AppendedTo(h, append_node([h EXCEPT ![c].key = key], p, c), p, c, key)
           /\ PrependedTo(h, prepend_node([h EXCEPT ![c].key = key], p, c), p, c, key)
<1> USE NullAssumption
<1>1. Represents(h, kids)
  OBVIOUS
<1>2. Heap(h) /\ p # NULL /\ Trees(h)
  BY <1>1 DEF Represents, Heap, Trees
<1>3. /\ h[p].tail # c /\ h[p].tail \in DOMAIN h \cup {NULL}
      /\ h[p].head # c /\ h[p].head \in DOMAIN h \cup {NULL}
  <2>1. c # NULL
    BY <1>2 DEF Heap
  <2> QED
    BY <1>2, <2>1, EndsOutside
<1>4. AppendedTo(h, append_node([h EXCEPT ![c].key = key], p, c), p, c, key)
  BY <1>2, <1>3, AppendEffect
<1>5. PrependedTo(h, prepend_node([h EXCEPT ![c].key = key], p, c), p, c, key)
  BY <1>2, <1>3, PrependEffect
<1>6. Represents(append_node([h EXCEPT ![c].key = key], p, c),
                 [kids EXCEPT ![p] = Append(kids[p], c)])
  BY <1>1, <1>4, AppendTrees
<1>7. Represents(prepend_node([h EXCEPT ![c].key = key], p, c),
                 [kids EXCEPT ![p] = Cons1(c, kids[p])])
  BY <1>1, <1>5, PrependTrees
<1> QED
  BY <1>4, <1>5, <1>6, <1>7

LEMMA InsertTrees ==
    ASSUME NEW h, Trees(h), NEW p \in DOMAIN h, NEW c \in DOMAIN h, p # c,
           h[c].parent = NULL, NEW key \in Key \cup {NULL},
           h[p].tag \in Containers, key = NULL <=> h[p].tag = "ARRAY"
    PROVE  /\ Trees(append_node([h EXCEPT ![c].key = key], p, c))
           /\ Trees(prepend_node([h EXCEPT ![c].key = key], p, c))
<1>1. PICK kids : Represents(h, kids)
  BY DEF Trees
<1>2. /\ Represents(append_node([h EXCEPT ![c].key = key], p, c),
                    [kids EXCEPT ![p] = Append(kids[p], c)])
      /\ Represents(prepend_node([h EXCEPT ![c].key = key], p, c),
                    [kids EXCEPT ![p] = Cons1(c, kids[p])])
  BY <1>1, InsertKids
<1> QED
  BY <1>2, Zenon DEF Trees

LEMMA InsertKeyless ==
    ASSUME NEW h, Trees(h), NEW c \in DOMAIN h, h[c].parent = NULL
    PROVE  [h EXCEPT ![c].key = NULL] = h
<1>1. PICK kids : Represents(h, kids)
  BY DEF Trees
<1>2. h \in [DOMAIN h -> JsonNode] /\ h[c] \in JsonNode /\ h[c].key = NULL
  BY <1>1 DEF Represents, Heap, Placed
<1>3. [h[c] EXCEPT !.key = NULL] = h[c]
  BY <1>2 DEF JsonNode
<1> QED
  BY <1>2, <1>3

LEMMA RemoveStep ==
    ASSUME NEW h, Trees(h), NEW c \in DOMAIN h,
           NEW g, g = json_remove_from_parent(h, c)
    PROVE  /\ Trees(g) /\ DOMAIN g = DOMAIN h
           /\ g[c].parent = NULL
           /\ \A n \in DOMAIN h : h[n].parent = NULL => g[n].parent = NULL
           /\ \A n \in DOMAIN h : n # h[c].parent => g[n].head = h[n].head
           /\ h[c].parent # NULL /\ h[c].prev = NULL =>
                g[h[c].parent].head = h[c].next
           /\ h[c].next \in DOMAIN h \cup {NULL}
<1> USE NullAssumption
<1>1. PICK kids : Represents(h, kids)
  BY DEF Trees
<1>2. Heap(h) /\ c # NULL
  BY <1>1 DEF Represents, Heap
<1>3. CASE h[c].parent = NULL
  <2>1. g = h
    BY <1>3 DEF json_remove_from_parent
  <2>2. h[c].next = NULL
    BY <1>1, <1>3 DEF Represents, Placed
  <2> QED
    BY <1>3, <2>1, <2>2
<1>4. CASE h[c].parent # NULL
  <2>1. PICK p \in DOMAIN h : p = h[c].parent
    BY <1>1, <1>4 DEF Represents, Placed
  <2>2. PICK i \in 1 .. Len(kids[p]) : kids[p][i] = c
    BY <1>1, <1>4, <2>1 DEF Represents, Placed
  <2>3. /\ p # c
        /\ h[c].prev \in (DOMAIN h \ {c}) \cup {NULL}
        /\ h[c].next \in (DOMAIN h \ {c}) \cup {NULL}
    BY <1>1, <2>1, <2>2, Neighbours
  <2>4. RemovedFrom(h, g, p, c)
    BY <1>2, <2>1, <2>3, RemoveEffect
  <2>5. Trees(g)
    BY <1>1, <2>1, <2>4, RemoveTrees DEF Trees
  <2> QED
    BY <2>1, <2>3, <2>4, <2>5 DEF RemovedFrom, Fields
<1> QED
  BY <1>3, <1>4

LEMMA MakeTrees ==
    ASSUME NEW h, NEW kids, Represents(h, kids), NEW n \in Node \ DOMAIN h, NEW tag \in Tags,
           NEW g, g = [m \in DOMAIN h \cup {n} |-> IF m = n THEN mknode(tag) ELSE h[m]]
    PROVE  Represents(g, [m \in DOMAIN h \cup {n} |-> IF m = n THEN << >> ELSE kids[m]])
<1> USE NullAssumption
<1>1. Represents(h, kids)
  OBVIOUS
<1> DEFINE more == [m \in DOMAIN h \cup {n} |-> IF m = n THEN << >> ELSE kids[m]]
<1>2. /\ DOMAIN g = DOMAIN h \cup {n} /\ g[n] = mknode(tag) /\ n \notin DOMAIN h
      /\ \A m \in DOMAIN h : g[m] = h[m]
      /\ more[n] = << >> /\ \A m \in DOMAIN h : more[m] = kids[m]
      /\ \A m \in DOMAIN h : kids[m] \in Seq(DOMAIN h)
      /\ \A m \in DOMAIN h : \A i \in 1 .. Len(kids[m]) : kids[m][i] \in DOMAIN h
  BY <1>1 DEF Represents, Listed
<1>3. Heap(g)
  <2>1. mknode(tag) \in JsonNode
    BY DEF mknode, JsonNode
  <2>2. \A m \in DOMAIN h : h[m] \in JsonNode
    BY <1>1 DEF Represents, Heap
  <2>3. g \in [DOMAIN g -> JsonNode]
    BY <1>2, <2>1, <2>2
  <2> QED
    BY <1>1, <1>2, <2>3 DEF Represents, Heap
<1>4. more \in [DOMAIN g -> Seq(DOMAIN g)]
  <2>1. \A m \in DOMAIN h : kids[m] \in Seq(DOMAIN g)
    BY <1>2
  <2> QED
    BY <1>2, <2>1
<1> HIDE DEF more
<1>5. Listed(g, more)
  BY <1>1, <1>2, <1>4 DEF Represents, Listed
<1>6. Ends(g, more)
  BY <1>1, <1>2 DEF Represents, Ends, mknode
<1>7. Linked(g, more)
  <2>1. ASSUME NEW m \in DOMAIN g, NEW i \in 1 .. Len(more[m])
        PROVE  /\ m \in DOMAIN h /\ more[m] = kids[m] /\ g[m] = h[m]
               /\ kids[m][i] \in DOMAIN h /\ g[kids[m][i]] = h[kids[m][i]]
    <3>1. m # n
      BY <1>2
    <3> QED
      BY <1>2, <3>1
  <2>2. \A m \in DOMAIN h : \A i \in 1 .. Len(kids[m]) :
           /\ kids[m][i] # m
           /\ h[kids[m][i]].parent = m
           /\ h[kids[m][i]].prev = Before(kids[m], i)
           /\ h[kids[m][i]].next = After(kids[m], i)
           /\ h[kids[m][i]].key = NULL <=> h[m].tag = "ARRAY"
    BY <1>1 DEF Represents, Linked
  <2> SUFFICES ASSUME NEW m \in DOMAIN g, NEW i \in 1 .. Len(more[m])
               PROVE  /\ more[m][i] # m
                      /\ g[more[m][i]].parent = m
                      /\ g[more[m][i]].prev = Before(more[m], i)
                      /\ g[more[m][i]].next = After(more[m], i)
                      /\ g[more[m][i]].key = NULL <=> g[m].tag = "ARRAY"
    BY DEF Linked
  <2>x. /\ m \in DOMAIN h /\ more[m] = kids[m] /\ i \in 1 .. Len(kids[m])
        /\ g[m] = h[m] /\ g[kids[m][i]] = h[kids[m][i]]
    BY <2>1
  <2>y. /\ kids[m][i] # m
        /\ h[kids[m][i]].parent = m
        /\ h[kids[m][i]].prev = Before(kids[m], i)
        /\ h[kids[m][i]].next = After(kids[m], i)
        /\ h[kids[m][i]].key = NULL <=> h[m].tag = "ARRAY"
    BY <2>x, <2>2
  <2> QED
    BY <2>x, <2>y
<1>8. Placed(g, more)
  <2>1. ASSUME NEW m \in DOMAIN h
        PROVE  /\ h[m].parent = NULL => /\ h[m].prev = NULL /\ h[m].next = NULL
                                        /\ h[m].key = NULL
               /\ h[m].parent # NULL =>
                    /\ h[m].parent \in DOMAIN g
                    /\ \E i \in 1 .. Len(more[h[m].parent]) :
                          more[h[m].parent][i] = m
    <3>1. CASE h[m].parent = NULL
      BY <1>1, <3>1 DEF Represents, Placed
    <3>2. CASE h[m].parent # NULL
      <4>1. /\ h[m].parent \in DOMAIN h
            /\ \E i \in 1 .. Len(kids[h[m].parent]) : kids[h[m].parent][i] = m
        BY <1>1, <3>2 DEF Represents, Placed
      <4> QED
        BY <1>2, <3>2, <4>1
    <3> QED
      BY <3>1, <3>2
  <2>2. g[n].parent = NULL /\ g[n].prev = NULL /\ g[n].next = NULL /\ g[n].key = NULL
    BY <1>2 DEF mknode
  <2>3. ASSUME NEW m \in DOMAIN g, m # n
        PROVE  m \in DOMAIN h /\ g[m] = h[m]
    BY <1>2, <2>3
  <2> SUFFICES ASSUME NEW m \in DOMAIN g
               PROVE  /\ g[m].parent = NULL => /\ g[m].prev = NULL /\ g[m].next = NULL
                                               /\ g[m].key = NULL
                      /\ g[m].parent # NULL =>
                           /\ g[m].parent \in DOMAIN g
                           /\ \E i \in 1 .. Len(more[g[m].parent]) :
                                more[g[m].parent][i] = m
    BY DEF Placed
  <2>4. CASE m = n
    BY <2>2, <2>4
  <2>5. CASE m # n
    BY <2>1, <2>3, <2>5
  <2> QED
    BY <2>4, <2>5
<1>r. Represents(g, more)
  BY <1>3, <1>5, <1>6, <1>7, <1>8 DEF Represents
<1> QED
  BY <1>r DEF more

LEMMA FreeTrees ==
    ASSUME NEW h, NEW kids, Represents(h, kids), NEW n \in DOMAIN h,
           h[n].parent = NULL, h[n].head = NULL,
           NEW g, g = [m \in DOMAIN h \ {n} |-> h[m]]
    PROVE  Represents(g, [m \in DOMAIN h \ {n} |-> kids[m]])
<1> USE NullAssumption
<1>1. Represents(h, kids)
  OBVIOUS
<1> DEFINE fewer == [m \in DOMAIN h \ {n} |-> kids[m]]
<1>2. /\ DOMAIN g = DOMAIN h \ {n} /\ NULL \notin DOMAIN h
      /\ \A m \in DOMAIN g : g[m] = h[m] /\ fewer[m] = kids[m]
      /\ \A m \in DOMAIN h : kids[m] \in Seq(DOMAIN h)
      /\ \A m \in DOMAIN h : \A i \in 1 .. Len(kids[m]) : kids[m][i] \in DOMAIN h
  BY <1>1 DEF Represents, Listed, Heap
<1>3. Len(kids[n]) = 0
  <2>1. Len(kids[n]) \in Nat
    BY <1>2
  <2>2. ASSUME Len(kids[n]) # 0
        PROVE  FALSE
    <3>1. 1 \in 1 .. Len(kids[n]) /\ Len(kids[n]) > 0
      BY <2>1, <2>2
    <3>2. kids[n][1] \in DOMAIN h
      BY <1>2, <3>1
    <3>3. h[n].head = kids[n][1]
      BY <1>1, <3>1 DEF Represents, Ends
    <3> QED
      BY <1>2, <3>2, <3>3
  <2> QED
    BY <2>2
<1>4. \A m \in DOMAIN h : \A i \in 1 .. Len(kids[m]) : kids[m][i] # n
  BY <1>1, <1>2 DEF Represents, Linked
<1>5. \A m \in DOMAIN h : h[m].parent # n
  <2>1. ASSUME NEW m \in DOMAIN h, h[m].parent = n
        PROVE  FALSE
    <3>1. n # NULL
      BY <1>2
    <3>2. PICK i \in 1 .. Len(kids[n]) : kids[n][i] = m
      BY <1>1, <2>1, <3>1 DEF Represents, Placed
    <3> QED
      BY <1>3, <3>2
  <2> QED
    BY <2>1
<1>6. Heap(g)
  BY <1>1, <1>2 DEF Represents, Heap
<1>7. fewer \in [DOMAIN g -> Seq(DOMAIN g)]
  <2>1. ASSUME NEW m \in DOMAIN g
        PROVE  kids[m] \in Seq(DOMAIN g)
    <3>1. \A i \in 1 .. Len(kids[m]) : kids[m][i] \in DOMAIN g
      BY <1>2, <1>4
    <3>2. kids[m] \in [1 .. Len(kids[m]) -> DOMAIN g] /\ Len(kids[m]) \in Nat
      BY <1>2, <3>1
    <3> QED
      BY <3>2, FunctionIsSeq
  <2> QED
    BY <1>2, <2>1
<1> HIDE DEF fewer
<1>8. Listed(g, fewer)
  BY <1>1, <1>2, <1>7 DEF Represents, Listed
<1>9. Ends(g, fewer)
  BY <1>1, <1>2 DEF Represents, Ends
<1>10. Linked(g, fewer)
  <2>1. \A m \in DOMAIN g : \A i \in 1 .. Len(kids[m]) : g[kids[m][i]] = h[kids[m][i]]
    BY <1>2, <1>4
  <2>2. \A m \in DOMAIN h : \A i \in 1 .. Len(kids[m]) :
           /\ kids[m][i] # m
           /\ h[kids[m][i]].parent = m
           /\ h[kids[m][i]].prev = Before(kids[m], i)
           /\ h[kids[m][i]].next = After(kids[m], i)
           /\ h[kids[m][i]].key = NULL <=> h[m].tag = "ARRAY"
    BY <1>1 DEF Represents, Linked
  <2>3. \A m \in DOMAIN g : m \in DOMAIN h /\ g[m] = h[m] /\ fewer[m] = kids[m]
    BY <1>2
  <2> SUFFICES ASSUME NEW m \in DOMAIN g, NEW i \in 1 .. Len(fewer[m])
               PROVE  /\ fewer[m][i] # m
                      /\ g[fewer[m][i]].parent = m
                      /\ g[fewer[m][i]].prev = Before(fewer[m], i)
                      /\ g[fewer[m][i]].next = After(fewer[m], i)
                      /\ g[fewer[m][i]].key = NULL <=> g[m].tag = "ARRAY"
    BY DEF Linked
  <2>x. /\ m \in DOMAIN h /\ fewer[m] = kids[m] /\ i \in 1 .. Len(kids[m])
        /\ g[m] = h[m] /\ g[kids[m][i]] = h[kids[m][i]]
    BY <2>1, <2>3
  <2>y. /\ kids[m][i] # m
        /\ h[kids[m][i]].parent = m
        /\ h[kids[m][i]].prev = Before(kids[m], i)
        /\ h[kids[m][i]].next = After(kids[m], i)
        /\ h[kids[m][i]].key = NULL <=> h[m].tag = "ARRAY"
    BY <2>x, <2>2
  <2> QED
    BY <2>x, <2>y
<1>11. Placed(g, fewer)
  <2>1. ASSUME NEW m \in DOMAIN g
        PROVE  /\ g[m].parent = NULL => /\ g[m].prev = NULL /\ g[m].next = NULL
                                        /\ g[m].key = NULL
               /\ g[m].parent # NULL =>
                    /\ g[m].parent \in DOMAIN g
                    /\ \E i \in 1 .. Len(fewer[g[m].parent]) :
                          fewer[g[m].parent][i] = m
    <3>1. m \in DOMAIN h /\ g[m] = h[m]
      BY <1>2
    <3>2. CASE h[m].parent = NULL
      BY <1>1, <3>1, <3>2 DEF Represents, Placed
    <3>3. CASE h[m].parent # NULL
      <4>1. /\ h[m].parent \in DOMAIN h
            /\ \E i \in 1 .. Len(kids[h[m].parent]) : kids[h[m].parent][i] = m
        BY <1>1, <3>1, <3>3 DEF Represents, Placed
      <4>2. h[m].parent \in DOMAIN g
        BY <1>2, <1>5, <3>1, <4>1
      <4> QED
        BY <1>2, <3>1, <3>3, <4>1, <4>2
    <3> QED
      BY <3>1, <3>2, <3>3
  <2> QED
    BY <2>1 DEF Placed
<1>r. Represents(g, fewer)
  BY <1>6, <1>8, <1>9, <1>10, <1>11 DEF Represents
<1> QED
  BY <1>r DEF fewer

-----------------------------------------------------------------------------
(* The calls of json_delete. *)
LEMMA NoCalls == ASSUME NEW h PROVE Calls(h, << >>)
BY DEF Calls

LEMMA CallFirst ==
    ASSUME NEW h, Trees(h), NEW n \in DOMAIN h
    PROVE  /\ Call(h, n) = [node |-> n, child |-> h[n].head]
           /\ h[n].head \in DOMAIN h \cup {NULL}
  BY EndsOutside DEF Call

LEMMA InitInv == Init => Inv
<1> SUFFICES ASSUME Init PROVE Inv
  OBVIOUS
<1> DEFINE none == [n \in {} |-> << >>]
<1>1. DOMAIN heap = {} /\ heap = [n \in {} |-> NULL] /\ stack = << >>
  BY DEF Init
<1>2. Represents(heap, none)
  BY <1>1 DEF Represents, Heap, Listed, Ends, Linked, Placed
<1>3. Trees(heap)
  BY <1>2 DEF Trees
<1> QED
  BY <1>1, <1>3, NoCalls DEF Inv

LEMMA BeginStep ==
    ASSUME Inv, NEW n \in DOMAIN heap, DeleteBegins(n)
    PROVE  Inv'
<1> USE NullAssumption
<1> DEFINE call == [node |-> n, child |-> heap'[n].head]
<1>1. /\ Trees(heap') /\ DOMAIN heap' = DOMAIN heap /\ heap'[n].parent = NULL
  BY RemoveStep DEF Inv, DeleteBegins
<1>2. stack' = << call >> /\ heap'[n].head \in DOMAIN heap' \cup {NULL}
  BY <1>1, CallFirst DEF DeleteBegins
<1>3. Calls(heap', << call >>)
  <2>1. call \in [node : DOMAIN heap', child : DOMAIN heap' \cup {NULL}]
    BY <1>1, <1>2
  <2>2. << call >> \in Seq([node : DOMAIN heap', child : DOMAIN heap' \cup {NULL}])
    BY <2>1
  <2>3. Len(<< call >>) = 1 /\ << call >>[1] = call
    OBVIOUS
  <2>4. call.node = n /\ call.child = heap'[n].head
    OBVIOUS
  <2> HIDE DEF call
  <2> QED
    BY <1>1, <2>2, <2>3, <2>4 DEF Calls
<1> QED
  BY <1>1, <1>2, <1>3 DEF Inv

(* What the invariant says of the calls of json_delete that are running. *)
LEMMA Running ==
    ASSUME Inv, stack # << >>
    PROVE  /\ stack \in Seq([node : DOMAIN heap, child : DOMAIN heap \cup {NULL}])
           /\ Len(stack) \in Nat /\ Len(stack) # 0 /\ Trees(heap)
           /\ \A k \in 1 .. Len(stack) :
                 /\ stack[k] \in [node : DOMAIN heap, child : DOMAIN heap \cup {NULL}]
                 /\ heap[stack[k].node].parent = NULL
                 /\ stack[k].child = heap[stack[k].node].head
           /\ \A j, k \in 1 .. Len(stack) : stack[j].node = stack[k].node => j = k
<1> DEFINE C == [node : DOMAIN heap, child : DOMAIN heap \cup {NULL}]
<1>1. stack \in Seq(C) /\ Trees(heap)
  BY DEF Inv, Calls
<1>2. /\ \A k \in 1 .. Len(stack) : /\ heap[stack[k].node].parent = NULL
                                     /\ stack[k].child = heap[stack[k].node].head
      /\ \A j, k \in 1 .. Len(stack) : stack[j].node = stack[k].node => j = k
  BY DEF Inv, Calls
<1>3. Len(stack) \in Nat /\ Len(stack) # 0
  <2> HIDE DEF C
  <2> QED
    BY <1>1
<1>4. \A k \in 1 .. Len(stack) : stack[k] \in C
  <2> HIDE DEF C
  <2> QED
    BY <1>1
<1> QED
  BY <1>1, <1>2, <1>3, <1>4

LEMMA ChildStep ==
    ASSUME Inv, DeleteChild
    PROVE  Inv'
<1> USE NullAssumption
<1> DEFINE C == [node : DOMAIN heap, child : DOMAIN heap \cup {NULL}]
           n == Len(stack)
<1>1. /\ stack \in Seq(C) /\ n \in Nat /\ n # 0 /\ Trees(heap)
      /\ \A k \in 1 .. n : /\ stack[k] \in C
                           /\ heap[stack[k].node].parent = NULL
                           /\ stack[k].child = heap[stack[k].node].head
      /\ \A j, k \in 1 .. n : stack[j].node = stack[k].node => j = k
  <2>1. stack # << >>
    BY DEF DeleteChild
  <2> QED
    BY <2>1, Running
<1>2. PICK top \in C : top = stack[1]
  BY <1>1
<1>3. PICK p \in DOMAIN heap : p = top.node
  BY <1>2
<1>4. top = Head(stack) /\ 1 \in 1 .. n
  BY <1>1, <1>2
<1>5. /\ top.child = heap[p].head /\ top.child # NULL
  BY <1>1, <1>2, <1>3, <1>4 DEF DeleteChild
<1>6. PICK c \in DOMAIN heap : c = top.child
  BY <1>2, <1>5
<1>7. heap[c].parent = p /\ heap[c].prev = NULL /\ p # NULL
  <2>1. heap[c].parent = p /\ heap[c].prev = NULL
    BY <1>1, <1>3, <1>5, <1>6, EndsOutside
  <2>2. p # NULL
    BY <1>1, <1>3 DEF Trees, Represents, Heap
  <2> QED
    BY <2>1, <2>2
<1>8. /\ Trees(heap') /\ DOMAIN heap' = DOMAIN heap
      /\ heap'[c].parent = NULL
      /\ \A m \in DOMAIN heap : heap[m].parent = NULL => heap'[m].parent = NULL
      /\ \A m \in DOMAIN heap : m # p => heap'[m].head = heap[m].head
      /\ heap'[p].head = heap[c].next
      /\ heap[c].next \in DOMAIN heap \cup {NULL}
  <2>1. heap' = json_remove_from_parent(heap, c)
    BY <1>4, <1>6 DEF DeleteChild
  <2>2. PICK g : g = json_remove_from_parent(heap, c)
    OBVIOUS
  <2>3. /\ Trees(g) /\ DOMAIN g = DOMAIN heap
        /\ g[c].parent = NULL
        /\ \A m \in DOMAIN heap : heap[m].parent = NULL => g[m].parent = NULL
        /\ \A m \in DOMAIN heap : m # heap[c].parent => g[m].head = heap[m].head
        /\ heap[c].parent # NULL /\ heap[c].prev = NULL =>
             g[heap[c].parent].head = heap[c].next
        /\ heap[c].next \in DOMAIN heap \cup {NULL}
    BY <1>1, <2>2, RemoveStep
  <2> QED
    BY <1>7, <2>1, <2>2, <2>3
<1>9. PICK first \in C : first = [node |-> c, child |-> heap'[c].head]
  BY <1>8, CallFirst
<1>10. PICK second \in C : second = [node |-> p, child |-> heap[c].next]
  BY <1>8
<1>11. stack' = << first, second >> \o Tail(stack)
  <2>1. Call(heap', c) = first
    BY <1>8, <1>9, CallFirst
  <2>2. [top EXCEPT !.child = heap[c].next] = second
    BY <1>2, <1>3, <1>10
  <2> QED
    BY <1>4, <1>6, <2>1, <2>2 DEF DeleteChild
<1>12. /\ stack' \in Seq(C) /\ Len(stack') = n + 1
       /\ stack'[1] = first /\ stack'[2] = second
       /\ \A k \in 3 .. n + 1 : stack'[k] = stack[k - 1] /\ k - 1 \in 2 .. n
  <2> HIDE DEF C
  <2>1. Tail(stack) \in Seq(C) /\ Len(Tail(stack)) = n - 1
    BY <1>1
  <2>2. \A k \in 1 .. n - 1 : Tail(stack)[k] = stack[k + 1]
    BY <1>1
  <2>3. << first, second >> \in Seq(C) /\ Len(<< first, second >>) = 2
    BY <1>9, <1>10
  <2>4. /\ stack' \in Seq(C) /\ Len(stack') = n + 1
        /\ stack'[1] = first /\ stack'[2] = second
    BY <1>1, <1>11, <2>1, <2>3
  <2>5. ASSUME NEW k \in 3 .. n + 1
        PROVE  stack'[k] = stack[k - 1] /\ k - 1 \in 2 .. n
    <3>1. k - 2 \in 1 .. n - 1 /\ k - 1 \in 2 .. n /\ (k - 2) + 1 = k - 1
      BY <1>1
    <3>2. stack'[k] = Tail(stack)[k - 2]
      BY <1>1, <1>11, <2>1, <2>3, <3>1
    <3> QED
      BY <2>2, <3>1, <3>2
  <2> QED
    BY <2>4, <2>5
<1>13. ASSUME NEW k \in 1 .. n + 1
       PROVE  heap'[stack'[k].node].parent = NULL /\ stack'[k].child = heap'[stack'[k].node].head
  <2>1. CASE k = 1
    BY <1>8, <1>9, <1>12, <2>1
  <2>2. CASE k = 2
    BY <1>1, <1>2, <1>3, <1>4, <1>8, <1>10, <1>12, <2>2
  <2>3. CASE k \in 3 .. n + 1
    <3>1. stack'[k] = stack[k - 1] /\ k - 1 \in 1 .. n /\ k - 1 # 1
      BY <1>1, <1>12, <2>3
    <3>2. stack[k - 1].node # p /\ stack[k - 1].node \in DOMAIN heap
      BY <1>1, <1>2, <1>3, <1>4, <3>1
    <3> QED
      BY <1>1, <1>8, <3>1, <3>2
  <2> QED
    BY <1>1, <2>1, <2>2, <2>3
<1>14. ASSUME NEW j \in 1 .. n + 1, NEW k \in 1 .. n + 1,
              stack'[j].node = stack'[k].node
       PROVE  j = k
  <2>1. ASSUME NEW m \in 2 .. n + 1
        PROVE  m - 1 \in 1 .. n /\ stack'[m].node = stack[m - 1].node
    <3>1. CASE m = 2
      BY <1>1, <1>2, <1>3, <1>10, <1>12, <3>1
    <3>2. CASE m \in 3 .. n + 1
      BY <1>1, <1>12, <3>2
    <3> QED
      BY <1>1, <3>1, <3>2
  <2>2. ASSUME NEW m \in 2 .. n + 1
        PROVE  stack'[m].node # c
    BY <1>1, <1>7, <2>1
  <2>3. stack'[1].node = c
    BY <1>9, <1>12
  <2>4. CASE j = 1 \/ k = 1
    BY <1>1, <1>14, <2>2, <2>3, <2>4
  <2>5. CASE j # 1 /\ k # 1
    <3>1. j \in 2 .. n + 1 /\ k \in 2 .. n + 1
      BY <1>1, <2>5
    <3>2. j - 1 = k - 1
      BY <1>1, <1>14, <2>1, <3>1
    <3> QED
      BY <3>1, <3>2
  <2> QED
    BY <2>4, <2>5
<1> QED
  BY <1>8, <1>12, <1>13, <1>14 DEF Inv, Calls

LEMMA FreeStep ==
    ASSUME Inv, DeleteFrees
    PROVE  Inv'
<1> USE NullAssumption
<1> DEFINE C == [node : DOMAIN heap, child : DOMAIN heap \cup {NULL}]
           n == Len(stack)
<1>1. /\ stack \in Seq(C) /\ n \in Nat /\ n # 0 /\ Trees(heap)
      /\ \A k \in 1 .. n : /\ stack[k] \in C
                           /\ heap[stack[k].node].parent = NULL
                           /\ stack[k].child = heap[stack[k].node].head
      /\ \A j, k \in 1 .. n : stack[j].node = stack[k].node => j = k
  <2>1. stack # << >>
    BY DEF DeleteFrees
  <2> QED
    BY <2>1, Running
<1>2. PICK m \in DOMAIN heap : m = Head(stack).node /\ m = stack[1].node
  BY <1>1
<1>3. heap[m].parent = NULL /\ heap[m].head = NULL
  BY <1>1, <1>2 DEF DeleteFrees
<1>4. heap' = [x \in DOMAIN heap \ {m} |-> heap[x]] /\ stack' = Tail(stack)
  BY <1>2 DEF DeleteFrees
<1>5. Trees(heap')
  <2>1. PICK kids : Represents(heap, kids)
    BY <1>1 DEF Trees
  <2> QED
    BY <1>3, <1>4, <2>1, FreeTrees DEF Trees
<1>6. /\ Len(stack') = n - 1 /\ n - 1 \in Nat
      /\ \A k \in 1 .. n - 1 : stack'[k] = stack[k + 1] /\ k + 1 \in 1 .. n /\ k + 1 # 1
  <2> HIDE DEF C
  <2> QED
    BY <1>1, <1>4
<1>7. ASSUME NEW k \in 1 .. n - 1
      PROVE  /\ stack'[k] \in [node : DOMAIN heap', child : DOMAIN heap' \cup {NULL}]
             /\ heap'[stack'[k].node].parent = NULL
             /\ stack'[k].child = heap'[stack'[k].node].head
  <2>1. stack'[k] = stack[k + 1] /\ k + 1 \in 1 .. n /\ k + 1 # 1
    BY <1>6
  <2>2. PICK x \in DOMAIN heap : x = stack[k + 1].node
    BY <1>1, <2>1
  <2>3. x # m
    BY <1>1, <1>2, <2>1, <2>2
  <2>4. heap'[x] = heap[x] /\ x \in DOMAIN heap' /\ DOMAIN heap' = DOMAIN heap \ {m}
    BY <1>4, <2>3
  <2>5. heap[x].head \in DOMAIN heap \cup {NULL} /\ heap[x].head # m
    <3>1. heap[x].head # NULL => heap[heap[x].head].parent = x
      BY <1>1, EndsOutside
    <3>2. heap[x].head \in DOMAIN heap \cup {NULL}
      BY <1>1, EndsOutside
    <3>3. x # NULL /\ m # NULL
      BY <1>1 DEF Trees, Represents, Heap
    <3> QED
      BY <1>3, <3>1, <3>2, <3>3
  <2>6. stack[k + 1].child = heap[x].head /\ heap[x].parent = NULL /\ stack[k + 1] \in C
    BY <1>1, <2>1, <2>2
  <2> QED
    BY <2>1, <2>2, <2>4, <2>5, <2>6
<1>8. stack' \in Seq([node : DOMAIN heap', child : DOMAIN heap' \cup {NULL}])
  <2>1. stack' \in [1 .. n - 1 -> [node : DOMAIN heap', child : DOMAIN heap' \cup {NULL}]]
    <3>1. stack' \in Seq(C)
      <4> HIDE DEF C
      <4> QED
        BY <1>1, <1>4
    <3> HIDE DEF C
    <3> QED
      BY <1>6, <1>7, <3>1
  <2> QED
    BY <1>6, <2>1, FunctionIsSeq
<1>9. ASSUME NEW j \in 1 .. n - 1, NEW k \in 1 .. n - 1,
             stack'[j].node = stack'[k].node
      PROVE  j = k
  <2>1. j + 1 = k + 1
    BY <1>1, <1>6, <1>9
  <2> QED
    BY <2>1
<1> QED
  BY <1>5, <1>6, <1>7, <1>8, <1>9 DEF Inv, Calls

LEMMA StepInv == Inv /\ [Next]_vars => Inv'
<1> USE NullAssumption
<1> SUFFICES ASSUME Inv, [Next]_vars PROVE Inv'
  OBVIOUS
<1>1. ASSUME NEW n \in Node, NEW tag \in Tags, Make(n, tag)
      PROVE  Inv'
  <2>1. PICK kids : Represents(heap, kids)
    BY DEF Inv, Trees
  <2>2. /\ n \in Node \ DOMAIN heap
        /\ heap' = [m \in DOMAIN heap \cup {n} |-> IF m = n THEN mknode(tag) ELSE heap[m]]
    BY <1>1 DEF Make
  <2>3. Represents(heap', [m \in DOMAIN heap \cup {n} |-> IF m = n THEN << >> ELSE kids[m]])
    BY <2>1, <2>2, MakeTrees
  <2>4. Trees(heap')
    BY <2>3, Zenon DEF Trees
  <2> QED
    BY <1>1, <2>4, NoCalls DEF Inv, Make, Idle
<1>2. ASSUME NEW p \in DOMAIN heap, NEW c \in DOMAIN heap, MayPut(p, c)
      PROVE  /\ Trees(heap) /\ p # c /\ heap[c].parent = NULL
             /\ [heap EXCEPT ![c].key = NULL] = heap
             /\ stack = << >>
  <2>1. p # c
    BY <1>2 DEF MayPut, Ancestors
  <2> QED
    BY <1>2, <2>1, InsertKeyless DEF Inv, MayPut, Idle
<1>3. ASSUME NEW p \in DOMAIN heap, NEW c \in DOMAIN heap, json_append_element(p, c)
      PROVE  Inv'
  <2>1. heap' = append_node([heap EXCEPT ![c].key = NULL], p, c)
    BY <1>2, <1>3 DEF json_append_element
  <2>2. Trees(heap')
    BY <1>2, <1>3, <2>1, InsertTrees DEF json_append_element, Containers
  <2> QED
    BY <1>2, <1>3, <2>2, NoCalls DEF Inv, json_append_element
<1>4. ASSUME NEW p \in DOMAIN heap, NEW c \in DOMAIN heap, json_prepend_element(p, c)
      PROVE  Inv'
  <2>1. heap' = prepend_node([heap EXCEPT ![c].key = NULL], p, c)
    BY <1>2, <1>4 DEF json_prepend_element
  <2>2. Trees(heap')
    BY <1>2, <1>4, <2>1, InsertTrees DEF json_prepend_element, Containers
  <2> QED
    BY <1>2, <1>4, <2>2, NoCalls DEF Inv, json_prepend_element
<1>5. ASSUME NEW p \in DOMAIN heap, NEW c \in DOMAIN heap, NEW key \in Key,
             json_append_member(p, key, c)
      PROVE  Inv'
  <2>1. Trees(heap')
    BY <1>2, <1>5, InsertTrees DEF json_append_member, Containers
  <2> QED
    BY <1>2, <1>5, <2>1, NoCalls DEF Inv, json_append_member
<1>6. ASSUME NEW p \in DOMAIN heap, NEW c \in DOMAIN heap, NEW key \in Key,
             json_prepend_member(p, key, c)
      PROVE  Inv'
  <2>1. Trees(heap')
    BY <1>2, <1>6, InsertTrees DEF json_prepend_member, Containers
  <2> QED
    BY <1>2, <1>6, <2>1, NoCalls DEF Inv, json_prepend_member
<1>7. ASSUME NEW n \in DOMAIN heap, Detach(n)
      PROVE  Inv'
  <2>1. Trees(heap')
    BY <1>7, RemoveStep DEF Inv, Detach
  <2> QED
    BY <1>7, <2>1, NoCalls DEF Inv, Detach, Idle
<1>8. CASE UNCHANGED vars
  BY <1>8 DEF vars, Inv
<1> QED
  BY <1>1, <1>3, <1>4, <1>5, <1>6, <1>7, <1>8, BeginStep, ChildStep, FreeStep DEF Next

-----------------------------------------------------------------------------
LEMMA InvAlways == Spec => []Inv
  BY InitInv, StepInv, PTL DEF Spec

(* No pointer of a node, and no call of json_delete, leads to a node that  *)
(* was freed, whatever legal calls are made on however many nodes.         *)
THEOREM PointersCorrect == Spec => []TypeOK
<1>1. Inv => TypeOK
  BY RepresentedTypes DEF Inv, Trees
<1> QED
  BY <1>1, InvAlways, PTL

(* Siblings point at each other and to one parent, whose first and last    *)
(* child are the ends of the list, after every call and in json_delete.    *)
THEOREM LinksCorrect == Spec => []LinksAgree
<1>1. Inv => LinksAgree
  BY RepresentedLinks DEF Inv, Trees
<1> QED
  BY <1>1, InvAlways, PTL

-----------------------------------------------------------------------------
(* The nodes are finitely many, so the walk along the children, which the  *)
(* model bounds by their number, comes to the end of each list.            *)
LEMMA RemovedDomain ==
    ASSUME NEW h, NEW node
    PROVE  DOMAIN json_remove_from_parent(h, node) = DOMAIN h
  BY DEF json_remove_from_parent

LEMMA PutDomain ==
    ASSUME NEW h, NEW p, NEW c, NEW key
    PROVE  /\ DOMAIN append_node(h, p, c) = DOMAIN h
           /\ DOMAIN prepend_node(h, p, c) = DOMAIN h
           /\ DOMAIN [h EXCEPT ![c].key = key] = DOMAIN h
  BY DEF append_node, prepend_node

FiniteHeap == IsFiniteSet(DOMAIN heap)

LEMMA FiniteStep == FiniteHeap /\ [Next]_vars => FiniteHeap'
  <1> SUFFICES ASSUME IsFiniteSet(DOMAIN heap), [Next]_vars
               PROVE  IsFiniteSet(DOMAIN heap')
    BY DEF FiniteHeap
  <1>1. ASSUME NEW n \in Node, NEW tag \in Tags, Make(n, tag)
        PROVE  IsFiniteSet(DOMAIN heap')
    <2>1. DOMAIN heap' = DOMAIN heap \cup {n}
      BY <1>1 DEF Make
    <2> QED
      BY <2>1, FS_AddElement
  <1>2. ASSUME NEW p \in DOMAIN heap, NEW c \in DOMAIN heap,
               \/ json_append_element(p, c)
               \/ json_prepend_element(p, c)
               \/ \E key \in Key : json_append_member(p, key, c)
               \/ \E key \in Key : json_prepend_member(p, key, c)
        PROVE  DOMAIN heap' = DOMAIN heap
    <2>1. CASE json_append_element(p, c) \/ json_prepend_element(p, c)
      BY <2>1, PutDomain DEF json_append_element, json_prepend_element
    <2>2. ASSUME NEW key \in Key,
                 json_append_member(p, key, c) \/ json_prepend_member(p, key, c)
          PROVE  DOMAIN heap' = DOMAIN heap
      BY <2>2, PutDomain DEF json_append_member, json_prepend_member
    <2> QED
      BY <1>2, <2>1, <2>2
  <1>3. ASSUME NEW n \in DOMAIN heap, Detach(n) \/ DeleteBegins(n)
        PROVE  DOMAIN heap' = DOMAIN heap
    BY <1>3, RemovedDomain DEF Detach, DeleteBegins
  <1>4. CASE DeleteChild
    BY <1>4, RemovedDomain DEF DeleteChild
  <1>5. CASE DeleteFrees
    <2>1. DOMAIN heap' = DOMAIN heap \ {Head(stack).node}
      BY <1>5 DEF DeleteFrees
    <2> QED
      BY <2>1, FS_RemoveElement
  <1>6. CASE UNCHANGED vars
    BY <1>6 DEF vars
  <1> QED
    BY <1>1, <1>2, <1>3, <1>4, <1>5, <1>6 DEF Next

LEMMA FiniteAlways == Spec => []FiniteHeap
  <1>1. Init => FiniteHeap
    <2>1. Init => DOMAIN heap = {}
      BY DEF Init
    <2> QED
      BY <2>1, FS_EmptySet, Zenon DEF FiniteHeap
  <1> QED
    BY <1>1, FiniteStep, PTL DEF Spec

LEMMA NoMoreThan ==
    ASSUME NEW D, IsFiniteSet(D), NEW s \in Seq(D),
           \A i, j \in 1 .. Len(s) : s[i] = s[j] => i = j
    PROVE  Len(s) \in Nat /\ Cardinality(D) \in Nat /\ Len(s) <= Cardinality(D)
  <1>1. Len(s) \in Nat /\ Cardinality(D) \in Nat
    <2>1. Cardinality(D) \in Nat
      BY FS_CardinalityType, Zenon
    <2> QED
      BY <2>1
  <1>2. IsFiniteSet(1 .. Len(s)) /\ Cardinality(1 .. Len(s)) = Len(s)
    <2>1. /\ IsFiniteSet(1 .. Len(s))
          /\ Cardinality(1 .. Len(s)) = IF 1 > Len(s) THEN 0 ELSE Len(s) - 1 + 1
      BY <1>1, 1 \in Int, Len(s) \in Int, FS_Interval, Zenon
    <2> QED
      BY <1>1, <2>1
  <1>3. s \in [1 .. Len(s) -> D]
    OBVIOUS
  <1>4. ASSUME Cardinality(D) < Len(s)
        PROVE  FALSE
    <2>1. \E i, j \in 1 .. Len(s) : i # j /\ s[i] = s[j]
      BY <1>2, <1>3, <1>4, FS_PigeonHole
    <2> QED
      BY <2>1
  <1> QED
    BY <1>1, <1>4

(* The walk of Children. *)
Onward(h, w) ==
    IF w = << >> \/ h[w[Len(w)]].next = NULL THEN w
    ELSE Append(w, h[w[Len(w)]].next)

First(h, n) == IF h[n].head = NULL THEN << >> ELSE << h[n].head >>

Walks(h, n, m, w) ==
    w = [k \in 0 .. m |-> IF k = 0 THEN First(h, n) ELSE Onward(h, w[k - 1])]

LEMMA ChildrenWalk ==
    ASSUME NEW h, NEW n
    PROVE  Children(h, n) =
             (CHOOSE w : Walks(h, n, Cardinality(DOMAIN h), w))[Cardinality(DOMAIN h)]
  BY Zenon DEF Children, Walks, First, Onward

Upto(s, k) == SubSeq(s, 1, IF k + 1 <= Len(s) THEN k + 1 ELSE Len(s))

LEMMA UptoIs ==
    ASSUME NEW D, NEW s \in Seq(D), NEW k \in Nat
    PROVE  /\ Len(s) \in Nat
           /\ Upto(s, k) \in Seq(D)
           /\ Len(Upto(s, k)) = IF k + 1 <= Len(s) THEN k + 1 ELSE Len(s)
           /\ \A i \in 1 .. Len(Upto(s, k)) : Upto(s, k)[i] = s[i]
           /\ k + 1 >= Len(s) => Upto(s, k) = s
  <1> DEFINE m == IF k + 1 <= Len(s) THEN k + 1 ELSE Len(s)
  <1>1. m \in Nat /\ Len(s) \in Nat /\ m <= Len(s)
    OBVIOUS
  <1>2. \A i \in 1 .. m : s[i] \in D
    BY <1>1
  <1>3. /\ SubSeq(s, 1, m) \in Seq(D)
        /\ Len(SubSeq(s, 1, m)) = IF 1 <= m THEN m - 1 + 1 ELSE 0
        /\ \A i \in 1 .. m - 1 + 1 : SubSeq(s, 1, m)[i] = s[1 + i - 1]
    <2> HIDE DEF m
    <2> QED
      BY <1>1, <1>2, SubSeqProperties
  <1>4. Upto(s, k) = SubSeq(s, 1, m)
    BY DEF Upto
  <1>5. Len(Upto(s, k)) = m /\ \A i \in 1 .. m : Upto(s, k)[i] = s[i]
    <2> HIDE DEF m
    <2> QED
      BY <1>1, <1>3, <1>4
  <1>6. ASSUME k + 1 >= Len(s)
        PROVE  Upto(s, k) = s
    <2>1. Len(Upto(s, k)) = Len(s)
      BY <1>1, <1>5, <1>6
    <2>2. \A i \in 1 .. Len(s) : Upto(s, k)[i] = s[i]
      BY <1>5, <2>1
    <2>3. Upto(s, k) \in Seq(D)
      BY <1>3, <1>4, Zenon
    <2> QED
      BY <2>1, <2>2, <2>3, SeqEqual
  <1> QED
    BY <1>1, <1>3, <1>4, <1>5, <1>6

LEMMA WalkStarts ==
    ASSUME NEW h, NEW kids, Represents(h, kids), NEW n \in DOMAIN h
    PROVE  First(h, n) = Upto(kids[n], 0)
  <1>1. /\ kids[n] \in Seq(DOMAIN h) /\ Len(kids[n]) \in Nat
        /\ NULL \notin DOMAIN h
    BY NullAssumption DEF Represents, Listed, Heap
  <1>2. /\ Len(Upto(kids[n], 0)) = IF 0 + 1 <= Len(kids[n]) THEN 0 + 1 ELSE Len(kids[n])
        /\ Upto(kids[n], 0) \in Seq(DOMAIN h)
        /\ \A i \in 1 .. Len(Upto(kids[n], 0)) : Upto(kids[n], 0)[i] = kids[n][i]
    BY <1>1, UptoIs
  <1>3. CASE Len(kids[n]) = 0
    <2>1. First(h, n) = << >>
      BY <1>3 DEF First, Represents, Ends
    <2> QED
      BY <1>2, <1>3, <2>1, EmptySeq
  <1>4. CASE Len(kids[n]) # 0
    <2>0. Len(kids[n]) > 0 /\ 1 \in 1 .. Len(kids[n]) /\ Ends(h, kids)
      BY <1>1, <1>4 DEF Represents
    <2>1. h[n].head = kids[n][1] /\ kids[n][1] \in DOMAIN h
      BY <1>1, <2>0 DEF Ends
    <2>2. First(h, n) = << kids[n][1] >>
      BY <1>1, <2>1 DEF First
    <2>3. Len(Upto(kids[n], 0)) = 1 /\ Upto(kids[n], 0)[1] = kids[n][1]
      <3>1. Len(Upto(kids[n], 0)) = 1
        <4>1. \A l, m \in Int : l > 0 /\ m = (IF 0 + 1 <= l THEN 0 + 1 ELSE l) => m = 1
          OBVIOUS
        <4>2. Len(kids[n]) \in Int /\ Len(Upto(kids[n], 0)) \in Int
          BY <1>1, <1>2, LenProperties
        <4> QED
          BY <1>2, <2>0, <4>1, <4>2, Zenon
      <3> QED
        BY <1>2, <3>1
    <2>4. << kids[n][1] >> \in Seq(DOMAIN h) /\ Len(<< kids[n][1] >>) = 1
          /\ << kids[n][1] >>[1] = kids[n][1]
      BY <2>1
    <2>5. << kids[n][1] >> = Upto(kids[n], 0)
      BY <1>2, <2>3, <2>4, SeqEqual
    <2> QED
      BY <2>2, <2>5
  <1> QED
    BY <1>3, <1>4

LEMMA WalkGoesOn ==
    ASSUME NEW h, NEW kids, Represents(h, kids), NEW n \in DOMAIN h, NEW k \in Nat
    PROVE  Onward(h, Upto(kids[n], k)) = Upto(kids[n], k + 1)
  <1> DEFINE s == kids[n]
             u == Upto(s, k)
             v == Upto(s, k + 1)
  <1>1. /\ s \in Seq(DOMAIN h) /\ Len(s) \in Nat /\ NULL \notin DOMAIN h
        /\ \A i \in 1 .. Len(s) : s[i] \in DOMAIN h
    BY NullAssumption DEF Represents, Listed, Heap
  <1>2. /\ Len(u) = (IF k + 1 <= Len(s) THEN k + 1 ELSE Len(s))
        /\ u \in Seq(DOMAIN h)
        /\ \A i \in 1 .. Len(u) : u[i] = s[i]
        /\ k + 1 >= Len(s) => u = s
    <2> HIDE DEF s
    <2> QED
      BY <1>1, UptoIs
  <1>3. /\ Len(v) = (IF k + 2 <= Len(s) THEN k + 2 ELSE Len(s))
        /\ v \in Seq(DOMAIN h)
        /\ \A i \in 1 .. Len(v) : v[i] = s[i]
        /\ k + 2 >= Len(s) => v = s
    <2>1. k + 1 \in Nat /\ k + 1 + 1 = k + 2
      OBVIOUS
    <2> HIDE DEF s
    <2> QED
      BY <1>1, <2>1, UptoIs
  <1>4. \A i \in 1 .. Len(s) : h[s[i]].next = IF i = Len(s) THEN NULL ELSE s[i + 1]
    BY DEF Represents, Linked, After
  <1> HIDE DEF s, u, v
  <1>5. CASE Len(s) <= k + 1
    <2>1. u = s /\ v = s
      BY <1>1, <1>2, <1>3, <1>5
    <2>2. s = << >> \/ Len(s) \in 1 .. Len(s)
      BY <1>1
    <2>3. s = << >> \/ h[s[Len(s)]].next = NULL
      BY <1>4, <2>2
    <2> QED
      BY <2>1, <2>3, Zenon DEF Onward, s, u, v
  <1>6. CASE Len(s) > k + 1
    <2>1. /\ Len(u) = k + 1 /\ k + 1 \in 1 .. Len(s) /\ k + 2 \in 1 .. Len(s)
          /\ k + 1 # Len(s) /\ Len(v) = k + 2 /\ k + 1 \in 1 .. Len(u)
      BY <1>1, <1>2, <1>3, <1>6
    <2>2. u[Len(u)] = s[k + 1] /\ h[s[k + 1]].next = s[k + 2] /\ s[k + 2] \in DOMAIN h
      BY <1>1, <1>2, <1>4, <2>1
    <2>3. u # << >> /\ h[u[Len(u)]].next # NULL
      BY <1>1, <2>1, <2>2
    <2>4. Onward(h, u) = Append(u, s[k + 2])
      BY <2>2, <2>3 DEF Onward
    <2>5. /\ Append(u, s[k + 2]) \in Seq(DOMAIN h)
          /\ Len(Append(u, s[k + 2])) = k + 2
          /\ \A i \in 1 .. k + 1 : Append(u, s[k + 2])[i] = u[i]
          /\ Append(u, s[k + 2])[k + 2] = s[k + 2]
      BY <1>2, <2>1, <2>2, AppendProperties
    <2>6. \A i \in 1 .. k + 2 : Append(u, s[k + 2])[i] = v[i]
      BY <1>2, <1>3, <2>1, <2>5
    <2>7. Append(u, s[k + 2]) = v
      BY <1>3, <2>1, <2>5, <2>6, SeqEqual
    <2> QED
      BY <2>4, <2>7 DEF s, u, v
  <1> QED
    BY <1>1, <1>5, <1>6

(* What json_foreach visits is the sequence the pointers represent. *)
LEMMA ChildrenAre ==
    ASSUME NEW h, NEW kids, Represents(h, kids), IsFiniteSet(DOMAIN h),
           NEW n \in DOMAIN h
    PROVE  Children(h, n) = kids[n]
  <1> DEFINE m == Cardinality(DOMAIN h)
             s == kids[n]
             path == [k \in 0 .. m |-> Upto(s, k)]
  <1>1. s \in Seq(DOMAIN h) /\ \A i, j \in 1 .. Len(s) : s[i] = s[j] => i = j
    BY DEF Represents, Listed
  <1>2. Len(s) \in Nat /\ m \in Nat /\ Len(s) <= m
    <2> HIDE DEF s
    <2> QED
      BY <1>1, NoMoreThan
  <1>3. First(h, n) = Upto(s, 0) /\ \A k \in Nat : Onward(h, Upto(s, k)) = Upto(s, k + 1)
    BY WalkStarts, WalkGoesOn
  <1> HIDE DEF m, s
  <1>4. Walks(h, n, m, path)
    <2>1. ASSUME NEW k \in 0 .. m
          PROVE  path[k] = IF k = 0 THEN First(h, n) ELSE Onward(h, path[k - 1])
      <3>1. CASE k = 0
        BY <1>2, <1>3, <3>1
      <3>2. CASE k # 0
        <4>1. k - 1 \in 0 .. m /\ k - 1 \in Nat /\ (k - 1) + 1 = k
          BY <1>2, <3>2
        <4>2. path[k - 1] = Upto(s, k - 1) /\ path[k] = Upto(s, k)
          BY <4>1
        <4> QED
          BY <1>3, <3>2, <4>1, <4>2
      <3> QED
        BY <3>1, <3>2
    <2>2. path = [k \in 0 .. m |->
                    IF k = 0 THEN First(h, n) ELSE Onward(h, path[k - 1])]
      BY <2>1
    <2> QED
      BY <2>2, Zenon DEF Walks
  <1> HIDE DEF path
  <1>5. PICK w : Walks(h, n, m, w) /\ Children(h, n) = w[m]
    BY <1>4, ChildrenWalk, Zenon DEF m
  <1> DEFINE P == {k \in Nat : k <= m => w[k] = Upto(s, k)}
  <1>6. \A k \in 0 .. m : w[k] = IF k = 0 THEN First(h, n) ELSE Onward(h, w[k - 1])
    <2>1. w = [k \in 0 .. m |->
                 IF k = 0 THEN First(h, n) ELSE Onward(h, w[k - 1])]
      BY <1>5, Zenon DEF Walks
    <2> QED
      BY <2>1
  <1>7. 0 \in P
    <2>1. 0 \in 0 .. m
      BY <1>2
    <2>2. w[0] = First(h, n)
      BY <1>6, <2>1
    <2> QED
      BY <1>3, <2>2
  <1>8. ASSUME NEW k \in Nat, k \in P
        PROVE  k + 1 \in P
    <2>1. ASSUME k + 1 <= m
          PROVE  w[k + 1] = Upto(s, k + 1)
      <3>1. k + 1 \in 0 .. m /\ k + 1 # 0 /\ (k + 1) - 1 = k /\ w[k] = Upto(s, k)
        BY <1>2, <1>8, <2>1
      <3>2. w[k + 1] = Onward(h, w[k])
        BY <1>6, <3>1
      <3> QED
        BY <1>3, <3>1, <3>2
    <2> QED
      BY <2>1
  <1>9. Nat \subseteq P
    <2> HIDE DEF P
    <2> QED
      BY <1>7, <1>8, Induct
  <1>10. w[m] = Upto(s, m)
    BY <1>2, <1>9
  <1>11. Upto(s, m) = s
    <2>1. m + 1 >= Len(s)
      BY <1>2
    <2>2. m + 1 >= Len(s) => Upto(s, m) = s
      BY <1>1, <1>2, UptoIs, Zenon
    <2> QED
      BY <2>1, <2>2
  <1> QED
    BY <1>5, <1>10, <1>11 DEF s

-----------------------------------------------------------------------------
LEMMA RepresentedChecks ==
    ASSUME NEW h, NEW kids, Represents(h, kids), IsFiniteSet(DOMAIN h),
           NEW n \in DOMAIN h
    PROVE  json_check(h, n)
  <1> DEFINE s == kids[n]
  <1>1. Children(h, n) = s
    BY ChildrenAre
  <1>2. /\ s \in Seq(DOMAIN h) /\ Len(s) \in Nat /\ DOMAIN s = 1 .. Len(s)
        /\ NULL \notin DOMAIN h
        /\ \A i \in 1 .. Len(s) : s[i] \in DOMAIN h
        /\ \A i, j \in 1 .. Len(s) : s[i] = s[j] => i = j
    BY NullAssumption DEF Represents, Listed, Heap
  <1>3. \A i \in 1 .. Len(s) : /\ s[i] # n /\ h[s[i]].parent = n
                               /\ h[s[i]].prev = Before(s, i)
                               /\ h[s[i]].next = After(s, i)
                               /\ h[s[i]].key = NULL <=> h[n].tag = "ARRAY"
    BY DEF Represents, Linked
  <1>4. /\ Len(s) = 0 => h[n].head = NULL /\ h[n].tail = NULL
        /\ Len(s) > 0 => h[n].head = s[1] /\ h[n].tail = s[Len(s)]
    BY DEF Represents, Ends
  <1> HIDE DEF s
  <1>5. CASE Len(s) = 0
    BY <1>4, <1>5 DEF json_check
  <1>6. CASE Len(s) > 0
    <2>1. 1 \in 1 .. Len(s) /\ Len(s) \in 1 .. Len(s)
      BY <1>2, <1>6
    <2>2. /\ h[n].head # NULL /\ h[n].tail # NULL
          /\ h[h[n].head].prev = NULL /\ s[Len(s)] = h[n].tail
      BY <1>2, <1>3, <1>4, <1>6, <2>1 DEF Before
    <2>3. ASSUME NEW i \in 1 .. Len(s)
          PROVE  /\ s[i] # n /\ h[s[i]].next # s[i] /\ h[s[i]].next # h[n].head
                 /\ h[s[i]].parent = n
                 /\ h[s[i]].next # NULL => h[h[s[i]].next].prev = s[i]
                 /\ h[n].tag = "ARRAY" => h[s[i]].key = NULL
                 /\ h[n].tag = "OBJECT" => h[s[i]].key # NULL
      <3>1. CASE i = Len(s)
        BY <1>2, <1>3, <2>2, <3>1 DEF After
      <3>2. CASE i # Len(s)
        <4>1. i + 1 \in 1 .. Len(s) /\ i + 1 # i /\ i + 1 # 1
          BY <1>2, <3>2
        <4>2. h[s[i]].next = s[i + 1] /\ s[i + 1] # s[i] /\ s[i + 1] # s[1]
          BY <1>2, <1>3, <2>1, <3>2, <4>1 DEF After
        <4>3. h[s[i + 1]].prev = s[i]
          BY <1>3, <4>1 DEF Before
        <4> QED
          BY <1>3, <1>4, <1>6, <4>2, <4>3
      <3> QED
        BY <3>1, <3>2
    <2> QED
      BY <1>1, <1>2, <2>2, <2>3 DEF json_check
  <1> QED
    BY <1>2, <1>5, <1>6

(* json_check, the library's own test of a tree, accepts every tree the    *)
(* functions of json.c can make, of however many nodes.                    *)
THEOREM CheckCorrect == Spec => []CheckAccepts
  <1>1. Inv /\ FiniteHeap => CheckAccepts
    BY RepresentedChecks DEF FiniteHeap, Inv, Trees, CheckAccepts
  <1> QED
    BY <1>1, InvAlways, FiniteAlways, PTL

-----------------------------------------------------------------------------
(* What is reached from some nodes along edges: the sets that grow along   *)
(* them, as many times as there are nodes, end at the least closed set.    *)
Grown(D, E, S) == S \cup {y \in D : \E x \in S : << x, y >> \in E}
ClosedSet(D, E, S) == \A x \in S, y \in D : << x, y >> \in E => y \in S
Grows(D, E, base, m, w) ==
    /\ w \in [0 .. m -> SUBSET D] /\ w[0] = base
    /\ \A k \in 1 .. m : w[k] = Grown(D, E, w[k - 1])

LEMMA GrowthExists ==
    ASSUME NEW D, NEW E, NEW base \in SUBSET D, NEW m \in Nat
    PROVE  \E w : Grows(D, E, base, m, w)
  <1> DEFINE V == SUBSET D
             step == [p \in (1 .. m) \X V |-> Grown(D, E, p[2])]
  <1>1. \A S \in V : Grown(D, E, S) \in V
    BY DEF Grown
  <1>2. \A i \in 1 .. m, S \in V : step[<< i, S >>] = Grown(D, E, S)
    <2>1. \A i \in 1 .. m, S \in V : << i, S >> \in (1 .. m) \X V /\ << i, S >>[2] = S
      OBVIOUS
    <2> QED
      BY <2>1
  <1>3. step \in [(1 .. m) \X V -> V]
    BY <1>1
  <1> HIDE DEF step, V
  <1>4. base \in V
    BY DEF V
  <1>5. PICK w : Recurs(V, base, m, step, w)
    BY <1>3, <1>4, Recursion
  <1>6. /\ w \in [0 .. m -> V] /\ w[0] = base
        /\ \A i \in 1 .. m : w[i] = step[<< i, w[i - 1] >>]
    BY <1>5 DEF Recurs
  <1>7. \A i \in 1 .. m : w[i] = Grown(D, E, w[i - 1])
    <2>1. ASSUME NEW i \in 1 .. m PROVE w[i] = Grown(D, E, w[i - 1])
      <3>1. i - 1 \in 0 .. m
        OBVIOUS
      <3>2. w[i - 1] \in V
        BY <1>6, <3>1
      <3> QED
        BY <1>2, <1>6, <3>2
    <2> QED
      BY <2>1
  <1> QED
    BY <1>6, <1>7 DEF Grows, V

LEMMA GrowthStops ==
    ASSUME NEW D, IsFiniteSet(D), NEW E, NEW base \in SUBSET D, NEW w,
           Grows(D, E, base, Cardinality(D), w)
    PROVE  Grown(D, E, w[Cardinality(D)]) = w[Cardinality(D)]
  <1> DEFINE m == Cardinality(D)
  <1>1. m \in Nat
    BY FS_CardinalityType, Zenon
  <1>2. /\ \A k \in 0 .. m : w[k] \in SUBSET D
        /\ \A k \in 1 .. m : w[k] = Grown(D, E, w[k - 1])
    BY DEF Grows
  <1>3. \A S \in SUBSET D : S \subseteq Grown(D, E, S) /\ Grown(D, E, S) \in SUBSET D
    BY DEF Grown
  <1>4. \A k \in 0 .. m : IsFiniteSet(w[k]) /\ Cardinality(w[k]) \in Nat
    BY <1>2, FS_Subset, FS_CardinalityType, Zenon
  <1> SUFFICES ASSUME Grown(D, E, w[m]) # w[m]
               PROVE  FALSE
    OBVIOUS
  <1> HIDE DEF m
  <1> DEFINE Q == {k \in Nat : k <= m => Grown(D, E, w[m - k]) # w[m - k]}
  <1>5. Nat \subseteq Q
    <2>1. 0 \in Q
      BY <1>1
    <2>2. ASSUME NEW k \in Nat, k \in Q
          PROVE  k + 1 \in Q
      <3>1. ASSUME k + 1 <= m, Grown(D, E, w[m - (k + 1)]) = w[m - (k + 1)]
            PROVE  FALSE
        <4>1. m - k \in 1 .. m /\ (m - k) - 1 = m - (k + 1) /\ k <= m
          BY <1>1, <3>1
        <4>2. w[m - k] = Grown(D, E, w[m - (k + 1)])
          BY <1>2, <4>1
        <4>3. Grown(D, E, w[m - k]) = w[m - k]
          BY <3>1, <4>2
        <4> QED
          BY <2>2, <4>1, <4>3
      <3> QED
        BY <3>1
    <2> HIDE DEF Q
    <2> QED
      BY <2>1, <2>2, Induct
  <1>6. ASSUME NEW k \in 0 .. m
        PROVE  Grown(D, E, w[k]) # w[k]
    <2>1. m - k \in Nat /\ m - k <= m /\ m - (m - k) = k
      BY <1>1
    <2>2. m - k \in Q
      BY <1>5, <2>1
    <2> QED
      BY <2>1, <2>2
  <1> DEFINE P == {k \in Nat : k <= m => Cardinality(w[k]) >= k}
  <1>7. Nat \subseteq P
    <2>1. 0 \in P
      <3>1. 0 \in 0 .. m
        BY <1>1
      <3>2. Cardinality(w[0]) \in Nat
        BY <1>4, <3>1
      <3> QED
        BY <3>2
    <2>2. ASSUME NEW k \in Nat, k \in P
          PROVE  k + 1 \in P
      <3>1. ASSUME k + 1 <= m
            PROVE  Cardinality(w[k + 1]) >= k + 1
        <4>1. /\ k \in 0 .. m /\ k + 1 \in 0 .. m /\ k + 1 \in 1 .. m
              /\ (k + 1) - 1 = k /\ k <= m
          BY <1>1, <3>1
        <4>2. w[k + 1] = Grown(D, E, w[k]) /\ w[k] \in SUBSET D
          BY <1>2, <4>1
        <4>3. w[k] \in SUBSET w[k + 1] /\ w[k] # w[k + 1]
          BY <1>3, <1>6, <4>1, <4>2
        <4>4. /\ IsFiniteSet(w[k + 1])
              /\ Cardinality(w[k]) \in Nat /\ Cardinality(w[k + 1]) \in Nat
          BY <1>4, <4>1
        <4>5. /\ Cardinality(w[k]) <= Cardinality(w[k + 1])
              /\ Cardinality(w[k + 1]) # Cardinality(w[k])
          BY <4>3, <4>4, FS_Subset, Zenon
        <4>6. Cardinality(w[k]) >= k
          BY <2>2, <4>1
        <4> QED
          BY <4>4, <4>5, <4>6
      <3> QED
        BY <3>1
    <2> HIDE DEF P
    <2> QED
      BY <2>1, <2>2, Induct
  <1>8. m \in P /\ m \in 0 .. m
    BY <1>1, <1>7
  <1>9. Cardinality(w[m]) >= m /\ w[m] \in SUBSET D
    BY <1>1, <1>2, <1>8
  <1>10. Cardinality(w[m]) <= Cardinality(D) /\ (Cardinality(D) = Cardinality(w[m]) => D = w[m])
    BY <1>9, FS_Subset, Zenon
  <1>11. Cardinality(w[m]) \in Nat
    BY <1>4, <1>8
  <1>12. D = w[m]
    BY <1>1, <1>9, <1>10, <1>11 DEF m
  <1>13. Grown(D, E, D) = D
    BY DEF Grown
  <1> QED
    BY <1>6, <1>8, <1>12, <1>13

LEMMA GrowthIsLeast ==
    ASSUME NEW D, IsFiniteSet(D), NEW E, NEW base \in SUBSET D, NEW w,
           Grows(D, E, base, Cardinality(D), w)
    PROVE  LET R == w[Cardinality(D)]
           IN  /\ R \in SUBSET D /\ base \subseteq R /\ ClosedSet(D, E, R)
               /\ \A T \in SUBSET D : base \subseteq T /\ ClosedSet(D, E, T) => R \subseteq T
  <1> DEFINE m == Cardinality(D)
  <1>1. m \in Nat
    BY FS_CardinalityType, Zenon
  <1>2. /\ \A k \in 0 .. m : w[k] \in SUBSET D
        /\ w[0] = base
        /\ \A k \in 1 .. m : w[k] = Grown(D, E, w[k - 1])
    BY DEF Grows
  <1>3. Grown(D, E, w[m]) = w[m]
    BY GrowthStops, Zenon
  <1> HIDE DEF m
  <1>4. m \in 0 .. m
    BY <1>1
  <1>5. ClosedSet(D, E, w[m])
    BY <1>3 DEF ClosedSet, Grown
  <1> DEFINE P == {k \in Nat : k <= m => base \subseteq w[k]}
  <1>6. Nat \subseteq P
    <2>1. 0 \in P
      BY <1>2
    <2>2. ASSUME NEW k \in Nat, k \in P
          PROVE  k + 1 \in P
      <3>1. ASSUME k + 1 <= m
            PROVE  base \subseteq w[k + 1]
        <4>1. k + 1 \in 1 .. m /\ (k + 1) - 1 = k /\ k <= m
          BY <1>1, <3>1
        <4>2. w[k + 1] = Grown(D, E, w[k]) /\ base \subseteq w[k]
          BY <1>2, <2>2, <4>1
        <4> QED
          BY <4>2 DEF Grown
      <3> QED
        BY <3>1
    <2> HIDE DEF P
    <2> QED
      BY <2>1, <2>2, Induct
  <1>7. base \subseteq w[m]
    <2>1. m \in P
      BY <1>1, <1>6
    <2> QED
      BY <1>1, <2>1
  <1>8. ASSUME NEW T \in SUBSET D, base \subseteq T, ClosedSet(D, E, T)
        PROVE  w[m] \subseteq T
    <2> DEFINE Q == {k \in Nat : k <= m => w[k] \subseteq T}
    <2>1. 0 \in Q
      BY <1>2, <1>8
    <2>2. ASSUME NEW k \in Nat, k \in Q
          PROVE  k + 1 \in Q
      <3>1. ASSUME k + 1 <= m
            PROVE  w[k + 1] \subseteq T
        <4>1. k + 1 \in 1 .. m /\ (k + 1) - 1 = k /\ k <= m
          BY <1>1, <3>1
        <4>2. w[k + 1] = Grown(D, E, w[k]) /\ w[k] \subseteq T
          BY <1>2, <2>2, <4>1
        <4> QED
          BY <1>8, <4>2 DEF Grown, ClosedSet
      <3> QED
        BY <3>1
    <2>3. Nat \subseteq Q
      <3> HIDE DEF Q
      <3> QED
        BY <2>1, <2>2, Induct
    <2>4. m \in Q
      BY <1>1, <2>3
    <2> QED
      BY <1>1, <2>4
  <1>9. w[m] \in SUBSET D
    BY <1>2, <1>4
  <1> QED
    BY <1>5, <1>7, <1>8, <1>9, Zenon DEF m

-----------------------------------------------------------------------------
(* Ancestors and Subtree are such sets, along the pointers to the parents  *)
(* and along the sequences of children.                                    *)
Parents(h) == {e \in (DOMAIN h) \X (DOMAIN h) : h[e[1]].parent = e[2]}

LEMMA ParentEdge ==
    ASSUME NEW h, NEW x \in DOMAIN h, NEW y \in DOMAIN h
    PROVE  << x, y >> \in Parents(h) <=> h[x].parent = y
  BY DEF Parents

Ups(h, node, m, u) ==
    u = [k \in 0 .. m |->
            IF k = 0 THEN {h[node].parent} \ {NULL}
            ELSE u[k - 1] \cup ({h[x].parent : x \in u[k - 1]} \ {NULL})]

LEMMA AncestorsUp ==
    ASSUME NEW h, NEW node
    PROVE  Ancestors(h, node) =
             {node} \cup (CHOOSE u : Ups(h, node, Cardinality(DOMAIN h), u))
                                                  [Cardinality(DOMAIN h)]
  BY Zenon DEF Ancestors, Ups

LEMMA AncestorsGrow ==
    ASSUME NEW h, IsFiniteSet(DOMAIN h), NEW node \in DOMAIN h, NULL \notin DOMAIN h,
           \A x \in DOMAIN h : h[x].parent \in DOMAIN h \cup {NULL}
    PROVE  \E w : /\ Grows(DOMAIN h, Parents(h), {h[node].parent} \ {NULL},
                           Cardinality(DOMAIN h), w)
                  /\ Ancestors(h, node) = {node} \cup w[Cardinality(DOMAIN h)]
  <1> DEFINE D == DOMAIN h
             m == Cardinality(DOMAIN h)
             base == {h[node].parent} \ {NULL}
  <1>1. m \in Nat
    BY FS_CardinalityType, Zenon
  <1>2. base \in SUBSET D
    OBVIOUS
  <1>3. PICK w : Grows(D, Parents(h), base, m, w)
    <2> HIDE DEF base, D, m
    <2> QED
      BY <1>1, <1>2, GrowthExists
  <1>4. /\ \A k \in 0 .. m : w[k] \in SUBSET D
        /\ w \in [0 .. m -> SUBSET D] /\ w[0] = base
        /\ \A k \in 1 .. m : w[k] = Grown(D, Parents(h), w[k - 1])
    <2> HIDE DEF base, D, m
    <2> QED
      BY <1>3 DEF Grows
  <1>5. ASSUME NEW S \in SUBSET D
        PROVE  S \cup ({h[x].parent : x \in S} \ {NULL}) = Grown(D, Parents(h), S)
    <2>1. ASSUME NEW y
          PROVE  y \in {h[x].parent : x \in S} \ {NULL}
                   <=> y \in D /\ \E x \in S : << x, y >> \in Parents(h)
      <3>1. \A x \in S : x \in D /\ h[x].parent \in D \cup {NULL}
        OBVIOUS
      <3>2. \A x \in S : y \in D => (<< x, y >> \in Parents(h) <=> h[x].parent = y)
        BY <3>1, ParentEdge
      <3>3. y \in {h[x].parent : x \in S} \ {NULL}
              <=> y # NULL /\ \E x \in S : h[x].parent = y
        OBVIOUS
      <3> QED
        BY <3>1, <3>2, <3>3
    <2> QED
      BY <2>1 DEF Grown
  <1> HIDE DEF m
  <1>6. Ups(h, node, m, w)
    <2>1. ASSUME NEW k \in 0 .. m
          PROVE  w[k] = IF k = 0 THEN base
                        ELSE w[k - 1] \cup ({h[x].parent : x \in w[k - 1]} \ {NULL})
      <3>1. CASE k = 0
        BY <1>4, <3>1
      <3>2. CASE k # 0
        <4>1. k - 1 \in 0 .. m /\ k \in 1 .. m
          BY <1>1, <3>2
        <4> QED
          BY <1>4, <1>5, <3>2, <4>1
      <3> QED
        BY <3>1, <3>2
    <2>2. w = [k \in 0 .. m |-> w[k]]
      BY <1>4
    <2>3. w = [k \in 0 .. m |->
                 IF k = 0 THEN base
                 ELSE w[k - 1] \cup ({h[x].parent : x \in w[k - 1]} \ {NULL})]
      <3> HIDE DEF base, D
      <3> QED
        BY <2>1, <2>2
    <2> QED
      BY <2>3, Zenon DEF Ups
  <1>7. PICK u : Ups(h, node, m, u) /\ Ancestors(h, node) = {node} \cup u[m]
    BY <1>6, AncestorsUp, Zenon DEF m
  <1>8. \A k \in 0 .. m :
          u[k] = IF k = 0 THEN base
                 ELSE u[k - 1] \cup ({h[x].parent : x \in u[k - 1]} \ {NULL})
    <2>1. u = [k \in 0 .. m |->
                 IF k = 0 THEN base
                 ELSE u[k - 1] \cup ({h[x].parent : x \in u[k - 1]} \ {NULL})]
      BY <1>7, Zenon DEF Ups
    <2> HIDE DEF base
    <2> QED
      BY <2>1
  <1> DEFINE P == {k \in Nat : k <= m => u[k] = w[k]}
  <1>9. 0 \in P
    <2>1. 0 \in 0 .. m
      BY <1>1
    <2>2. u[0] = base
      BY <1>8, <2>1
    <2> QED
      BY <1>4, <2>2
  <1>10. ASSUME NEW k \in Nat, k \in P
         PROVE  k + 1 \in P
    <2>1. ASSUME k + 1 <= m
          PROVE  u[k + 1] = w[k + 1]
      <3>1. /\ k + 1 \in 1 .. m /\ k + 1 \in 0 .. m /\ k \in 0 .. m
            /\ (k + 1) - 1 = k /\ k + 1 # 0 /\ u[k] = w[k]
        BY <1>1, <1>10, <2>1
      <3>2. u[k + 1] = w[k] \cup ({h[x].parent : x \in w[k]} \ {NULL})
        BY <1>8, <3>1
      <3>3. w[k + 1] = Grown(D, Parents(h), w[k]) /\ w[k] \in SUBSET D
        BY <1>4, <3>1
      <3> QED
        BY <1>5, <3>2, <3>3
    <2> QED
      BY <2>1
  <1>11. m \in P
    <2> HIDE DEF P
    <2> QED
      BY <1>1, <1>9, <1>10, Induct
  <1>12. u[m] = w[m]
    BY <1>1, <1>11
  <1> QED
    BY <1>3, <1>7, <1>12, Zenon DEF m

AncestorsUpward(h, A) ==
    \A x \in A : h[x].parent # NULL => h[x].parent \in A

LEMMA AncestorsLeast ==
    ASSUME NEW h, IsFiniteSet(DOMAIN h), NEW node \in DOMAIN h, NULL \notin DOMAIN h,
           \A x \in DOMAIN h : h[x].parent \in DOMAIN h \cup {NULL}
    PROVE  /\ Ancestors(h, node) \in SUBSET DOMAIN h /\ node \in Ancestors(h, node)
           /\ AncestorsUpward(h, Ancestors(h, node))
           /\ \A T \in SUBSET DOMAIN h :
                node \in T /\ AncestorsUpward(h, T) => Ancestors(h, node) \subseteq T
  <1> DEFINE D == DOMAIN h
             base == {h[node].parent} \ {NULL}
  <1>1. PICK w : /\ Grows(D, Parents(h), base, Cardinality(D), w)
                 /\ Ancestors(h, node) = {node} \cup w[Cardinality(D)]
    BY AncestorsGrow
  <1>2. base \in SUBSET D
    OBVIOUS
  <1> DEFINE R == w[Cardinality(D)]
  <1>3. /\ R \in SUBSET D /\ base \subseteq R /\ ClosedSet(D, Parents(h), R)
        /\ \A T \in SUBSET D : base \subseteq T /\ ClosedSet(D, Parents(h), T) => R \subseteq T
    <2> HIDE DEF D, base
    <2>1. IsFiniteSet(D)
      BY DEF D
    <2> QED
      BY <1>1, <1>2, <2>1, GrowthIsLeast
  <1> HIDE DEF R
  <1>4. Ancestors(h, node) = {node} \cup R
    BY <1>1 DEF R
  <1>5. ASSUME NEW x \in R, h[x].parent # NULL
        PROVE  h[x].parent \in R
    BY <1>3, <1>5, ParentEdge DEF ClosedSet
  <1>6. AncestorsUpward(h, Ancestors(h, node))
    BY <1>3, <1>4, <1>5 DEF AncestorsUpward
  <1>7. ASSUME NEW T \in SUBSET D, node \in T, AncestorsUpward(h, T)
        PROVE  Ancestors(h, node) \subseteq T
    <2>1. base \subseteq T
      BY <1>7 DEF AncestorsUpward
    <2>2. ClosedSet(D, Parents(h), T)
      BY <1>7, ParentEdge DEF AncestorsUpward, ClosedSet
    <2> QED
      BY <1>3, <1>4, <1>7, <2>1, <2>2
  <1> QED
    BY <1>3, <1>4, <1>6, <1>7

(* A heap that represents its lists is one of those. *)
LEMMA HeapPointers ==
    ASSUME NEW h, NEW kids, Represents(h, kids)
    PROVE  /\ NULL \notin DOMAIN h
           /\ \A x \in DOMAIN h : h[x].parent \in DOMAIN h \cup {NULL}
           /\ \A p \in DOMAIN h : /\ kids[p] \in Seq(DOMAIN h)
                                  /\ Len(kids[p]) \in Nat
                                  /\ DOMAIN kids[p] = 1 .. Len(kids[p])
                                  /\ \A k \in DOMAIN kids[p] :
                                        /\ kids[p][k] \in DOMAIN h
                                        /\ h[kids[p][k]].parent = p
                                  /\ \A j, k \in DOMAIN kids[p] :
                                        kids[p][j] = kids[p][k] => j = k
           /\ \A p, x \in DOMAIN h :
                h[x].parent = p => \E k \in DOMAIN kids[p] : kids[p][k] = x
  <1>1. NULL \notin DOMAIN h /\ \A p \in DOMAIN h : kids[p] \in Seq(DOMAIN h)
    BY NullAssumption DEF Represents, Heap, Listed
  <1>2. \A p \in DOMAIN h : /\ Len(kids[p]) \in Nat
                            /\ DOMAIN kids[p] = 1 .. Len(kids[p])
                            /\ \A k \in DOMAIN kids[p] : kids[p][k] \in DOMAIN h
    BY <1>1
  <1>3. \A x \in DOMAIN h : h[x].parent \in DOMAIN h \cup {NULL}
    BY DEF Represents, Placed
  <1>4. \A p \in DOMAIN h : \A k \in DOMAIN kids[p] : h[kids[p][k]].parent = p
    BY <1>2 DEF Represents, Linked
  <1>5. \A p \in DOMAIN h : \A j, k \in DOMAIN kids[p] : kids[p][j] = kids[p][k] => j = k
    BY <1>2 DEF Represents, Listed
  <1>6. \A p, x \in DOMAIN h :
          h[x].parent = p => \E k \in DOMAIN kids[p] : kids[p][k] = x
    BY <1>1, <1>2 DEF Represents, Placed
  <1> QED
    BY <1>1, <1>2, <1>3, <1>4, <1>5, <1>6

(* The nodes json_delete is to free. *)
DoomedIn(h, s) ==
    {n \in DOMAIN h : \E k \in DOMAIN s : s[k].node \in Ancestors(h, n)}

Downward(h, T) == \A x \in DOMAIN h : h[x].parent \in T => x \in T
Holding(s, T) == \A k \in DOMAIN s : s[k].node \in T

LEMMA DoomedLeast ==
    ASSUME NEW h, NEW kids, Represents(h, kids), IsFiniteSet(DOMAIN h), NEW s,
           \A k \in DOMAIN s : s[k].node \in DOMAIN h
    PROVE  /\ DoomedIn(h, s) \in SUBSET DOMAIN h
           /\ Holding(s, DoomedIn(h, s)) /\ Downward(h, DoomedIn(h, s))
           /\ \A T \in SUBSET DOMAIN h :
                Holding(s, T) /\ Downward(h, T) => DoomedIn(h, s) \subseteq T
  <1> DEFINE D == DOMAIN h
  <1>1. /\ NULL \notin D
        /\ \A x \in D : h[x].parent \in D \cup {NULL}
    BY HeapPointers
  <1>2. \A x \in D : /\ Ancestors(h, x) \in SUBSET D /\ x \in Ancestors(h, x)
                     /\ AncestorsUpward(h, Ancestors(h, x))
                     /\ \A T \in SUBSET D :
                          x \in T /\ AncestorsUpward(h, T) => Ancestors(h, x) \subseteq T
    BY <1>1, AncestorsLeast
  <1>3. Holding(s, DoomedIn(h, s))
    BY <1>2 DEF Holding, DoomedIn
  <1>4. ASSUME NEW x \in D, h[x].parent \in DoomedIn(h, s)
        PROVE  x \in DoomedIn(h, s)
    <2> DEFINE p == h[x].parent
    <2>1. p \in D
      BY <1>4 DEF DoomedIn
    <2>2. PICK k \in DOMAIN s : s[k].node \in Ancestors(h, p)
      BY <1>4 DEF DoomedIn
    <2>3. p \in Ancestors(h, x)
      BY <1>1, <1>2, <2>1 DEF AncestorsUpward
    <2>4. Ancestors(h, p) \subseteq Ancestors(h, x)
      BY <1>2, <2>1, <2>3
    <2> QED
      BY <2>2, <2>4 DEF DoomedIn
  <1>5. ASSUME NEW T \in SUBSET D, Holding(s, T), Downward(h, T),
               NEW x \in DoomedIn(h, s), x \notin T
        PROVE  FALSE
    <2>1. x \in D
      BY DEF DoomedIn
    <2>2. PICK k \in DOMAIN s : s[k].node \in Ancestors(h, x)
      BY DEF DoomedIn
    <2>3. AncestorsUpward(h, D \ T)
      BY <1>1, <1>5 DEF AncestorsUpward, Downward
    <2>4. Ancestors(h, x) \subseteq D \ T
      BY <1>2, <1>5, <2>1, <2>3
    <2> QED
      BY <1>5, <2>2, <2>4 DEF Holding
  <1>6. DoomedIn(h, s) \in SUBSET D
    BY DEF DoomedIn
  <1> QED
    BY <1>3, <1>4, <1>5, <1>6 DEF Downward

-----------------------------------------------------------------------------
(* The operators of JsonForest, of a forest that is given. *)
ChildrenOf(f, n) == {f[n].kids[k] : k \in DOMAIN f[n].kids}

SubtreeOf(f, n) ==
    LET down[k \in 0 .. Cardinality(DOMAIN f)] ==
          IF k = 0 THEN {n}
          ELSE down[k - 1] \cup UNION {ChildrenOf(f, m) : m \in down[k - 1]}
    IN  down[Cardinality(DOMAIN f)]

DetachedOf(f, n) ==
    [m \in DOMAIN f |->
        IF m = n THEN [f[m] EXCEPT !.key = NULL]
        ELSE [f[m] EXCEPT !.kids = RemoveFirst(@, n)]]

KidEdges(f) == {e \in (DOMAIN f) \X (DOMAIN f) : e[2] \in ChildrenOf(f, e[1])}

LEMMA KidEdge ==
    ASSUME NEW f, NEW x \in DOMAIN f, NEW y \in DOMAIN f
    PROVE  << x, y >> \in KidEdges(f) <=> y \in ChildrenOf(f, x)
  BY DEF KidEdges

Downs(f, n, m, u) ==
    u = [k \in 0 .. m |->
            IF k = 0 THEN {n}
            ELSE u[k - 1] \cup UNION {ChildrenOf(f, x) : x \in u[k - 1]}]

LEMMA SubtreeDown ==
    ASSUME NEW f, NEW n
    PROVE  SubtreeOf(f, n) =
             (CHOOSE u : Downs(f, n, Cardinality(DOMAIN f), u))[Cardinality(DOMAIN f)]
  BY Zenon DEF SubtreeOf, Downs

LEMMA SubtreeGrows ==
    ASSUME NEW f, IsFiniteSet(DOMAIN f), NEW n \in DOMAIN f,
           \A x \in DOMAIN f : ChildrenOf(f, x) \in SUBSET DOMAIN f
    PROVE  \E w : /\ Grows(DOMAIN f, KidEdges(f), {n}, Cardinality(DOMAIN f), w)
                  /\ SubtreeOf(f, n) = w[Cardinality(DOMAIN f)]
  <1> DEFINE D == DOMAIN f
             m == Cardinality(DOMAIN f)
             base == {n}
  <1>1. m \in Nat
    BY FS_CardinalityType, Zenon
  <1>2. base \in SUBSET D
    OBVIOUS
  <1>3. PICK w : Grows(D, KidEdges(f), base, m, w)
    <2> HIDE DEF base, D, m
    <2> QED
      BY <1>1, <1>2, GrowthExists
  <1>4. /\ \A k \in 0 .. m : w[k] \in SUBSET D
        /\ w \in [0 .. m -> SUBSET D] /\ w[0] = base
        /\ \A k \in 1 .. m : w[k] = Grown(D, KidEdges(f), w[k - 1])
    <2> HIDE DEF base, D, m
    <2> QED
      BY <1>3 DEF Grows
  <1>5. ASSUME NEW S \in SUBSET D
        PROVE  S \cup UNION {ChildrenOf(f, x) : x \in S} = Grown(D, KidEdges(f), S)
    <2>1. ASSUME NEW y
          PROVE  y \in UNION {ChildrenOf(f, x) : x \in S}
                   <=> y \in D /\ \E x \in S : << x, y >> \in KidEdges(f)
      <3>1. \A x \in S : x \in D /\ ChildrenOf(f, x) \in SUBSET D
        OBVIOUS
      <3>2. \A x \in S : y \in D => (<< x, y >> \in KidEdges(f) <=> y \in ChildrenOf(f, x))
        BY <3>1, KidEdge
      <3>3. y \in UNION {ChildrenOf(f, x) : x \in S} <=> \E x \in S : y \in ChildrenOf(f, x)
        OBVIOUS
      <3> QED
        BY <3>1, <3>2, <3>3
    <2> QED
      BY <2>1 DEF Grown
  <1> HIDE DEF m
  <1>6. Downs(f, n, m, w)
    <2>1. ASSUME NEW k \in 0 .. m
          PROVE  w[k] = IF k = 0 THEN base
                        ELSE w[k - 1] \cup UNION {ChildrenOf(f, x) : x \in w[k - 1]}
      <3>1. CASE k = 0
        BY <1>4, <3>1
      <3>2. CASE k # 0
        <4>1. k - 1 \in 0 .. m /\ k \in 1 .. m
          BY <1>1, <3>2
        <4> QED
          BY <1>4, <1>5, <3>2, <4>1
      <3> QED
        BY <3>1, <3>2
    <2>2. w = [k \in 0 .. m |-> w[k]]
      BY <1>4
    <2>3. w = [k \in 0 .. m |->
                 IF k = 0 THEN base
                 ELSE w[k - 1] \cup UNION {ChildrenOf(f, x) : x \in w[k - 1]}]
      <3> HIDE DEF base, D
      <3> QED
        BY <2>1, <2>2
    <2> QED
      BY <2>3, Zenon DEF Downs
  <1>7. PICK u : Downs(f, n, m, u) /\ SubtreeOf(f, n) = u[m]
    BY <1>6, SubtreeDown, Zenon DEF m
  <1>8. \A k \in 0 .. m :
          u[k] = IF k = 0 THEN base
                 ELSE u[k - 1] \cup UNION {ChildrenOf(f, x) : x \in u[k - 1]}
    <2>1. u = [k \in 0 .. m |->
                 IF k = 0 THEN base
                 ELSE u[k - 1] \cup UNION {ChildrenOf(f, x) : x \in u[k - 1]}]
      BY <1>7, Zenon DEF Downs
    <2> HIDE DEF base
    <2> QED
      BY <2>1
  <1> DEFINE P == {k \in Nat : k <= m => u[k] = w[k]}
  <1>9. 0 \in P
    <2>1. 0 \in 0 .. m
      BY <1>1
    <2>2. u[0] = base
      BY <1>8, <2>1
    <2> QED
      BY <1>4, <2>2
  <1>10. ASSUME NEW k \in Nat, k \in P
         PROVE  k + 1 \in P
    <2>1. ASSUME k + 1 <= m
          PROVE  u[k + 1] = w[k + 1]
      <3>1. /\ k + 1 \in 1 .. m /\ k + 1 \in 0 .. m /\ k \in 0 .. m
            /\ (k + 1) - 1 = k /\ k + 1 # 0 /\ u[k] = w[k]
        BY <1>1, <1>10, <2>1
      <3>2. u[k + 1] = w[k] \cup UNION {ChildrenOf(f, x) : x \in w[k]}
        BY <1>8, <3>1
      <3>3. w[k + 1] = Grown(D, KidEdges(f), w[k]) /\ w[k] \in SUBSET D
        BY <1>4, <3>1
      <3> QED
        BY <1>5, <3>2, <3>3
    <2> QED
      BY <2>1
  <1>11. m \in P
    <2> HIDE DEF P
    <2> QED
      BY <1>1, <1>9, <1>10, Induct
  <1>12. u[m] = w[m]
    BY <1>1, <1>11
  <1> QED
    BY <1>3, <1>7, <1>12, Zenon DEF m

KidsInside(f, T) == \A x \in T : ChildrenOf(f, x) \subseteq T

LEMMA SubtreeLeast ==
    ASSUME NEW f, IsFiniteSet(DOMAIN f), NEW n \in DOMAIN f,
           \A x \in DOMAIN f : ChildrenOf(f, x) \in SUBSET DOMAIN f
    PROVE  /\ SubtreeOf(f, n) \in SUBSET DOMAIN f /\ n \in SubtreeOf(f, n)
           /\ KidsInside(f, SubtreeOf(f, n))
           /\ \A T \in SUBSET DOMAIN f :
                n \in T /\ KidsInside(f, T) => SubtreeOf(f, n) \subseteq T
  <1> DEFINE D == DOMAIN f
             base == {n}
             R == SubtreeOf(f, n)
  <1>1. PICK w : /\ Grows(D, KidEdges(f), base, Cardinality(D), w)
                 /\ R = w[Cardinality(D)]
    BY SubtreeGrows
  <1>2. base \in SUBSET D
    OBVIOUS
  <1>3. /\ R \in SUBSET D /\ base \subseteq R /\ ClosedSet(D, KidEdges(f), R)
        /\ \A T \in SUBSET D : base \subseteq T /\ ClosedSet(D, KidEdges(f), T) => R \subseteq T
    <2> HIDE DEF D, base, R
    <2>1. IsFiniteSet(D)
      BY DEF D
    <2> QED
      BY <1>1, <1>2, <2>1, GrowthIsLeast
  <1> HIDE DEF R
  <1>4. ASSUME NEW T \in SUBSET D
        PROVE  ClosedSet(D, KidEdges(f), T) <=> KidsInside(f, T)
    <2>1. \A x \in T, y \in D : << x, y >> \in KidEdges(f) <=> y \in ChildrenOf(f, x)
      BY KidEdge
    <2>2. \A x \in T : ChildrenOf(f, x) \in SUBSET D
      OBVIOUS
    <2>3. ClosedSet(D, KidEdges(f), T) => KidsInside(f, T)
      <3> SUFFICES ASSUME ClosedSet(D, KidEdges(f), T),
                          NEW x \in T, NEW y \in ChildrenOf(f, x)
                   PROVE  y \in T
        BY DEF KidsInside
      <3>1. y \in D
        BY <2>2
      <3> QED
        BY <2>1, <3>1 DEF ClosedSet
    <2>4. KidsInside(f, T) => ClosedSet(D, KidEdges(f), T)
      BY <2>1, Zenon DEF ClosedSet, KidsInside
    <2> QED
      BY <2>3, <2>4
  <1>5. {n} \subseteq R <=> n \in R
    OBVIOUS
  <1>6. \A T \in SUBSET D : {n} \subseteq T <=> n \in T
    OBVIOUS
  <1>7. KidsInside(f, R)
    BY <1>3, <1>4
  <1> QED
    BY <1>3, <1>4, <1>5, <1>6, <1>7, Zenon DEF R
-----------------------------------------------------------------------------
(* The forest that a heap with its lists shows to who looks past X. *)
Shown(h, kids, n) == [tag |-> h[n].tag, key |-> h[n].key, kids |-> kids[n]]
View(h, kids, X) == [n \in DOMAIN h \ X |-> Shown(h, kids, n)]

LEMMA ViewIs ==
    ASSUME NEW h, NEW kids, NEW X
    PROVE  /\ DOMAIN View(h, kids, X) = DOMAIN h \ X
           /\ \A n \in DOMAIN h \ X :
                /\ View(h, kids, X)[n] = Shown(h, kids, n)
                /\ View(h, kids, X)[n].tag = h[n].tag
                /\ View(h, kids, X)[n].key = h[n].key
                /\ View(h, kids, X)[n].kids = kids[n]
  BY DEF View, Shown

LEMMA ViewChildren ==
    ASSUME NEW h, NEW kids, Represents(h, kids)
    PROVE  LET f == View(h, kids, {})
           IN  /\ DOMAIN f = DOMAIN h
               /\ \A p \in DOMAIN h : ChildrenOf(f, p) \in SUBSET DOMAIN f
               /\ \A p, x \in DOMAIN h : x \in ChildrenOf(f, p) <=> h[x].parent = p
  <1> DEFINE f == View(h, kids, {})
  <1>1. DOMAIN f = DOMAIN h /\ \A p \in DOMAIN h : f[p].kids = kids[p]
    BY DEF View, Shown
  <1> HIDE DEF f
  <1>2. \A p \in DOMAIN h : ChildrenOf(f, p) = {kids[p][k] : k \in DOMAIN kids[p]}
    BY <1>1 DEF ChildrenOf
  <1>3. \A p \in DOMAIN h : \A k \in DOMAIN kids[p] :
           kids[p][k] \in DOMAIN h /\ h[kids[p][k]].parent = p
    BY HeapPointers
  <1>4. \A p, x \in DOMAIN h :
           h[x].parent = p => \E k \in DOMAIN kids[p] : kids[p][k] = x
    BY HeapPointers
  <1> QED
    BY <1>1, <1>2, <1>3, <1>4 DEF f

(* The subtree of a node is what has the node among its ancestors. *)
LEMMA SubtreeIs ==
    ASSUME NEW h, NEW kids, Represents(h, kids), IsFiniteSet(DOMAIN h),
           NEW n \in DOMAIN h
    PROVE  LET R == SubtreeOf(View(h, kids, {}), n)
           IN  /\ R \in SUBSET DOMAIN h /\ n \in R /\ Downward(h, R)
               /\ \A T \in SUBSET DOMAIN h :
                    n \in T /\ Downward(h, T) => R \subseteq T
  <1> DEFINE f == View(h, kids, {})
             R == SubtreeOf(f, n)
  <1>1. /\ DOMAIN f = DOMAIN h
        /\ \A p \in DOMAIN h : ChildrenOf(f, p) \in SUBSET DOMAIN f
        /\ \A p, x \in DOMAIN h : x \in ChildrenOf(f, p) <=> h[x].parent = p
    BY ViewChildren
  <1> HIDE DEF f
  <1>2. /\ R \in SUBSET DOMAIN f /\ n \in R /\ KidsInside(f, R)
        /\ \A T \in SUBSET DOMAIN f : n \in T /\ KidsInside(f, T) => R \subseteq T
    BY <1>1, SubtreeLeast
  <1> HIDE DEF R
  <1>3. \A T \in SUBSET DOMAIN h : KidsInside(f, T) <=> Downward(h, T)
    BY <1>1 DEF KidsInside, Downward
  <1> QED
    BY <1>1, <1>2, <1>3 DEF R, f

-----------------------------------------------------------------------------
(* What the steps do to the sequences, as JsonForest has them. *)
LEMMA RemovesFirst ==
    ASSUME NEW S, NEW s \in Seq(S), NEW e, NEW i \in 1 .. Len(s), s[i] = e,
           \A j, k \in 1 .. Len(s) : s[j] = s[k] => j = k
    PROVE  RemoveFirst(s, e) = Without(s, i)
  <1>1. Len(s) \in Nat /\ \A k \in 1 .. Len(s) : s[k] \in S
    OBVIOUS
  <1>2. SelectInSeq(s, LAMBDA v : v = e) = i
    <2>1. {j \in 1 .. Len(s) : s[j] = e} = {i}
      BY <1>1
    <2>2. Min({i}) = i
      BY DEF Min
    <2> QED
      BY <2>1, <2>2, Zenon DEF SelectInSeq
  <1>3. RemoveFirst(s, e) = RemoveAt(s, i)
    BY <1>2, Zenon DEF RemoveFirst
  <1> DEFINE a == SubSeq(s, 1, i - 1)
             b == SubSeq(s, i + 1, Len(s))
             u == Without(s, i)
             n == Len(s)
  <1>4. /\ a \in Seq(S) /\ Len(a) = i - 1
        /\ \A k \in 1 .. i - 1 : a[k] = s[k]
    <2>1. 1 \in Int /\ i - 1 \in Int /\ \A k \in 1 .. i - 1 : s[k] \in S
      BY <1>1
    <2>2. /\ a \in Seq(S)
          /\ Len(a) = IF 1 <= i - 1 THEN (i - 1) - 1 + 1 ELSE 0
          /\ \A k \in 1 .. (i - 1) - 1 + 1 : a[k] = s[1 + k - 1]
      <3> DEFINE e1 == i - 1
      <3>1. /\ SubSeq(s, 1, e1) \in Seq(S)
            /\ Len(SubSeq(s, 1, e1)) = IF 1 <= e1 THEN e1 - 1 + 1 ELSE 0
            /\ \A k \in 1 .. e1 - 1 + 1 : SubSeq(s, 1, e1)[k] = s[1 + k - 1]
        <4>1. e1 \in Int /\ \A k \in 1 .. e1 : s[k] \in S
          BY <2>1
        <4> HIDE DEF e1
        <4> QED
          BY <2>1, <4>1, SubSeqProperties
      <3> QED
        BY <3>1
    <2> HIDE DEF a
    <2> QED
      BY <1>1, <2>2
  <1>5. /\ b \in Seq(S) /\ Len(b) = n - i
        /\ \A k \in 1 .. n - i : b[k] = s[i + k]
    <2>1. n \in Int /\ i + 1 \in Int /\ \A k \in i + 1 .. n : s[k] \in S
      BY <1>1
    <2>2. /\ b \in Seq(S)
          /\ Len(b) = IF i + 1 <= n THEN n - (i + 1) + 1 ELSE 0
          /\ \A k \in 1 .. n - (i + 1) + 1 : b[k] = s[i + 1 + k - 1]
      <3> DEFINE e1 == i + 1
      <3>1. /\ SubSeq(s, e1, n) \in Seq(S)
            /\ Len(SubSeq(s, e1, n)) = IF e1 <= n THEN n - e1 + 1 ELSE 0
            /\ \A k \in 1 .. n - e1 + 1 : SubSeq(s, e1, n)[k] = s[e1 + k - 1]
        <4>1. e1 \in Int /\ \A k \in e1 .. n : s[k] \in S
          BY <2>1
        <4> HIDE DEF e1, n
        <4> QED
          BY <2>1, <4>1, SubSeqProperties
      <3> QED
        BY <3>1
    <2> HIDE DEF b
    <2>3. Len(b) = n - i
      BY <1>1, <2>2
    <2>4. \A k \in 1 .. n - i : b[k] = s[i + k]
      BY <1>1, <2>2
    <2> QED
      BY <2>2, <2>3, <2>4
  <1>6. /\ u \in Seq(S) /\ Len(u) = n - 1
        /\ \A k \in 1 .. n - 1 : u[k] = s[IF k < i THEN k ELSE k + 1]
    <2>1. n - 1 \in Nat
      BY <1>1
    <2>2. \A k \in 1 .. n - 1 : (IF k < i THEN k ELSE k + 1) \in 1 .. n
      BY <1>1
    <2>3. u \in [1 .. n - 1 -> S]
      BY <1>1, <2>2 DEF Without
    <2>4. u \in Seq(S) /\ Len(u) = n - 1
      <3> HIDE DEF u, n
      <3> QED
        BY <2>1, <2>3, FunctionIsSeq
    <2> QED
      BY <2>4 DEF Without
  <1> HIDE DEF a, b, u, n
  <1>7. n \in Nat /\ i \in 1 .. n
    BY <1>1 DEF n
  <1>8. Len(u) = Len(a) + Len(b)
    BY <1>4, <1>5, <1>6, <1>7
  <1>9. \A k \in 1 .. Len(a) : u[k] = a[k]
    BY <1>4, <1>6, <1>7
  <1>10. \A k \in 1 .. Len(b) : u[Len(a) + k] = b[k]
    <2>1. ASSUME NEW k \in 1 .. n - i
          PROVE  u[i - 1 + k] = b[k]
      <3>1. i - 1 + k \in 1 .. n - 1 /\ ~ (i - 1 + k < i) /\ i - 1 + k + 1 = i + k
        BY <1>7
      <3> QED
        BY <1>5, <1>6, <3>1
    <2> QED
      BY <1>4, <1>5, <2>1
  <1>11. a \o b = u
    BY <1>4, <1>5, <1>6, <1>8, <1>9, <1>10, ConcatIs
  <1> QED
    BY <1>3, <1>11, Zenon DEF RemoveAt, a, b, u

LEMMA RemovesNone ==
    ASSUME NEW s, NEW e, \A k \in 1 .. Len(s) : s[k] # e
    PROVE  RemoveFirst(s, e) = s
  BY Zenon DEF RemoveFirst

LEMMA ConsIs ==
    ASSUME NEW S, NEW c \in S, NEW s \in Seq(S)
    PROVE  << c >> \o s = Cons1(c, s)
  <1> DEFINE u == Cons1(c, s)
             n == Len(s)
  <1>1. n \in Nat /\ \A k \in 1 .. n : s[k] \in S
    OBVIOUS
  <1>2. u \in [1 .. n + 1 -> S]
    BY <1>1 DEF Cons1
  <1>3. \A k \in 1 .. n + 1 : u[k] = IF k = 1 THEN c ELSE s[k - 1]
    BY DEF Cons1
  <1> HIDE DEF u
  <1>4. u \in Seq(S) /\ Len(u) = n + 1
    <2>1. n + 1 \in Nat
      BY <1>1
    <2> HIDE DEF n
    <2> QED
      BY <1>2, <2>1, FunctionIsSeq
  <1>5. << c >> \in Seq(S) /\ Len(<< c >>) = 1 /\ << c >>[1] = c
    OBVIOUS
  <1>6. Len(u) = Len(<< c >>) + Len(s)
    BY <1>1, <1>4, <1>5
  <1>7. \A k \in 1 .. Len(<< c >>) : u[k] = << c >>[k]
    BY <1>1, <1>3, <1>5
  <1>8. \A k \in 1 .. Len(s) : u[Len(<< c >>) + k] = s[k]
    BY <1>1, <1>3, <1>5
  <1> QED
    BY <1>4, <1>5, <1>6, <1>7, <1>8, ConcatIs, Zenon DEF u

-----------------------------------------------------------------------------
(* What each step shows of the forest. *)
WithNode(h, n, tag) == [m \in DOMAIN h \cup {n} |-> IF m = n THEN mknode(tag) ELSE h[m]]
WithNoKids(kids, D, n) == [m \in D \cup {n} |-> IF m = n THEN << >> ELSE kids[m]]
WithTree(f, n, tag) ==
    [m \in DOMAIN f \cup {n} |->
        IF m = n THEN [tag |-> tag, key |-> NULL, kids |-> << >>] ELSE f[m]]

LEMMA MakeKids ==
    ASSUME NEW h, NEW kids, Represents(h, kids), NEW n \in Node \ DOMAIN h, NEW tag \in Tags
    PROVE  Represents(WithNode(h, n, tag), WithNoKids(kids, DOMAIN h, n))
  BY MakeTrees DEF WithNode, WithNoKids

LEMMA MakeView ==
    ASSUME NEW h, NEW kids, NEW n, n \notin DOMAIN h, NEW tag
    PROVE  View(WithNode(h, n, tag), WithNoKids(kids, DOMAIN h, n), {})
             = WithTree(View(h, kids, {}), n, tag)
  <1> DEFINE g == [m \in DOMAIN h \cup {n} |-> IF m = n THEN mknode(tag) ELSE h[m]]
             k2 == [m \in DOMAIN h \cup {n} |-> IF m = n THEN << >> ELSE kids[m]]
             f == View(h, kids, {})
  <1>1. DOMAIN f = DOMAIN h /\ \A m \in DOMAIN h : f[m] = Shown(h, kids, m)
    BY DEF View
  <1>2. DOMAIN g = DOMAIN h \cup {n}
    OBVIOUS
  <1>3. Shown(g, k2, n) = [tag |-> tag, key |-> NULL, kids |-> << >>]
    BY DEF Shown, mknode
  <1>4. \A m \in DOMAIN h : Shown(g, k2, m) = Shown(h, kids, m)
    BY DEF Shown
  <1> HIDE DEF g, k2, f
  <1>5. View(g, k2, {}) = [m \in DOMAIN h \cup {n} |-> Shown(g, k2, m)]
    BY <1>2 DEF View
  <1>6. View(g, k2, {}) = [m \in DOMAIN f \cup {n} |->
                             IF m = n THEN [tag |-> tag, key |-> NULL, kids |-> << >>]
                             ELSE f[m]]
    BY <1>1, <1>3, <1>4, <1>5
  <1> QED
    BY <1>6, Zenon DEF g, k2, f, WithNode, WithNoKids, WithTree

Rekeyed(h, g, c, key) ==
    /\ DOMAIN g = DOMAIN h
    /\ \A n \in DOMAIN h : /\ g[n].tag = h[n].tag
                           /\ g[n].key = IF n = c THEN key ELSE h[n].key

WithChild(f, p, c, key, s) == [f EXCEPT ![c].key = key, ![p].kids = s]

LEMMA InsertView ==
    ASSUME NEW h, NEW kids, Represents(h, kids), NEW p \in DOMAIN h,
           NEW c \in DOMAIN h, p # c, NEW key, NEW s, NEW g, Rekeyed(h, g, c, key)
    PROVE  View(g, [kids EXCEPT ![p] = s], {})
             = WithChild(View(h, kids, {}), p, c, key, s)
  <1>0. /\ DOMAIN g = DOMAIN h
        /\ \A n \in DOMAIN h : /\ g[n].tag = h[n].tag
                               /\ g[n].key = IF n = c THEN key ELSE h[n].key
    BY DEF Rekeyed
  <1> DEFINE f == View(h, kids, {})
             k2 == [kids EXCEPT ![p] = s]
             r == [f EXCEPT ![c].key = key, ![p].kids = s]
  <1>1. DOMAIN f = DOMAIN h /\ \A n \in DOMAIN h : f[n] = Shown(h, kids, n)
    BY DEF View
  <1>2. DOMAIN kids = DOMAIN h
    BY DEF Represents, Listed
  <1>3. k2[p] = s /\ \A n \in DOMAIN h : n # p => k2[n] = kids[n]
    BY <1>2
  <1> HIDE DEF f, k2
  <1>4. /\ DOMAIN r = DOMAIN h
        /\ r[p] = [f[p] EXCEPT !.kids = s]
        /\ r[c] = [f[c] EXCEPT !.key = key]
        /\ \A n \in DOMAIN h : n # p /\ n # c => r[n] = f[n]
    BY <1>1
  <1>5. ASSUME NEW n \in DOMAIN h
        PROVE  Shown(g, k2, n) = r[n]
    <2>1. f[n] = [tag |-> h[n].tag, key |-> h[n].key, kids |-> kids[n]]
      BY <1>1 DEF Shown
    <2>2. Shown(g, k2, n) = [tag |-> h[n].tag, key |-> g[n].key, kids |-> k2[n]]
      BY <1>0 DEF Shown
    <2>3. CASE n = p
      <3>1. r[n] = [tag |-> h[n].tag, key |-> h[n].key, kids |-> s]
        BY <1>4, <2>1, <2>3
      <3> QED
        BY <1>0, <1>3, <2>2, <2>3, <3>1
    <2>4. CASE n = c
      <3>1. r[n] = [tag |-> h[n].tag, key |-> key, kids |-> kids[n]]
        BY <1>4, <2>1, <2>4
      <3> QED
        BY <1>0, <1>3, <2>2, <2>4, <3>1
    <2>5. CASE n # p /\ n # c
      BY <1>0, <1>3, <1>4, <2>1, <2>2, <2>5
    <2> QED
      BY <2>3, <2>4, <2>5
  <1>6. View(g, k2, {}) = [n \in DOMAIN h |-> Shown(g, k2, n)]
    BY <1>0 DEF View
  <1>7. r = [n \in DOMAIN h |-> r[n]]
    BY <1>4, <1>1
  <1> HIDE DEF r
  <1>8. View(g, k2, {}) = r
    BY <1>5, <1>6, <1>7
  <1> QED
    BY <1>8 DEF r, f, k2, WithChild

LEMMA DetachRoot ==
    ASSUME NEW h, NEW kids, Represents(h, kids), NEW c \in DOMAIN h,
           h[c].parent = NULL
    PROVE  View(h, kids, {}) = DetachedOf(View(h, kids, {}), c)
  <1> DEFINE f == View(h, kids, {})
  <1>1. /\ DOMAIN f = DOMAIN h /\ \A n \in DOMAIN h : f[n] = Shown(h, kids, n)
        /\ f = [n \in DOMAIN h |-> Shown(h, kids, n)]
    BY DEF View
  <1> HIDE DEF f
  <1>2. h[c].key = NULL
    BY DEF Represents, Placed
  <1>3. [f[c] EXCEPT !.key = NULL] = f[c]
    BY <1>1, <1>2 DEF Shown
  <1>4. ASSUME NEW n \in DOMAIN h
        PROVE  [f[n] EXCEPT !.kids = RemoveFirst(@, c)] = f[n]
    <2>1. f[n].kids = kids[n]
      BY <1>1 DEF Shown
    <2>2. \A k \in 1 .. Len(kids[n]) : kids[n][k] # c
      BY HeapPointers
    <2>3. RemoveFirst(f[n].kids, c) = f[n].kids
      BY <2>1, <2>2, RemovesNone
    <2> QED
      BY <1>1, <2>3, Zenon DEF Shown
  <1> QED
    BY <1>1, <1>3, <1>4 DEF DetachedOf, f

LEMMA DetachView ==
    ASSUME NEW h, NEW kids, Represents(h, kids), NEW c \in DOMAIN h,
           NEW p \in DOMAIN h, h[c].parent = p, NEW g, RemovedFrom(h, g, p, c),
           NEW i \in 1 .. Len(kids[p]), kids[p][i] = c
    PROVE  View(g, [kids EXCEPT ![p] = Without(kids[p], i)], {})
             = DetachedOf(View(h, kids, {}), c)
  <1> DEFINE f == View(h, kids, {})
             k2 == [kids EXCEPT ![p] = Without(kids[p], i)]
             r == DetachedOf(f, c)
  <1>1. DOMAIN f = DOMAIN h /\ \A n \in DOMAIN h : f[n] = Shown(h, kids, n)
    BY DEF View
  <1>2. DOMAIN kids = DOMAIN h /\ DOMAIN g = DOMAIN h
    BY DEF Represents, Listed, RemovedFrom, Fields
  <1>3. k2[p] = Without(kids[p], i) /\ \A n \in DOMAIN h : n # p => k2[n] = kids[n]
    BY <1>2
  <1>4. /\ kids[p] \in Seq(DOMAIN h)
        /\ \A j, k \in 1 .. Len(kids[p]) : kids[p][j] = kids[p][k] => j = k
        /\ \A n \in DOMAIN h : n # p => \A k \in 1 .. Len(kids[n]) : kids[n][k] # c
    BY HeapPointers
  <1>5. p # c
    BY DEF Represents, Linked
  <1>6. \A n \in DOMAIN h : /\ g[n].tag = h[n].tag
                            /\ g[n].key = IF n = c THEN NULL ELSE h[n].key
    BY DEF RemovedFrom
  <1> HIDE DEF f, k2
  <1>7. /\ DOMAIN r = DOMAIN h
        /\ r = [n \in DOMAIN h |-> IF n = c THEN [f[n] EXCEPT !.key = NULL]
                               ELSE [f[n] EXCEPT !.kids = RemoveFirst(@, c)]]
    BY <1>1 DEF DetachedOf
  <1>8. ASSUME NEW n \in DOMAIN h
        PROVE  Shown(g, k2, n) = IF n = c THEN [f[n] EXCEPT !.key = NULL]
                                 ELSE [f[n] EXCEPT !.kids = RemoveFirst(@, c)]
    <2>1. f[n] = [tag |-> h[n].tag, key |-> h[n].key, kids |-> kids[n]]
      BY <1>1 DEF Shown
    <2>2. Shown(g, k2, n) = [tag |-> h[n].tag, key |-> g[n].key, kids |-> k2[n]]
      BY <1>6 DEF Shown
    <2>3. CASE n = c
      <3>1. [f[n] EXCEPT !.key = NULL] = [tag |-> h[n].tag, key |-> NULL, kids |-> kids[n]]
        BY <2>1
      <3> QED
        BY <1>3, <1>5, <1>6, <2>2, <2>3, <3>1
    <2>4. ASSUME n # c
          PROVE  RemoveFirst(kids[n], c) = k2[n]
      <3>1. CASE n = p
        BY <1>3, <1>4, <3>1, RemovesFirst
      <3>2. CASE n # p
        BY <1>3, <1>4, <3>2, RemovesNone
      <3> QED
        BY <3>1, <3>2
    <2>5. ASSUME n # c
          PROVE  [f[n] EXCEPT !.kids = RemoveFirst(@, c)]
                   = [tag |-> h[n].tag, key |-> h[n].key, kids |-> k2[n]]
      <3>1. f[n].kids = kids[n]
        BY <2>1
      <3>2. RemoveFirst(f[n].kids, c) = k2[n]
        BY <2>4, <2>5, <3>1
      <3> QED
        BY <2>1, <3>2
    <2> QED
      BY <1>6, <2>2, <2>3, <2>5
  <1>9. View(g, k2, {}) = [n \in DOMAIN h |-> Shown(g, k2, n)]
    BY <1>2 DEF View
  <1> HIDE DEF r
  <1>10. View(g, k2, {}) = r
    BY <1>7, <1>8, <1>9
  <1> QED
    BY <1>10 DEF r, f, k2

(* What json_remove_from_parent leaves of the lists kids of a heap h, of a child *)
(* c or of a root.                                                              *)

Removed(h, kids, c, g, k2) ==
    /\ Represents(g, k2)
    /\ DOMAIN g = DOMAIN h
    /\ g[c].parent = NULL
    /\ \A n \in DOMAIN h : n # c => g[n].parent = h[n].parent
    /\ View(g, k2, {}) = DetachedOf(View(h, kids, {}), c)
    /\ \A n \in DOMAIN h :
         n # c /\ n # h[c].parent => Shown(g, k2, n) = Shown(h, kids, n)

LEMMA RemoveView ==
    ASSUME NEW h, NEW kids, Represents(h, kids), NEW c \in DOMAIN h,
           NEW g, g = json_remove_from_parent(h, c)
    PROVE  \E k2 : Removed(h, kids, c, g, k2)
  <1> USE NullAssumption
  <1>1. CASE h[c].parent = NULL
    <2>1. g = h
      BY <1>1 DEF json_remove_from_parent
    <2>2. View(h, kids, {}) = DetachedOf(View(h, kids, {}), c)
      BY <1>1, DetachRoot
    <2> QED
      BY <1>1, <2>1, <2>2 DEF Removed
  <1>2. CASE h[c].parent # NULL
    <2>1. PICK p \in DOMAIN h : p = h[c].parent
      BY <1>2 DEF Represents, Placed
    <2>2. PICK i0 \in 1 .. Len(kids[p]) : kids[p][i0] = c
      BY <1>2, <2>1 DEF Represents, Placed
    <2>3. /\ p # c /\ Heap(h) /\ c # NULL
          /\ h[c].prev \in (DOMAIN h \ {c}) \cup {NULL}
          /\ h[c].next \in (DOMAIN h \ {c}) \cup {NULL}
      <3>1. Heap(h) /\ c # NULL
        BY DEF Represents, Heap
      <3> QED
        BY <2>1, <2>2, <3>1, Neighbours
    <2>4. RemovedFrom(h, g, p, c)
      BY <2>1, <2>3, RemoveEffect
    <2>5. PICK i \in 1 .. Len(kids[p]) :
             /\ kids[p][i] = c
             /\ Represents(g, [kids EXCEPT ![p] = Without(kids[p], i)])
      BY <2>1, <2>4, RemoveTrees
    <2> DEFINE k2 == [kids EXCEPT ![p] = Without(kids[p], i)]
    <2>6. View(g, k2, {}) = DetachedOf(View(h, kids, {}), c)
      BY <2>1, <2>4, <2>5, DetachView
    <2>7. /\ DOMAIN g = DOMAIN h /\ g[c].parent = NULL
          /\ \A n \in DOMAIN h : n # c => /\ g[n].parent = h[n].parent
                                          /\ g[n].tag = h[n].tag
                                          /\ g[n].key = h[n].key
      BY <2>4 DEF RemovedFrom, Fields
    <2>8. \A n \in DOMAIN h : n # p => k2[n] = kids[n]
      BY DEF Represents, Listed
    <2> HIDE DEF k2
    <2>9. \A n \in DOMAIN h : n # c /\ n # p => Shown(g, k2, n) = Shown(h, kids, n)
      BY <2>7, <2>8 DEF Shown
    <2>10. Represents(g, k2)
      BY <2>5 DEF k2
    <2> QED
      BY <2>1, <2>6, <2>7, <2>9, <2>10 DEF Removed
  <1> QED
    BY <1>1, <1>2

-----------------------------------------------------------------------------
(* The mapping of JsonTree's variables to a forest, and what the actions   *)
(* of JsonForest say of it.                                                *)
MapOf(h, s) ==
    [n \in DOMAIN h \ DoomedIn(h, s) |->
        [tag |-> h[n].tag, key |-> h[n].key, kids |-> Children(h, n)]]

Mapping == MapOf(heap, stack)

LEMMA MapIs ==
    ASSUME NEW h, NEW kids, Represents(h, kids), IsFiniteSet(DOMAIN h), NEW s
    PROVE  MapOf(h, s) = View(h, kids, DoomedIn(h, s))
  <1>1. \A n \in DOMAIN h : Children(h, n) = kids[n]
    BY ChildrenAre
  <1> QED
    BY <1>1 DEF MapOf, View, Shown

LEMMA NoneDoomed ==
    ASSUME NEW h
    PROVE  DoomedIn(h, << >>) = {}
  BY DEF DoomedIn

LEMMA SameOperators ==
    /\ \A S : Forest!Cardinality(S) = Cardinality(S)
    /\ \A s, e : Forest!RemoveFirst(s, e) = RemoveFirst(s, e)
    /\ \A n : Forest!Children(n) = ChildrenOf(Mapping, n)
    /\ \A n : Forest!Subtree(n) = SubtreeOf(Mapping, n)
    /\ \A n : Forest!Detached(n) = DetachedOf(Mapping, n)
  <1>1. ASSUME NEW S PROVE Forest!Cardinality(S) = Cardinality(S)
    BY DEF Forest!Cardinality, Cardinality
  <1>2. ASSUME NEW s, NEW e PROVE Forest!RemoveFirst(s, e) = RemoveFirst(s, e)
    BY Zenon DEF Forest!RemoveFirst, RemoveFirst, Forest!RemoveAt, RemoveAt,
       Forest!SelectInSeq, SelectInSeq, Forest!Min, Min
  <1>3. ASSUME NEW n PROVE Forest!Children(n) = ChildrenOf(Mapping, n)
    BY DEF Forest!Children, ChildrenOf, Mapping, MapOf, Doomed, DoomedIn
  <1>4. ASSUME NEW n PROVE Forest!Subtree(n) = SubtreeOf(Mapping, n)
    BY Zenon DEF Forest!Subtree, SubtreeOf, Forest!Children, ChildrenOf,
       Forest!Cardinality, Cardinality, Mapping, MapOf, Doomed, DoomedIn
  <1>5. ASSUME NEW n PROVE Forest!Detached(n) = DetachedOf(Mapping, n)
    BY <1>2, Zenon DEF Forest!Detached, DetachedOf, Mapping, MapOf, Doomed, DoomedIn
  <1> QED
    BY <1>1, <1>2, <1>3, <1>4, <1>5

LEMMA MakeMaps ==
    ASSUME NEW n \in Node, NEW tag \in Tags, n \notin DOMAIN Mapping,
           Mapping' = WithTree(Mapping, n, tag)
    PROVE  Forest!Next
  <1>1. Forest!Make(n, tag)
    BY Zenon DEF Forest!Make, WithTree, Mapping, MapOf, Doomed, DoomedIn
  <1> QED
    BY <1>1 DEF Forest!Next, Tags

LEMMA InsertMaps ==
    ASSUME NEW p \in DOMAIN Mapping, NEW c \in DOMAIN Mapping, NEW key \in Key \cup {NULL},
           \A q \in DOMAIN Mapping : c \notin ChildrenOf(Mapping, q),
           p \notin SubtreeOf(Mapping, c),
           \/ Mapping[p].tag = "ARRAY" /\ key = NULL
           \/ Mapping[p].tag = "OBJECT" /\ key \in Key,
           NEW kids \in {Append(Mapping[p].kids, c), << c >> \o Mapping[p].kids},
           Mapping' = WithChild(Mapping, p, c, key, kids)
    PROVE  Forest!Next
  <1>1. Forest!Root(c) /\ p \notin Forest!Subtree(c)
    <2>1. \A q \in DOMAIN Mapping : c \notin Forest!Children(q)
      BY SameOperators
    <2>2. Forest!Root(c)
      BY <2>1, Zenon DEF Forest!Root, Mapping, MapOf, Doomed, DoomedIn
    <2> QED
      BY <2>2, SameOperators
  <1>2. Forest!Insert(p, c, key)
    BY <1>1, Zenon DEF Forest!Insert, WithChild, Mapping, MapOf, Doomed, DoomedIn
  <1>3. \E q, d \in DOMAIN Mapping, k \in Key \cup {NULL} : Forest!Insert(q, d, k)
    BY <1>2, Zenon
  <1> QED
    BY <1>3, Zenon DEF Forest!Next, Mapping, MapOf, Doomed, DoomedIn

LEMMA DetachMaps ==
    ASSUME NEW c \in DOMAIN Mapping, Mapping' = DetachedOf(Mapping, c)
    PROVE  Forest!Next
  <1>1. Mapping' = Forest!Detached(c)
    BY SameOperators
  <1>2. Forest!Detach(c)
    BY <1>1, Zenon DEF Forest!Detach, Mapping, MapOf, Doomed, DoomedIn
  <1>3. \E n \in DOMAIN Mapping : Forest!Detach(n) \/ Forest!Delete(n)
    BY <1>2, Zenon
  <1> QED
    BY <1>3, Zenon DEF Forest!Next, Mapping, MapOf, Doomed, DoomedIn

LEMMA DeleteMaps ==
    ASSUME NEW c \in DOMAIN Mapping,
           Mapping' = [m \in DOMAIN Mapping \ SubtreeOf(Mapping, c) |->
                         DetachedOf(Mapping, c)[m]]
    PROVE  Forest!Next
  <1>1. Mapping' = [m \in DOMAIN Mapping \ Forest!Subtree(c) |-> Forest!Detached(c)[m]]
    BY SameOperators
  <1>2. Forest!Delete(c)
    BY <1>1, Zenon DEF Forest!Delete, Mapping, MapOf, Doomed, DoomedIn
  <1>3. \E n \in DOMAIN Mapping : Forest!Detach(n) \/ Forest!Delete(n)
    BY <1>2, Zenon
  <1> QED
    BY <1>3, Zenon DEF Forest!Next, Mapping, MapOf, Doomed, DoomedIn

-----------------------------------------------------------------------------
(* Every step of the program is one of the forest, or shows none. *)
LEMMA IdleMap ==
    ASSUME FiniteHeap, NEW kids, Represents(heap, kids), stack = << >>
    PROVE  Mapping = View(heap, kids, {}) /\ DOMAIN Mapping = DOMAIN heap
  <1>1. Mapping = View(heap, kids, DoomedIn(heap, stack))
    BY MapIs DEF FiniteHeap, Mapping
  <1>2. DoomedIn(heap, stack) = {}
    BY NoneDoomed
  <1> QED
    BY <1>1, <1>2 DEF View

LEMMA IdleMapNext ==
    ASSUME IsFiniteSet(DOMAIN heap'), NEW kids, Represents(heap', kids), stack' = << >>
    PROVE  Mapping' = View(heap', kids, {})
  <1>1. Mapping' = View(heap', kids, DoomedIn(heap', stack'))
    BY MapIs DEF Mapping
  <1>2. DoomedIn(heap', stack') = {}
    BY NoneDoomed
  <1> QED
    BY <1>1, <1>2

LEMMA MakeRefines ==
    ASSUME Inv, FiniteHeap, IsFiniteSet(DOMAIN heap'),
           NEW n \in Node, NEW tag \in Tags, Make(n, tag)
    PROVE  Forest!Next
  <1>1. PICK kids : Represents(heap, kids)
    BY DEF Inv, Trees
  <1>2. /\ n \in Node \ DOMAIN heap /\ stack = << >> /\ stack' = << >>
        /\ heap' = WithNode(heap, n, tag)
    BY DEF Make, Idle, WithNode
  <1> DEFINE k2 == WithNoKids(kids, DOMAIN heap, n)
  <1>3. Represents(heap', k2)
    BY <1>1, <1>2, MakeKids
  <1>4. Mapping = View(heap, kids, {}) /\ DOMAIN Mapping = DOMAIN heap
    BY <1>1, <1>2, IdleMap
  <1>5. Mapping' = View(heap', k2, {})
    <2> HIDE DEF k2
    <2> QED
      BY <1>2, <1>3, IdleMapNext
  <1>6. View(heap', k2, {}) = WithTree(View(heap, kids, {}), n, tag)
    BY <1>2, MakeView
  <1> QED
    BY <1>2, <1>4, <1>5, <1>6, MakeMaps

(* A root that is not under another node is put there. *)
LEMMA Separate ==
    ASSUME FiniteHeap, NEW kids, Represents(heap, kids), stack = << >>,
           NEW p \in DOMAIN heap, NEW c \in DOMAIN heap, MayPut(p, c)
    PROVE  /\ p # c
           /\ \A q \in DOMAIN Mapping : c \notin ChildrenOf(Mapping, q)
           /\ p \notin SubtreeOf(Mapping, c)
  <1>1. Mapping = View(heap, kids, {}) /\ DOMAIN Mapping = DOMAIN heap
    BY IdleMap
  <1>2. heap[c].parent = NULL /\ c \notin Ancestors(heap, p)
    BY DEF MayPut
  <1>3. /\ NULL \notin DOMAIN heap
        /\ \A x \in DOMAIN heap : heap[x].parent \in DOMAIN heap \cup {NULL}
    BY HeapPointers
  <1>4. \A x \in DOMAIN heap :
           /\ Ancestors(heap, x) \in SUBSET DOMAIN heap /\ x \in Ancestors(heap, x)
           /\ AncestorsUpward(heap, Ancestors(heap, x))
           /\ \A T \in SUBSET DOMAIN heap :
                x \in T /\ AncestorsUpward(heap, T) => Ancestors(heap, x) \subseteq T
    BY <1>3, AncestorsLeast DEF FiniteHeap
  <1>5. \A q \in DOMAIN Mapping : c \notin ChildrenOf(Mapping, q)
    BY <1>1, <1>2, <1>3, ViewChildren
  <1> DEFINE T == {x \in DOMAIN heap : c \in Ancestors(heap, x)}
  <1>6. Downward(heap, T)
    <2> SUFFICES ASSUME NEW x \in DOMAIN heap, heap[x].parent \in T
                 PROVE  x \in T
      BY DEF Downward
    <2> DEFINE q == heap[x].parent
    <2>1. q \in DOMAIN heap /\ q # NULL /\ c \in Ancestors(heap, q)
      BY <1>3
    <2>2. q \in Ancestors(heap, x)
      BY <1>4, <2>1 DEF AncestorsUpward
    <2>3. Ancestors(heap, q) \subseteq Ancestors(heap, x)
      BY <1>4, <2>1, <2>2
    <2> QED
      BY <2>1, <2>3
  <1>7. c \in T /\ T \in SUBSET DOMAIN heap /\ p \notin T
    BY <1>2, <1>4
  <1>8. SubtreeOf(Mapping, c) \subseteq T
    <2> HIDE DEF T
    <2> QED
      BY <1>1, <1>6, <1>7, SubtreeIs DEF FiniteHeap
  <1> QED
    BY <1>2, <1>4, <1>5, <1>7, <1>8

LEMMA PutRefines ==
    ASSUME Inv, FiniteHeap, IsFiniteSet(DOMAIN heap'),
           NEW p \in DOMAIN heap, NEW c \in DOMAIN heap, MayPut(p, c),
           NEW key \in Key \cup {NULL},
           \/ heap[p].tag = "ARRAY" /\ key = NULL
           \/ heap[p].tag = "OBJECT" /\ key \in Key,
           UNCHANGED stack,
           \/ heap' = append_node([heap EXCEPT ![c].key = key], p, c)
           \/ heap' = prepend_node([heap EXCEPT ![c].key = key], p, c)
    PROVE  Forest!Next
  <1> USE NullAssumption
  <1>1. PICK kids : Represents(heap, kids)
    BY DEF Inv, Trees
  <1>2. stack = << >> /\ stack' = << >> /\ heap[c].parent = NULL
    BY DEF MayPut, Idle
  <1>3. Mapping = View(heap, kids, {}) /\ DOMAIN Mapping = DOMAIN heap
    BY <1>1, <1>2, IdleMap
  <1>4. /\ p # c
        /\ \A q \in DOMAIN Mapping : c \notin ChildrenOf(Mapping, q)
        /\ p \notin SubtreeOf(Mapping, c)
    BY <1>1, <1>2, Separate
  <1>5. Mapping[p].tag = heap[p].tag /\ Mapping[p].kids = kids[p]
    BY <1>3 DEF View, Shown
  <1>6. heap[p].tag \in Containers /\ (key = NULL <=> heap[p].tag = "ARRAY")
    BY DEF Containers
  <1>7. kids[p] \in Seq(DOMAIN heap)
    BY <1>1, HeapPointers
  <1>8. CASE heap' = append_node([heap EXCEPT ![c].key = key], p, c)
    <2> DEFINE s == Append(kids[p], c)
    <2>1. /\ Represents(heap', [kids EXCEPT ![p] = s])
          /\ AppendedTo(heap, heap', p, c, key)
      BY <1>1, <1>2, <1>4, <1>6, <1>8, InsertKids
    <2>2. Mapping' = View(heap', [kids EXCEPT ![p] = s], {})
      BY <1>2, <2>1, IdleMapNext
    <2>3. View(heap', [kids EXCEPT ![p] = s], {})
            = WithChild(View(heap, kids, {}), p, c, key, s)
      <3>1. Rekeyed(heap, heap', c, key)
        BY <2>1 DEF AppendedTo, Fields, Rekeyed
      <3> HIDE DEF s
      <3> QED
        BY <1>1, <1>4, <3>1, InsertView
    <2>4. s \in {Append(Mapping[p].kids, c), << c >> \o Mapping[p].kids}
      BY <1>5
    <2> HIDE DEF s
    <2>6. Mapping' = WithChild(Mapping, p, c, key, s)
      BY <1>3, <2>2, <2>3, Zenon
    <2>7. \/ Mapping[p].tag = "ARRAY" /\ key = NULL
          \/ Mapping[p].tag = "OBJECT" /\ key \in Key
      BY <1>5
    <2> QED
      BY <1>3, <1>4, <2>4, <2>6, <2>7, InsertMaps, Zenon
  <1>9. CASE heap' = prepend_node([heap EXCEPT ![c].key = key], p, c)
    <2> DEFINE s == Cons1(c, kids[p])
    <2>1. /\ Represents(heap', [kids EXCEPT ![p] = s])
          /\ PrependedTo(heap, heap', p, c, key)
      BY <1>1, <1>2, <1>4, <1>6, <1>9, InsertKids
    <2>2. Mapping' = View(heap', [kids EXCEPT ![p] = s], {})
      BY <1>2, <2>1, IdleMapNext
    <2>3. View(heap', [kids EXCEPT ![p] = s], {})
            = WithChild(View(heap, kids, {}), p, c, key, s)
      <3>1. Rekeyed(heap, heap', c, key)
        BY <2>1 DEF PrependedTo, Fields, Rekeyed
      <3> HIDE DEF s
      <3> QED
        BY <1>1, <1>4, <3>1, InsertView
    <2>4. s = << c >> \o kids[p]
      BY <1>7, ConsIs
    <2> HIDE DEF s
    <2>5. s \in {Append(Mapping[p].kids, c), << c >> \o Mapping[p].kids}
      BY <1>5, <2>4
    <2>6. Mapping' = WithChild(Mapping, p, c, key, s)
      BY <1>3, <2>2, <2>3, Zenon
    <2>7. \/ Mapping[p].tag = "ARRAY" /\ key = NULL
          \/ Mapping[p].tag = "OBJECT" /\ key \in Key
      BY <1>5
    <2> QED
      BY <1>3, <1>4, <2>5, <2>6, <2>7, InsertMaps, Zenon
  <1> QED
    BY <1>8, <1>9

LEMMA DetachRefines ==
    ASSUME Inv, FiniteHeap, IsFiniteSet(DOMAIN heap'),
           NEW c \in DOMAIN heap, Detach(c)
    PROVE  Forest!Next
  <1>1. PICK kids : Represents(heap, kids)
    BY DEF Inv, Trees
  <1>2. stack = << >> /\ stack' = << >> /\ heap' = json_remove_from_parent(heap, c)
    BY DEF Detach, Idle
  <1>3. Mapping = View(heap, kids, {}) /\ DOMAIN Mapping = DOMAIN heap
    BY <1>1, <1>2, IdleMap
  <1>4. PICK k2 : /\ Represents(heap', k2)
                  /\ View(heap', k2, {}) = DetachedOf(View(heap, kids, {}), c)
    BY <1>1, <1>2, RemoveView DEF Removed
  <1>5. Mapping' = View(heap', k2, {})
    BY <1>2, <1>4, IdleMapNext
  <1> QED
    BY <1>3, <1>4, <1>5, DetachMaps

-----------------------------------------------------------------------------
(* json_delete: the call takes the whole subtree out of sight. *)
NodesOf(s) == {s[k].node : k \in DOMAIN s}

LEMMA HoldingNodes ==
    ASSUME NEW s, NEW T
    PROVE  Holding(s, T) <=> NodesOf(s) \subseteq T
  BY DEF Holding, NodesOf

LEMMA BeginRefines ==
    ASSUME Inv, FiniteHeap, IsFiniteSet(DOMAIN heap'),
           NEW n \in DOMAIN heap, DeleteBegins(n)
    PROVE  Forest!Next
  <1>1. PICK kids : Represents(heap, kids)
    BY DEF Inv, Trees
  <1>2. /\ stack = << >> /\ heap' = json_remove_from_parent(heap, n)
        /\ stack' = << Call(heap', n) >>
    BY DEF DeleteBegins, Idle
  <1>3. Mapping = View(heap, kids, {}) /\ DOMAIN Mapping = DOMAIN heap
    BY <1>1, <1>2, IdleMap
  <1>4. PICK k2 : /\ Represents(heap', k2) /\ DOMAIN heap' = DOMAIN heap
                  /\ heap'[n].parent = NULL
                  /\ \A x \in DOMAIN heap : x # n => heap'[x].parent = heap[x].parent
                  /\ View(heap', k2, {}) = DetachedOf(View(heap, kids, {}), n)
    BY <1>1, <1>2, RemoveView DEF Removed
  <1> DEFINE X == DoomedIn(heap', stack')
             R == SubtreeOf(View(heap, kids, {}), n)
  <1>5. NodesOf(stack') = {n}
    <2>1. DOMAIN stack' = {1} /\ stack'[1].node = n
      BY <1>2 DEF Call
    <2> QED
      BY <2>1 DEF NodesOf
  <1>6. \A k \in DOMAIN stack' : stack'[k].node \in DOMAIN heap'
    BY <1>4, <1>5 DEF NodesOf
  <1>7. /\ X \in SUBSET DOMAIN heap /\ n \in X /\ Downward(heap', X)
        /\ \A T \in SUBSET DOMAIN heap : n \in T /\ Downward(heap', T) => X \subseteq T
    <2>1. /\ X \in SUBSET DOMAIN heap' /\ Holding(stack', X) /\ Downward(heap', X)
          /\ \A T \in SUBSET DOMAIN heap' :
               Holding(stack', T) /\ Downward(heap', T) => X \subseteq T
      BY <1>4, <1>6, DoomedLeast
    <2>2. \A T : Holding(stack', T) <=> n \in T
      BY <1>5, HoldingNodes
    <2> HIDE DEF X
    <2> QED
      BY <1>4, <2>1, <2>2
  <1>8. /\ R \in SUBSET DOMAIN heap /\ n \in R /\ Downward(heap, R)
        /\ \A T \in SUBSET DOMAIN heap : n \in T /\ Downward(heap, T) => R \subseteq T
    BY <1>1, SubtreeIs DEF FiniteHeap
  <1> HIDE DEF X, R
  <1>9. NULL \notin DOMAIN heap
    BY <1>1, HeapPointers
  <1>10. Downward(heap, X)
    BY <1>4, <1>7 DEF Downward
  <1>11. Downward(heap', R)
    BY <1>4, <1>8, <1>9 DEF Downward
  <1>12. X = R
    BY <1>7, <1>8, <1>10, <1>11
  <1>13. Mapping' = View(heap', k2, X)
    BY <1>4, MapIs DEF X, Mapping
  <1>14. View(heap', k2, X) = [m \in DOMAIN heap \ X |-> View(heap', k2, {})[m]]
    BY <1>4 DEF View
  <1>15. Mapping' = [m \in DOMAIN Mapping \ SubtreeOf(Mapping, n) |-> DetachedOf(Mapping, n)[m]]
    BY <1>3, <1>4, <1>12, <1>13, <1>14, Zenon DEF R
  <1> QED
    BY <1>3, <1>15, DeleteMaps

(* No child of a node that is doomed is in sight, nor what it changes. *)
LEMMA SameView ==
    ASSUME NEW h, NEW kids, NEW X, NEW g, NEW k2, NEW Y,
           DOMAIN g \ Y = DOMAIN h \ X,
           \A n \in DOMAIN h \ X : Shown(g, k2, n) = Shown(h, kids, n)
    PROVE  View(g, k2, Y) = View(h, kids, X)
  BY DEF View

LEMMA ChildRefines ==
    ASSUME Inv, FiniteHeap, IsFiniteSet(DOMAIN heap'), DeleteChild
    PROVE  Mapping' = Mapping
  <1>1. PICK kids : Represents(heap, kids)
    BY DEF Inv, Trees
  <1>2. /\ stack \in Seq([node : DOMAIN heap, child : DOMAIN heap \cup {NULL}])
        /\ Len(stack) \in Nat /\ Len(stack) # 0 /\ Trees(heap)
        /\ \A k \in 1 .. Len(stack) :
              /\ stack[k] \in [node : DOMAIN heap, child : DOMAIN heap \cup {NULL}]
              /\ stack[k].child = heap[stack[k].node].head
    BY Running DEF DeleteChild
  <1> DEFINE top == Head(stack)
             c == top.child
             q == top.node
  <1>3. /\ top = stack[1] /\ 1 \in 1 .. Len(stack) /\ DOMAIN stack = 1 .. Len(stack)
        /\ q \in DOMAIN heap /\ c = heap[q].head /\ c \in DOMAIN heap \cup {NULL}
    <2>1. Head(stack) = stack[1] /\ 1 \in 1 .. Len(stack) /\ DOMAIN stack = 1 .. Len(stack)
      BY <1>2
    <2>2. stack[1] \in [node : DOMAIN heap, child : DOMAIN heap \cup {NULL}]
      BY <1>2, <2>1
    <2> QED
      BY <1>2, <2>1, <2>2
  <1>4. /\ c # NULL /\ heap' = json_remove_from_parent(heap, c)
        /\ stack' = << Call(heap', c), [top EXCEPT !.child = heap[c].next] >> \o Tail(stack)
    BY DEF DeleteChild
  <1> HIDE DEF c, q, top
  <1>5. c \in DOMAIN heap /\ heap[c].parent = q
    BY <1>2, <1>3, <1>4, EndsOutside
  <1>6. NodesOf(stack') = NodesOf(stack) \cup {c}
    <2> DEFINE b == [top EXCEPT !.child = heap[c].next]
               a == Call(heap', c)
               rest == Tail(stack)
               n == Len(stack)
    <2>1. a.node = c /\ b.node = q
      <3>1. top \in [node : DOMAIN heap, child : DOMAIN heap \cup {NULL}]
        BY <1>2, <1>3
      <3> QED
        BY <3>1 DEF Call, q
    <2>2. n \in Nat \ {0} /\ Len(rest) = n - 1 /\ \A k \in 1 .. n - 1 : rest[k] = stack[k + 1]
      BY <1>2
    <2> HIDE DEF a, b
    <2>3. /\ DOMAIN stack' = 1 .. n + 1 /\ stack'[1] = a /\ stack'[2] = b
          /\ \A k \in 2 .. n : stack'[k + 1] = stack[k]
      <3>1. stack' = << a, b >> \o rest
        BY <1>4 DEF a, b
      <3>2. \E V : rest \in Seq(V) /\ << a, b >> \in Seq(V)
        <4> DEFINE V == {a, b} \cup [node : DOMAIN heap, child : DOMAIN heap \cup {NULL}]
        <4>1. << a, b >> \in Seq(V)
          OBVIOUS
        <4>2. stack \in Seq(V)
          BY <1>2
        <4>3. rest \in Seq(V)
          <5> HIDE DEF V
          <5> QED
            BY <2>2, <4>2
        <4> QED
          BY <4>1, <4>3
      <3>3. PICK V : rest \in Seq(V) /\ << a, b >> \in Seq(V)
        BY <3>2
      <3>4. /\ Len(<< a, b >>) = 2 /\ << a, b >>[1] = a /\ << a, b >>[2] = b
        OBVIOUS
      <3> DEFINE two == << a, b >>
      <3> HIDE DEF two, rest
      <3>5. /\ two \o rest \in Seq(V) /\ Len(two \o rest) = Len(two) + Len(rest)
            /\ \A k \in 1 .. Len(two) + Len(rest) :
                 (two \o rest)[k] = IF k <= Len(two) THEN two[k] ELSE rest[k - Len(two)]
        BY <3>3, ConcatProperties DEF two
      <3>6. stack' = two \o rest /\ Len(two) = 2 /\ two[1] = a /\ two[2] = b
        BY <3>1, <3>4 DEF two
      <3>7. DOMAIN stack' = 1 .. n + 1
        BY <2>2, <3>5, <3>6
      <3>8. /\ stack'[1] = a /\ stack'[2] = b
            /\ \A k \in 3 .. n + 1 : stack'[k] = rest[k - 2]
        BY <2>2, <3>5, <3>6
      <3>9. \A k \in 2 .. n : stack'[k + 1] = stack[k]
        BY <2>2, <3>8
      <3> QED
        BY <3>7, <3>8, <3>9
    <2>4. DOMAIN stack = 1 .. n /\ stack[1].node = q
      BY <1>3 DEF q
    <2> HIDE DEF rest, n
    <2>5. ASSUME NEW k \in 1 .. n + 1
          PROVE  stack'[k].node \in NodesOf(stack) \cup {c}
      <3>1. CASE k = 1
        BY <2>1, <2>3, <3>1
      <3>2. CASE k = 2
        BY <2>1, <2>2, <2>3, <2>4, <3>2 DEF NodesOf
      <3>3. CASE k > 2
        <4>1. k - 1 \in 2 .. n /\ (k - 1) + 1 = k /\ k - 1 \in DOMAIN stack
          BY <2>2, <2>4, <3>3
        <4> QED
          BY <2>3, <4>1 DEF NodesOf
      <3> QED
        BY <2>2, <3>1, <3>2, <3>3
    <2>6. ASSUME NEW k \in 1 .. n
          PROVE  stack[k].node \in NodesOf(stack')
      <3>1. CASE k = 1
        <4>1. 2 \in DOMAIN stack' /\ stack'[2].node = q
          BY <2>1, <2>2, <2>3
        <4> QED
          BY <2>4, <3>1, <4>1 DEF NodesOf
      <3>2. CASE k # 1
        <4>1. k \in 2 .. n /\ k + 1 \in DOMAIN stack'
          BY <2>2, <2>3, <3>2
        <4> QED
          BY <2>3, <4>1 DEF NodesOf
      <3> QED
        BY <3>1, <3>2
    <2>7. c \in NodesOf(stack')
      <3>1. 1 \in DOMAIN stack'
        BY <2>2, <2>3
      <3> QED
        BY <2>1, <2>3, <3>1 DEF NodesOf
    <2>8. NodesOf(stack') \subseteq NodesOf(stack) \cup {c}
      BY <2>3, <2>5 DEF NodesOf
    <2>9. NodesOf(stack) \subseteq NodesOf(stack')
      BY <2>4, <2>6 DEF NodesOf
    <2> QED
      BY <2>7, <2>8, <2>9
  <1>7. PICK k2 : /\ Represents(heap', k2) /\ DOMAIN heap' = DOMAIN heap
                  /\ heap'[c].parent = NULL
                  /\ \A x \in DOMAIN heap : x # c => heap'[x].parent = heap[x].parent
                  /\ \A x \in DOMAIN heap :
                       x # c /\ x # q => Shown(heap', k2, x) = Shown(heap, kids, x)
    <2>1. PICK h, g, e : h = heap /\ g = heap' /\ e = c
      OBVIOUS
    <2>2. Represents(h, kids) /\ e \in DOMAIN h /\ g = json_remove_from_parent(h, e)
      BY <1>1, <1>4, <1>5, <2>1
    <2>3. PICK k2 : Removed(h, kids, e, g, k2)
      BY <2>2, RemoveView
    <2>4. h[e].parent = q
      BY <1>5, <2>1
    <2> QED
      BY <2>1, <2>3, <2>4 DEF Removed
  <1> DEFINE X == DoomedIn(heap, stack)
             Y == DoomedIn(heap', stack')
  <1>8. NodesOf(stack) \subseteq DOMAIN heap /\ q \in NodesOf(stack)
    <2>1. \A k \in DOMAIN stack : stack[k].node \in DOMAIN heap
      BY <1>2, <1>3
    <2>2. q = stack[1].node
      BY <1>3 DEF q
    <2> QED
      BY <1>3, <2>1, <2>2 DEF NodesOf
  <1>9. /\ X \in SUBSET DOMAIN heap /\ NodesOf(stack) \subseteq X /\ Downward(heap, X)
        /\ \A T \in SUBSET DOMAIN heap :
             NodesOf(stack) \subseteq T /\ Downward(heap, T) => X \subseteq T
    <2>1. \A k \in DOMAIN stack : stack[k].node \in DOMAIN heap
      BY <1>8 DEF NodesOf
    <2>2. /\ X \in SUBSET DOMAIN heap /\ Holding(stack, X) /\ Downward(heap, X)
          /\ \A T \in SUBSET DOMAIN heap :
               Holding(stack, T) /\ Downward(heap, T) => X \subseteq T
      BY <1>1, <2>1, DoomedLeast DEF FiniteHeap
    <2> HIDE DEF X
    <2> QED
      BY <2>2, HoldingNodes
  <1>10. /\ Y \in SUBSET DOMAIN heap /\ NodesOf(stack') \subseteq Y /\ Downward(heap', Y)
         /\ \A T \in SUBSET DOMAIN heap :
              NodesOf(stack') \subseteq T /\ Downward(heap', T) => Y \subseteq T
    <2>1. \A k \in DOMAIN stack' : stack'[k].node \in DOMAIN heap'
      <3>1. NodesOf(stack') \subseteq DOMAIN heap'
        BY <1>5, <1>6, <1>7, <1>8
      <3> QED
        BY <3>1 DEF NodesOf
    <2>2. /\ Y \in SUBSET DOMAIN heap' /\ Holding(stack', Y) /\ Downward(heap', Y)
          /\ \A T \in SUBSET DOMAIN heap' :
               Holding(stack', T) /\ Downward(heap', T) => Y \subseteq T
      BY <1>7, <2>1, DoomedLeast
    <2>3. \A T : Holding(stack', T) <=> NodesOf(stack') \subseteq T
      BY HoldingNodes
    <2> HIDE DEF Y
    <2> QED
      BY <1>7, <2>2, <2>3
  <1>11. Mapping = View(heap, kids, X)
    BY <1>1, MapIs DEF FiniteHeap, Mapping
  <1>12. Mapping' = View(heap', k2, Y)
    BY <1>7, MapIs DEF Mapping
  <1> HIDE DEF X, Y
  <1>13. NULL \notin DOMAIN heap
    BY <1>1, HeapPointers
  <1>14. c \in X
    BY <1>5, <1>8, <1>9 DEF Downward
  <1>15. Downward(heap, Y)
    BY <1>6, <1>7, <1>10 DEF Downward
  <1>16. Downward(heap', X)
    BY <1>7, <1>9, <1>13 DEF Downward
  <1>17. X = Y
    BY <1>6, <1>9, <1>10, <1>14, <1>15, <1>16
  <1>18. \A n \in DOMAIN heap \ X : Shown(heap', k2, n) = Shown(heap, kids, n)
    BY <1>5, <1>7, <1>8, <1>9, <1>14
  <1>19. View(heap', k2, Y) = View(heap, kids, X)
    BY <1>7, <1>17, <1>18, SameView
  <1> QED
    BY <1>11, <1>12, <1>19

LEMMA FreeRefines ==
    ASSUME Inv, FiniteHeap, IsFiniteSet(DOMAIN heap'), DeleteFrees
    PROVE  Mapping' = Mapping
  <1>1. PICK kids : Represents(heap, kids)
    BY DEF Inv, Trees
  <1>2. /\ stack \in Seq([node : DOMAIN heap, child : DOMAIN heap \cup {NULL}])
        /\ Len(stack) \in Nat /\ Len(stack) # 0
        /\ \A k \in 1 .. Len(stack) :
              /\ stack[k] \in [node : DOMAIN heap, child : DOMAIN heap \cup {NULL}]
              /\ heap[stack[k].node].parent = NULL
              /\ stack[k].child = heap[stack[k].node].head
        /\ \A j, k \in 1 .. Len(stack) : stack[j].node = stack[k].node => j = k
    BY Running DEF DeleteFrees
  <1>3. /\ Head(stack) = stack[1] /\ 1 \in 1 .. Len(stack)
        /\ DOMAIN stack = 1 .. Len(stack)
    BY <1>2
  <1>4. PICK m \in DOMAIN heap : m = stack[1].node
    <2>1. stack[1] \in [node : DOMAIN heap, child : DOMAIN heap \cup {NULL}]
      BY <1>2, <1>3
    <2> QED
      BY <2>1
  <1>5. /\ heap[m].parent = NULL /\ heap[m].head = NULL
        /\ heap' = [x \in DOMAIN heap \ {m} |-> heap[x]] /\ stack' = Tail(stack)
    BY <1>2, <1>3, <1>4 DEF DeleteFrees
  <1> DEFINE k2 == [x \in DOMAIN heap \ {m} |-> kids[x]]
  <1>6. Represents(heap', k2)
    BY <1>1, <1>5, FreeTrees
  <1>7. /\ DOMAIN heap' = DOMAIN heap \ {m}
        /\ \A x \in DOMAIN heap \ {m} : heap'[x] = heap[x] /\ k2[x] = kids[x]
    BY <1>5
  <1> HIDE DEF k2
  <1>8. NodesOf(stack') = NodesOf(stack) \ {m} /\ m \in NodesOf(stack)
    <2> DEFINE n == Len(stack)
    <2>1. /\ n \in Nat \ {0} /\ Len(stack') = n - 1 /\ DOMAIN stack' = 1 .. n - 1
          /\ \A k \in 1 .. n - 1 : stack'[k] = stack[k + 1]
      BY <1>2, <1>5
    <2>2. DOMAIN stack = 1 .. n /\ m = stack[1].node
      BY <1>3, <1>4
    <2>3. \A j, k \in 1 .. n : stack[j].node = stack[k].node => j = k
      BY <1>2
    <2> HIDE DEF n
    <2>4. ASSUME NEW k \in 1 .. n - 1
          PROVE  stack'[k].node \in NodesOf(stack) \ {m}
      <3>1. k + 1 \in 1 .. n /\ k + 1 # 1 /\ 1 \in 1 .. n
        BY <2>1
      <3>2. stack'[k].node = stack[k + 1].node /\ stack[k + 1].node # m
        BY <2>1, <2>2, <2>3, <3>1
      <3> QED
        BY <2>2, <3>1, <3>2 DEF NodesOf
    <2>5. ASSUME NEW k \in 1 .. n, stack[k].node # m
          PROVE  stack[k].node \in NodesOf(stack')
      <3>1. k - 1 \in 1 .. n - 1 /\ (k - 1) + 1 = k
        BY <2>1, <2>2, <2>5
      <3> QED
        BY <2>1, <3>1 DEF NodesOf
    <2>6. NodesOf(stack') \subseteq NodesOf(stack) \ {m}
      BY <2>1, <2>4 DEF NodesOf
    <2>7. NodesOf(stack) \ {m} \subseteq NodesOf(stack')
      BY <2>2, <2>5 DEF NodesOf
    <2>8. m \in NodesOf(stack)
      BY <1>3, <1>4 DEF NodesOf
    <2> QED
      BY <2>6, <2>7, <2>8
  <1>9. /\ NULL \notin DOMAIN heap
        /\ \A x \in DOMAIN heap : heap[x].parent # m
    <2>1. /\ NULL \notin DOMAIN heap /\ Len(kids[m]) \in Nat
          /\ DOMAIN kids[m] = 1 .. Len(kids[m])
          /\ \A k \in DOMAIN kids[m] : kids[m][k] \in DOMAIN heap
          /\ \A x \in DOMAIN heap :
               heap[x].parent = m => \E k \in DOMAIN kids[m] : kids[m][k] = x
      BY <1>1, HeapPointers
    <2>2. Len(kids[m]) > 0 => heap[m].head = kids[m][1]
      BY <1>1 DEF Represents, Ends
    <2>3. ASSUME Len(kids[m]) # 0 PROVE FALSE
      <3>1. 1 \in DOMAIN kids[m] /\ Len(kids[m]) > 0
        BY <2>1, <2>3
      <3> QED
        BY <1>5, <2>1, <2>2, <3>1
    <2>4. DOMAIN kids[m] = {}
      BY <2>1, <2>3
    <2> QED
      BY <2>1, <2>4
  <1> DEFINE X == DoomedIn(heap, stack)
             Y == DoomedIn(heap', stack')
  <1>10. NodesOf(stack) \subseteq DOMAIN heap
    BY <1>2, <1>3 DEF NodesOf
  <1>11. /\ X \in SUBSET DOMAIN heap /\ NodesOf(stack) \subseteq X /\ Downward(heap, X)
         /\ \A T \in SUBSET DOMAIN heap :
              NodesOf(stack) \subseteq T /\ Downward(heap, T) => X \subseteq T
    <2>1. \A k \in DOMAIN stack : stack[k].node \in DOMAIN heap
      BY <1>10 DEF NodesOf
    <2>2. /\ X \in SUBSET DOMAIN heap /\ Holding(stack, X) /\ Downward(heap, X)
          /\ \A T \in SUBSET DOMAIN heap :
               Holding(stack, T) /\ Downward(heap, T) => X \subseteq T
      BY <1>1, <2>1, DoomedLeast DEF FiniteHeap
    <2> HIDE DEF X
    <2> QED
      BY <2>2, HoldingNodes
  <1>12. /\ Y \in SUBSET DOMAIN heap' /\ NodesOf(stack') \subseteq Y /\ Downward(heap', Y)
         /\ \A T \in SUBSET DOMAIN heap' :
              NodesOf(stack') \subseteq T /\ Downward(heap', T) => Y \subseteq T
    <2>1. \A k \in DOMAIN stack' : stack'[k].node \in DOMAIN heap'
      <3>1. NodesOf(stack') \subseteq DOMAIN heap'
        BY <1>7, <1>8, <1>10
      <3> QED
        BY <3>1 DEF NodesOf
    <2>2. /\ Y \in SUBSET DOMAIN heap' /\ Holding(stack', Y) /\ Downward(heap', Y)
          /\ \A T \in SUBSET DOMAIN heap' :
               Holding(stack', T) /\ Downward(heap', T) => Y \subseteq T
      BY <1>6, <2>1, DoomedLeast
    <2>3. \A T : Holding(stack', T) <=> NodesOf(stack') \subseteq T
      BY HoldingNodes
    <2> HIDE DEF Y
    <2> QED
      BY <2>2, <2>3
  <1>13. Mapping = View(heap, kids, X)
    BY <1>1, MapIs DEF FiniteHeap, Mapping
  <1>14. Mapping' = View(heap', k2, Y)
    BY <1>6, MapIs DEF Mapping
  <1> HIDE DEF X, Y
  <1>15. Downward(heap', X \ {m})
    BY <1>7, <1>11 DEF Downward
  <1>16. Downward(heap, Y \cup {m})
    BY <1>7, <1>9, <1>12 DEF Downward
  <1>17. Y \subseteq X \ {m}
    <2>1. X \ {m} \in SUBSET DOMAIN heap' /\ NodesOf(stack') \subseteq X \ {m}
      BY <1>7, <1>8, <1>11
    <2> QED
      BY <1>12, <1>15, <2>1
  <1>18. X \subseteq Y \cup {m}
    <2>1. Y \cup {m} \in SUBSET DOMAIN heap /\ NodesOf(stack) \subseteq Y \cup {m}
      BY <1>7, <1>8, <1>12
    <2> QED
      BY <1>11, <1>16, <2>1
  <1>19. DOMAIN heap' \ Y = DOMAIN heap \ X /\ m \in X
    BY <1>7, <1>8, <1>11, <1>17, <1>18
  <1>20. \A n \in DOMAIN heap \ X : Shown(heap', k2, n) = Shown(heap, kids, n)
    BY <1>7, <1>19 DEF Shown
  <1>21. View(heap', k2, Y) = View(heap, kids, X)
    BY <1>19, <1>20, SameView
  <1> QED
    BY <1>13, <1>14, <1>21

-----------------------------------------------------------------------------
LEMMA StepRefines ==
    ASSUME Inv, FiniteHeap, [Next]_vars
    PROVE  Forest!Next \/ UNCHANGED Mapping
  <1> USE NullAssumption
  <1>0. IsFiniteSet(DOMAIN heap')
    BY FiniteStep DEF FiniteHeap
  <1>1. ASSUME NEW n \in Node, NEW tag \in Tags, Make(n, tag)
        PROVE  Forest!Next
    BY <1>0, <1>1, MakeRefines
  <1>2. ASSUME NEW p \in DOMAIN heap, NEW c \in DOMAIN heap, MayPut(p, c)
        PROVE  [heap EXCEPT ![c].key = NULL] = heap
    BY <1>2, InsertKeyless DEF Inv, MayPut
  <1>3. ASSUME NEW p \in DOMAIN heap, NEW c \in DOMAIN heap,
               json_append_element(p, c) \/ json_prepend_element(p, c)
        PROVE  Forest!Next
    <2>1. /\ MayPut(p, c) /\ heap[p].tag = "ARRAY" /\ UNCHANGED stack
          /\ heap' = append_node(heap, p, c) \/ heap' = prepend_node(heap, p, c)
      BY <1>3 DEF json_append_element, json_prepend_element
    <2>2. \/ heap' = append_node([heap EXCEPT ![c].key = NULL], p, c)
          \/ heap' = prepend_node([heap EXCEPT ![c].key = NULL], p, c)
      BY <1>2, <2>1
    <2> QED
      BY <1>0, <2>1, <2>2, PutRefines
  <1>4. ASSUME NEW p \in DOMAIN heap, NEW c \in DOMAIN heap, NEW key \in Key,
               json_append_member(p, key, c) \/ json_prepend_member(p, key, c)
        PROVE  Forest!Next
    <2>1. /\ MayPut(p, c) /\ heap[p].tag = "OBJECT" /\ UNCHANGED stack
          /\ \/ heap' = append_node([heap EXCEPT ![c].key = key], p, c)
             \/ heap' = prepend_node([heap EXCEPT ![c].key = key], p, c)
      BY <1>4 DEF json_append_member, json_prepend_member
    <2> QED
      BY <1>0, <2>1, PutRefines
  <1>5. ASSUME NEW n \in DOMAIN heap, Detach(n) \/ DeleteBegins(n)
        PROVE  Forest!Next
    BY <1>0, <1>5, DetachRefines, BeginRefines
  <1>6. CASE DeleteChild \/ DeleteFrees
    BY <1>0, <1>6, ChildRefines, FreeRefines
  <1>7. CASE UNCHANGED vars
    BY <1>7 DEF vars, Mapping
  <1> QED
    BY <1>1, <1>3, <1>4, <1>5, <1>6, <1>7 DEF Next

(* The pointers of json.c implement sequences of children: every call is   *)
(* one change at the right place of one sequence, and json_delete takes    *)
(* the subtree and nothing else, of however many nodes.                    *)
THEOREM ForestImplemented == Spec => ImplementsForest
  <1>1. Init => Forest!Init
    <2> SUFFICES ASSUME Init PROVE Forest!Init
      OBVIOUS
    <2>1. DOMAIN heap = {}
      BY DEF Init
    <2>2. Mapping = [n \in {} |-> NULL]
      BY <2>1 DEF Mapping, MapOf, DoomedIn
    <2> QED
      BY <2>2, Zenon DEF Forest!Init, Mapping, MapOf, Doomed, DoomedIn
  <1>2. Inv /\ FiniteHeap /\ [Next]_vars => [Forest!Next]_Mapping
    BY StepRefines
  <1>3. Inv /\ FiniteHeap /\ [Next]_vars
          => [Forest!Next]_([n \in DOMAIN heap \ Doomed |->
                 [tag |-> heap[n].tag, key |-> heap[n].key,
                  kids |-> Children(heap, n)]])
    BY <1>2, Zenon DEF Mapping, MapOf, Doomed, DoomedIn
  <1> QED
    BY <1>1, <1>3, InvAlways, FiniteAlways, PTL DEF Spec, ImplementsForest, Forest!Spec
=============================================================================
