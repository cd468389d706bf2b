------------------------------ MODULE JsonTree ------------------------------
(***************************************************************************)
(* The trees of json.c: nodes with pointers to parent, siblings, and first *)
(* and last child, changed by any sequence of legal calls.  json_delete    *)
(* recurs, and is a step for every call, child and free().                 *)
(*                                                                         *)
(* The values of strings, numbers and booleans are left out: these nodes   *)
(* are all of tag "VALUE".                                                 *)
(***************************************************************************)
EXTENDS Integers, FiniteSets, Sequences

CONSTANTS
    Node,       \* places for a JsonNode
    Key,        \* names of members
    NULL

ASSUME NullAssumption == NULL \notin Node /\ NULL \notin Key

VARIABLES
    heap,       \* the allocated nodes
    stack       \* calls of json_delete: [node, child], the child to delete next

vars == << heap, stack >>

Tags == {"VALUE", "ARRAY", "OBJECT"}
Containers == {"ARRAY", "OBJECT"}

-----------------------------------------------------------------------------
(* calloc clears every field. *)
mknode(tag) ==
    [tag |-> tag, key |-> NULL, parent |-> NULL, prev |-> NULL, next |-> NULL,
     head |-> NULL, tail |-> NULL]

(* The mistake: the former last child does not point to the new one. *)
append_nodeUnlinked(h, parent, child) ==
    [h EXCEPT ![child].parent = parent, ![child].prev = h[parent].tail,
              ![child].next = NULL,
              ![parent].head = IF @ = NULL THEN child ELSE @,
              ![parent].tail = child]

append_node(h, parent, child) ==
    LET last == h[parent].tail
        placed == [h EXCEPT ![child].parent = parent, ![child].prev = last,
                            ![child].next = NULL, ![parent].tail = child]
    IN  IF last # NULL THEN [placed EXCEPT ![last].next = child]
                       ELSE [placed EXCEPT ![parent].head = child]

prepend_node(h, parent, child) ==
    LET first == h[parent].head
        placed == [h EXCEPT ![child].parent = parent, ![child].prev = NULL,
                            ![child].next = first, ![parent].head = child]
    IN  IF first # NULL THEN [placed EXCEPT ![first].prev = child]
                        ELSE [placed EXCEPT ![parent].tail = child]

(* Mistake: children.tail is not set back. *)
json_remove_from_parentKeepsTail(h, node) ==
    LET me == h[node]
        left == IF me.prev # NULL THEN [h EXCEPT ![me.prev].next = me.next]
                                  ELSE [h EXCEPT ![me.parent].head = me.next]
        right == IF me.next # NULL THEN [left EXCEPT ![me.next].prev = me.prev]
                                   ELSE left
    IN  IF me.parent = NULL THEN h
        ELSE [right EXCEPT ![node] = [@ EXCEPT !.parent = NULL, !.prev = NULL,
                                               !.next = NULL, !.key = NULL]]

json_remove_from_parent(h, node) ==
    LET me == h[node]
        left == IF me.prev # NULL THEN [h EXCEPT ![me.prev].next = me.next]
                                  ELSE [h EXCEPT ![me.parent].head = me.next]
        right == IF me.next # NULL
                 THEN [left EXCEPT ![me.next].prev = me.prev]
                 ELSE [left EXCEPT ![me.parent].tail = me.prev]
    IN  IF me.parent = NULL THEN h
        ELSE [right EXCEPT ![node] = [@ EXCEPT !.parent = NULL, !.prev = NULL,
                                               !.next = NULL, !.key = NULL]]

(* A node, and all it is in. *)
Ancestors(h, node) ==
    LET up[k \in 0 .. Cardinality(DOMAIN h)] ==
          IF k = 0 THEN {h[node].parent} \ {NULL}
          ELSE up[k - 1] \cup ({h[m].parent : m \in up[k - 1]} \ {NULL})
    IN  {node} \cup up[Cardinality(DOMAIN h)]

-----------------------------------------------------------------------------
Init == heap = [n \in {} |-> NULL] /\ stack = << >>

Idle == stack = << >>    \* no call is running: a tree belongs to one thread

(* json_mknull, json_mkbool, json_mkstring, json_mknumber, json_mkarray and *)
(* json_mkobject.                                                           *)
Make(n, tag) ==
    /\ Idle /\ n \notin DOMAIN heap
    /\ heap' = [m \in DOMAIN heap \cup {n} |->
                  IF m = n THEN mknode(tag) ELSE heap[m]]
    /\ UNCHANGED stack

(* The code asserts that the child is in no tree; that it is not the tree  *)
(* it is put into is the caller's part.                                    *)
MayPut(parent, child) ==
    /\ Idle
    /\ heap[child].parent = NULL
    /\ child \notin Ancestors(heap, parent)

json_append_element(array, element) ==
    /\ heap[array].tag = "ARRAY" /\ MayPut(array, element)
    /\ heap' = append_node(heap, array, element)
    /\ UNCHANGED stack

json_prepend_element(array, element) ==
    /\ heap[array].tag = "ARRAY" /\ MayPut(array, element)
    /\ heap' = prepend_node(heap, array, element)
    /\ UNCHANGED stack

json_append_member(object, key, value) ==
    /\ heap[object].tag = "OBJECT" /\ MayPut(object, value)
    /\ heap' = append_node([heap EXCEPT ![value].key = key], object, value)
    /\ UNCHANGED stack

json_prepend_member(object, key, value) ==
    /\ heap[object].tag = "OBJECT" /\ MayPut(object, value)
    /\ heap' = prepend_node([heap EXCEPT ![value].key = key], object, value)
    /\ UNCHANGED stack

Detach(node) ==
    /\ Idle
    /\ heap' = json_remove_from_parent(heap, node)
    /\ UNCHANGED stack

(* json_delete(node) takes the node out of its tree, h is then the heap, *)
(* and begins with its first child.                                      *)
Call(h, node) ==
    [node |-> node, child |-> IF h[node].tag \in Containers THEN h[node].head ELSE NULL]

DeleteBegins(node) ==
    /\ Idle
    /\ heap' = json_remove_from_parent(heap, node)
    /\ stack' = << Call(heap', node) >>

(* The next child is read before this one is deleted.  The mistakes: it is *)
(* read after; the child is left in its parent.                            *)
DeleteChildReadsLate ==
    /\ stack # << >>
    /\ LET top == Head(stack)
       IN  /\ top.child # NULL
           /\ heap' = json_remove_from_parent(heap, top.child)
           /\ stack' = << Call(heap', top.child),
                          [top EXCEPT !.child = heap'[top.child].next] >>
                          \o Tail(stack)

DeleteChildInPlace ==
    /\ stack # << >>
    /\ LET top == Head(stack)
       IN  /\ top.child # NULL
           /\ stack' = << Call(heap, top.child),
                          [top EXCEPT !.child = heap[top.child].next] >>
                          \o Tail(stack)
    /\ UNCHANGED heap

DeleteChild ==
    /\ stack # << >>
    /\ LET top == Head(stack)
       IN  /\ top.child # NULL
           /\ heap' = json_remove_from_parent(heap, top.child)
           /\ stack' = << Call(heap', top.child),
                          [top EXCEPT !.child = heap[top.child].next] >>
                          \o Tail(stack)

DeleteFrees ==
    /\ stack # << >> /\ Head(stack).child = NULL
    /\ heap' = [m \in DOMAIN heap \ {Head(stack).node} |-> heap[m]]
    /\ stack' = Tail(stack)

Next ==
    \/ \E n \in Node, tag \in Tags : Make(n, tag)
    \/ \E p, c \in DOMAIN heap :
          \/ json_append_element(p, c)
          \/ json_prepend_element(p, c)
          \/ \E key \in Key : json_append_member(p, key, c)
          \/ \E key \in Key : json_prepend_member(p, key, c)
    \/ \E n \in DOMAIN heap : Detach(n) \/ DeleteBegins(n)
    \/ DeleteChild \/ DeleteFrees

Spec == Init /\ [][Next]_vars

-----------------------------------------------------------------------------
(* Shapes of the variables; no pointer leads to a node that was freed.     *)
Pointer == DOMAIN heap \cup {NULL}

TypeOK ==
    /\ DOMAIN heap \subseteq Node
    /\ heap \in [DOMAIN heap ->
                   [tag : Tags, key : Key \cup {NULL}, parent : Pointer,
                    prev : Pointer, next : Pointer, head : Pointer, tail : Pointer]]
    /\ stack \in Seq([node : DOMAIN heap, child : Pointer])

(* Siblings point at each other and to one parent, whose head and tail are *)
(* the first and the last of them, after every call and within json_delete *)
(* (append_node, prepend_node and json_remove_from_parent).                *)
LinksAgree ==
    \A n \in DOMAIN heap :
        LET me == heap[n]
        IN  /\ me.parent # n
            /\ me.next # NULL =>
                 heap[me.next].prev = n /\ heap[me.next].parent = me.parent
            /\ me.prev # NULL =>
                 heap[me.prev].next = n /\ heap[me.prev].parent = me.parent
            /\ IF me.parent = NULL
               THEN me.prev = NULL /\ me.next = NULL /\ me.key = NULL
               ELSE /\ heap[me.parent].tag \in Containers
                    /\ me.key = NULL <=> heap[me.parent].tag = "ARRAY"
                    /\ me.prev = NULL <=> heap[me.parent].head = n
                    /\ me.next = NULL <=> heap[me.parent].tail = n
            /\ me.head # NULL => heap[me.head].parent = n
            /\ me.tail # NULL => heap[me.tail].parent = n
            /\ me.head = NULL <=> me.tail = NULL

(* The children of a node in order, as json_foreach visits them.           *)
Children(h, n) ==
    LET walk[k \in 0 .. Cardinality(DOMAIN h)] ==
          IF k = 0
          THEN IF h[n].head = NULL THEN << >> ELSE << h[n].head >>
          ELSE LET w == walk[k - 1]
               IN  IF w = << >> \/ h[w[Len(w)]].next = NULL THEN w
                   ELSE Append(w, h[w[Len(w)]].next)
    IN  walk[Cardinality(DOMAIN h)]

(* What json_check tests at one node, but for the texts. *)
json_check(h, node) ==
    LET me == h[node]
        kids == Children(h, node)
        ChildOk(c) ==
            /\ c # node /\ h[c].next # c /\ h[c].next # me.head
            /\ h[c].parent = node
            /\ h[c].next # NULL => h[h[c].next].prev = c
            /\ me.tag = "ARRAY" => h[c].key = NULL
            /\ me.tag = "OBJECT" => h[c].key # NULL
    IN  me.tag \in Containers =>
          \/ me.head = NULL /\ me.tail = NULL
          \/ /\ me.head # NULL /\ me.tail # NULL
             /\ h[me.head].prev = NULL
             /\ \A k \in DOMAIN kids : ChildOk(kids[k])
             /\ kids[Len(kids)] = me.tail

(* json_check, the library's own test of a tree, accepts every tree that   *)
(* the functions of the library can make.                                  *)
CheckAccepts == \A n \in DOMAIN heap : json_check(heap, n)

(* The functions implement sequences of children: one change at the right  *)
(* place for every call; json_delete frees the subtree and nothing else,   *)
(* at once for who does not look at the nodes on its way out.              *)
Doomed ==
    {n \in DOMAIN heap :
        \E k \in DOMAIN stack : stack[k].node \in Ancestors(heap, n)}

Forest == INSTANCE JsonForest WITH
    forest <- [n \in DOMAIN heap \ Doomed |->
                 [tag |-> heap[n].tag, key |-> heap[n].key,
                  kids |-> Children(heap, n)]]

ImplementsForest == Forest!Spec
=============================================================================
