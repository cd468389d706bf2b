----------------------------- MODULE JsonForest -----------------------------
(***************************************************************************)
(* What the tree functions of json.c promise: every node has a sequence of *)
(* children, a node is a child at most once, and deleting a node deletes   *)
(* what is under it and nothing else.                                      *)
(***************************************************************************)
EXTENDS Integers, FiniteSets, SequencesExt

CONSTANTS Node, Key, NULL

VARIABLE forest     \* the nodes there are: [tag, key, kids]

Children(n) == {forest[n].kids[k] : k \in DOMAIN forest[n].kids}

Root(n) == \A p \in DOMAIN forest : n \notin Children(p)

(* n and everything below it *)
Subtree(n) ==
    LET down[k \in 0 .. Cardinality(DOMAIN forest)] ==
          IF k = 0 THEN {n}
          ELSE down[k - 1] \cup UNION {Children(m) : m \in down[k - 1]}
    IN  down[Cardinality(DOMAIN forest)]

Detached(n) ==
    [m \in DOMAIN forest |->
        IF m = n THEN [forest[m] EXCEPT !.key = NULL]
        ELSE [forest[m] EXCEPT !.kids = RemoveFirst(@, n)]]

Init == forest = [n \in {} |-> NULL]

Make(n, tag) ==
    /\ n \in Node \ DOMAIN forest
    /\ forest' = [m \in DOMAIN forest \cup {n} |->
                    IF m = n THEN [tag |-> tag, key |-> NULL, kids |-> << >>]
                    ELSE forest[m]]

(* A root becomes the first or the last child: with a key of an object, *)
(* with none of an array.                                               *)
Insert(p, c, key) ==
    /\ Root(c) /\ p \notin Subtree(c)
    /\ \/ forest[p].tag = "ARRAY" /\ key = NULL
       \/ forest[p].tag = "OBJECT" /\ key \in Key
    /\ \E kids \in {Append(forest[p].kids, c), << c >> \o forest[p].kids} :
          forest' = [forest EXCEPT ![c].key = key, ![p].kids = kids]

Detach(n) == forest' = Detached(n)

Delete(n) ==
    forest' = [m \in DOMAIN forest \ Subtree(n) |-> Detached(n)[m]]

Next ==
    \/ \E n \in Node, tag \in {"VALUE", "ARRAY", "OBJECT"} : Make(n, tag)
    \/ \E p, c \in DOMAIN forest, key \in Key \cup {NULL} : Insert(p, c, key)
    \/ \E n \in DOMAIN forest : Detach(n) \/ Delete(n)

Spec == Init /\ [][Next]_forest
=============================================================================
