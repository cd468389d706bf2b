------------------------------- MODULE KVMap -------------------------------
(***************************************************************************)
(* What db.h promises its callers: a map whose operations happen at once,  *)
(* and whose return values tell the truth.  0 means the record is stored   *)
(* (db.c:147) or deleted (db.c:116), and anything else that nothing        *)
(* changed.                                                                *)
(***************************************************************************)
CONSTANTS Keys, Values, NoCall

VARIABLES map, last

Init == (\E D \in SUBSET Keys : map \in [D -> Values]) /\ last = NoCall

Stored(k, v) ==
    /\ map' = [x \in DOMAIN map \cup {k} |-> IF x = k THEN v ELSE map[x]]
    /\ last' = [fn |-> "put", key |-> k, value |-> v, rc |-> 0]

NotStored(k, v) ==
    /\ last' = [fn |-> "put", key |-> k, value |-> v, rc |-> 1]
    /\ UNCHANGED map

Deleted(k) ==
    /\ k \in DOMAIN map
    /\ map' = [x \in DOMAIN map \ {k} |-> map[x]]
    /\ last' = [fn |-> "del", key |-> k, rc |-> 0]

NotDeleted(k) ==
    /\ last' = [fn |-> "del", key |-> k, rc |-> 1]
    /\ UNCHANGED map

Got(k) ==
    /\ k \in DOMAIN map
    /\ last' = [fn |-> "get", key |-> k, value |-> map[k]]
    /\ UNCHANGED map

NotGot(k) ==
    /\ last' = [fn |-> "get", key |-> k]
    /\ UNCHANGED map

(* The caller dies; the map does not. *)
Forgotten == last' = NoCall /\ UNCHANGED map

Next ==
    \/ \E k \in Keys :
        \/ \E v \in Values : Stored(k, v) \/ NotStored(k, v)
        \/ Deleted(k) \/ NotDeleted(k)
        \/ Got(k) \/ NotGot(k)
    \/ Forgotten

Spec == Init /\ [][Next]_<< map, last >>
=============================================================================
