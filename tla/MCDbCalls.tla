----------------------------- MODULE MCDbCalls -----------------------------
(* Instances of DbCalls for TLC. *)
EXTENDS DbCalls

CONSTANTS k1, k2, k3, v1, v2

TwoKeys == {k1, k2}
ThreeKeys == {k1, k2, k3}
LongKey == {k3}
NoKeys == {}
TwoValues == {v1, v2}

Recoverable == {"begin", "read", "full"}
=============================================================================
