---------------------------- MODULE MCJsonTree ----------------------------
(***************************************************************************)
(* An instance of JsonTree for TLC.  Nodes are interchangeable.            *)
(***************************************************************************)
EXTENDS JsonTree, TLC

Symmetric == Permutations(Node)
=============================================================================
