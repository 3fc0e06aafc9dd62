------------------------------ MODULE MCTList ------------------------------
(* Instances for TLC.  Which node malloc returns does not matter. *)
EXTENDS TList, TLC

AnyNode == Permutations(Node)
=============================================================================
