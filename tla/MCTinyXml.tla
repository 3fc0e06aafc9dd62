----------------------------- MODULE MCTinyXml -----------------------------
(* Instances for TLC: two names that may be exchanged. *)
EXTENDS TinyXml, TLC

Symmetry == Permutations(Name)
=============================================================================
