------------------------------ MODULE MCTTree ------------------------------
EXTENDS TTree, TLC
Symmetry == Permutations(Nodes)
=============================================================================
