---------------------------- MODULE MCMarkovChain ----------------------------
(* Symbols are interchangeable: nothing compares them but for equality.     *)
EXTENDS MarkovChain

Symmetry == Permutations(Symbols)
=============================================================================
