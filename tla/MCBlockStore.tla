---------------------------- MODULE MCBlockStore ----------------------------
(* TLC instance of the block store: tabs are interchangeable.              *)
EXTENDS BlockStoreRefinement, TLC

Symmetry == Permutations(Handles)
=============================================================================
