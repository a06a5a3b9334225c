---------------------------- MODULE VamanaGraphMC ----------------------------
(* Tags are interchangeable. *)
EXTENDS VamanaGraph, TLC

Symmetry == Permutations(Tags)
=============================================================================
