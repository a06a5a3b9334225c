--------------------------- MODULE SPTAGIndexMC ---------------------------
(***************************************************************************)
(* SPTAGIndex for TLC: neither the threads nor the metadata are told apart *)
(* by the code.                                                            *)
(***************************************************************************)
EXTENDS SPTAGIndex, TLC

Symmetry == Permutations(Adders) \cup Permutations(Metas)
=============================================================================
