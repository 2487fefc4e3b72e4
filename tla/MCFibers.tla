------------------------------- MODULE MCFibers -------------------------------
(* Instances of Fibers for TLC.                                            *)
EXTENDS Fibers, TLC

Symmetry == Permutations(Comparators)
==============================================================================
