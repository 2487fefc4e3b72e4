---------------------------- MODULE MCExecContext ----------------------------
(* Instances of ExecContext for TLC. Heap addresses are interchangeable,   *)
(* and so are guest values and guest destructors; the liveness run uses no *)
(* symmetry.                                                               *)
EXTENDS ExecContext, TLC

Symmetry == Permutations(Wrappers) \cup Permutations(Values) \cup Permutations(Dtors)
==============================================================================
