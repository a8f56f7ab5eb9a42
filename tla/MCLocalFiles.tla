---------------------------- MODULE MCLocalFiles ----------------------------
(* TLC instance of LocalFiles: no roots, one of two directories outside of   *)
(* the only root, or each in a root of its own.  Requests are                *)
(* interchangeable.                                                          *)
EXTENDS LocalFiles, TLC

CONSTANTS a, b, r1, r2

BoundariesDef ==
  {[d \in Dirs |-> NoRoot], [d \in Dirs |-> IF d = a THEN r1 ELSE NoRoot],
   [d \in Dirs |-> IF d = a THEN r1 ELSE r2]}

Symmetry == Permutations(Reqs)
=============================================================================
