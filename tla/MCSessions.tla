----------------------------- MODULE MCSessions -----------------------------
(* TLC instance of Sessions: requests are interchangeable. *)
EXTENDS Sessions, TLC

CONSTANTS n1, n2

Candidates == <<n1, n2>>
Symmetry == Permutations(Requests)
=============================================================================
