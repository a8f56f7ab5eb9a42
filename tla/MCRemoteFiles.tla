---------------------------- MODULE MCRemoteFiles ----------------------------
(* TLC instance of RemoteFiles: requests are interchangeable, and so are     *)
(* names.  Everything happens in one second, or in one after the second of   *)
(* what was there at first.                                                  *)
EXTENDS RemoteFiles, TLC

OneSecond(c)   == 1
TwoSeconds(c)  == IF c = Initial THEN 1 ELSE 2

Symmetry == Permutations(Ops) \union Permutations(Names)
=============================================================================
