---------------------------- MODULE MCHostTrust ----------------------------
(***************************************************************************)
(* HostTrust on one identifier, first taken by the local host and free for *)
(* a remote one once that is removed, with two calls, endpoints and keys.  *)
(***************************************************************************)
EXTENDS HostTrust, TLC

Symmetry ==
  Permutations(Calls) \union Permutations(Endpoints) \union Permutations(Shown)
=============================================================================
