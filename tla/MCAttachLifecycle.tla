-------------------------- MODULE MCAttachLifecycle --------------------------
(***************************************************************************)
(* TLC instance of the attachments of a host's life (AttachLifecycle) and  *)
(* of the requests for its sessions (Sessions).  The two share no          *)
(* variable, so a behaviour of both is one of each; an instance follows    *)
(* one of them, its `part', while the other rests.  The requests of one    *)
(* are the handlers of the other, so they are interchangeable together.    *)
(***************************************************************************)
EXTENDS AttachLifecycle, MCSessions

VARIABLE part

BothInit ==
  /\ part \in {"attachments", "requests"}
  /\ Init /\ SessionsInit
  /\ part = "attachments" => remote /\ server = {}
  /\ part = "requests" => current = [h \in Hosts |-> 0]

BothNext ==
  /\ UNCHANGED part
  /\ \/ part = "attachments" /\ Next /\ UNCHANGED sessionVars
     \/ part = "requests" /\ SessionsNext /\ UNCHANGED vars

BothSpec == BothInit /\ [][BothNext]_<<part, vars, sessionVars>>

BothSymmetry == Symmetry \union Permutations(Editors)
=============================================================================
