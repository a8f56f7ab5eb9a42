----------------------------- MODULE MCRemoteHost -----------------------------
(***************************************************************************)
(* TLC instance of what the hub does on an SSH host by its files           *)
(* (RemoteFiles) and of the connections it reaches the host by             *)
(* (ConnectionManager).  The two share no variable, so a behaviour of both *)
(* is one of each; an instance follows one of them, its `part', while the  *)
(* other rests.  The requests of one are the calls of the other, so they   *)
(* are interchangeable together.                                           *)
(***************************************************************************)
EXTENDS MCRemoteFiles, ConnectionManager

VARIABLE part

BothInit ==
  /\ part \in {"files", "connections"}
  /\ Init /\ ConnectionInit
  /\ part = "connections" => file = [n \in Names |-> None]

BothNext ==
  /\ UNCHANGED part
  /\ \/ part = "files" /\ Next /\ UNCHANGED connectionVars
     \/ part = "connections" /\ ConnectionNext /\ UNCHANGED vars

BothSpec == BothInit /\ [][BothNext]_<<part, vars, connectionVars>>

=============================================================================
