---------------------------- MODULE MCAttachment ----------------------------
(***************************************************************************)
(* TLC instance of one attachment in both directions: what the process     *)
(* sends (Attachment) and what the client sends (TerminalInput).  The two  *)
(* share no variable, so a behaviour of both is one of each; an instance   *)
(* follows one of them, its `direction', while the other rests.            *)
(*                                                                         *)
(* Chunks of two and one units alternate, the staging buffer holds one     *)
(* large chunk and the queue pauses at three units.                        *)
(***************************************************************************)
EXTENDS Attachment, TerminalInput

VARIABLE direction

MCEnds == [c \in 0..Chunks |-> c + (c + 1) \div 2]

BothInit ==
  /\ direction \in {"output", "input"}
  /\ Init /\ InputInit
  /\ direction = "output" => rows = MaxDimension

BothNext ==
  /\ UNCHANGED direction
  /\ \/ direction = "output" /\ Next /\ UNCHANGED inputVars
     \/ direction = "input" /\ InputNext /\ UNCHANGED vars

(* The fairness of Attachment, where the output is followed. *)
Output(A) == direction = "output" /\ A

BothFairness ==
  /\ WF_vars(Output(Starter)) /\ WF_vars(Output(OutputPump))
  /\ WF_vars(Output(WritePump)) /\ WF_vars(Output(InputPump))
  /\ \A t \in Callers: WF_vars(Output(Teardown(t)))

BothSpec == BothInit /\ [][BothNext]_<<direction, vars, inputVars>> /\ BothFairness
=============================================================================
