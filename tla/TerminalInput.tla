---------------------------- MODULE TerminalInput ----------------------------
(***************************************************************************)
(* The way back, from the client to the process, of one attachment         *)
(* (terminal/attachment.go): the input pump takes the client's messages in *)
(* order -- keystrokes for the process, resize requests -- while the       *)
(* goroutine that called Start is still forcing a repaint by shrinking and *)
(* restoring the terminal.  A size is its number of rows: the columns      *)
(* travel with it.                                                         *)
(***************************************************************************)
EXTENDS Integers, Sequences

CONSTANTS
  MaxDimension,  \* Options.MaxDimension
  Sizes,         \* row counts a client may ask for, valid or not
  Pieces,        \* InputChunkSize pieces one binary message is written in
  MaxMessages    \* the client sends at most this many messages (a bound)

(* ParseDimensions gives an attachment a valid size to start from. *)
ASSUME DimensionAssumption ==
  /\ MaxDimension \in Nat \ {0} /\ Sizes \subseteq Int
  /\ Pieces \in Nat \ {0} /\ MaxMessages \in Nat

VARIABLES
  rows,     \* Attachment.rows
  pty,      \* the size the process was last given
  starter,  \* "asked", "shrink", "restore", "done": the steps of forceRepaint
  snapshot, \* the size forceRepaint read under the lock
  overtaken,\* history: the client asked for its last size while forceRepaint was at it
  pump,     \* "read", "write", "resized" or "done"
  message,  \* the message the pump is handling
  piece,    \* pieces of it written so far
  sent,     \* what the client sent, in order
  handled,  \* how many of those the pump took
  typed,    \* pieces the process received, as <<message, piece>>
  alive,    \* the process accepts calls
  ctxDone   \* Attachment.ctx is done

inputVars == <<rows, pty, starter, snapshot, overtaken, pump, message, piece,
               sent, handled, typed, alive, ctxDone>>

Valid(n) == n \in 1..MaxDimension
Resize(n) == [type |-> "resize", size |-> n]
Keys      == [type |-> "binary", size |-> 0]
Nothing   == [type |-> "none", size |-> 0]
Messages  == {Keys} \union {Resize(n): n \in Sizes}

InputInit ==
  /\ rows \in 1..MaxDimension /\ pty = rows
  /\ starter = "asked" /\ snapshot = rows /\ overtaken = FALSE
  /\ pump = "read" /\ message = Nothing /\ piece = 0
  /\ sent = <<>> /\ handled = 0 /\ typed = <<>>
  /\ alive = TRUE /\ ctxDone = FALSE

(* Process.Resize does nothing once the process is closed. *)
SetPty(n) == pty' = IF alive THEN n ELSE pty

ClientSends ==
  /\ Len(sent) < MaxMessages
  /\ \E m \in Messages: sent' = Append(sent, m)
  /\ UNCHANGED <<rows, pty, starter, snapshot, overtaken, pump, message, piece,
                 handled, typed, alive, ctxDone>>

(* inputPump and handleControl: an invalid size is ignored; a valid one goes *)
(* to the process first and into the attachment afterwards.                  *)
ReadMessage ==
  /\ pump = "read" /\ ~ctxDone
  /\ handled < Len(sent)
  /\ handled' = handled + 1
  /\ LET m == sent[handled + 1]
     IN \/ /\ m.type = "binary"
           /\ message' = m /\ piece' = 0 /\ pump' = "write"
           /\ UNCHANGED <<pty, overtaken>>
        \/ /\ m.type = "resize" /\ Valid(m.size)
           /\ SetPty(m.size)
           /\ overtaken' = (starter \in {"shrink", "restore"})
           /\ message' = m /\ pump' = "resized"
           /\ UNCHANGED piece
        \/ /\ m.type = "resize" /\ ~Valid(m.size)
           /\ UNCHANGED <<pty, overtaken, message, piece, pump>>
  /\ UNCHANGED <<rows, starter, snapshot, sent, typed, alive, ctxDone>>

(* The end of applyResize, under Attachment.mu. *)
RecordSize ==
  /\ pump = "resized"
  /\ rows' = message.size
  /\ message' = Nothing /\ pump' = "read"
  /\ UNCHANGED <<pty, starter, snapshot, overtaken, piece, sent, handled, typed,
                 alive, ctxDone>>

(* Mutant of WriteInput: one turn too many. *)
WriteOnePieceMore ==
  /\ pump = "write"
  /\ IF ~ctxDone /\ alive /\ piece <= Pieces
     THEN /\ typed' = Append(typed, <<handled, piece + 1>>)
          /\ piece' = piece + 1
          /\ UNCHANGED <<message, pump>>
     ELSE /\ message' = Nothing /\ piece' = 0 /\ pump' = "read"
          /\ UNCHANGED typed
  /\ UNCHANGED <<rows, pty, starter, snapshot, overtaken, sent, handled, alive, ctxDone>>

(* One turn of writeInput: it gives the message up when the context is done, *)
(* a write fails, or nothing is left.                                        *)
WriteInput ==
  /\ pump = "write"
  /\ IF ~ctxDone /\ alive /\ piece < Pieces
     THEN /\ typed' = Append(typed, <<handled, piece + 1>>)
          /\ piece' = piece + 1
          /\ UNCHANGED <<message, pump>>
     ELSE /\ message' = Nothing /\ piece' = 0 /\ pump' = "read"
          /\ UNCHANGED typed
  /\ UNCHANGED <<rows, pty, starter, snapshot, overtaken, sent, handled, alive, ctxDone>>

(* onClientGone, as far as the process is concerned. *)
InputEnds ==
  /\ pump = "read" /\ ctxDone
  /\ pump' = "done" /\ alive' = FALSE
  /\ UNCHANGED <<rows, pty, starter, snapshot, overtaken, message, piece, sent, handled,
                 typed, ctxDone>>

(* forceRepaint: it reads the size under the lock and resizes twice outside  *)
(* it.  A single row cannot shrink.                                          *)
RepaintRead ==
  /\ starter = "asked"
  /\ snapshot' = rows
  /\ starter' = IF rows < 2 THEN "done" ELSE "shrink"
  /\ overtaken' = (pump = "resized" /\ rows >= 2)
  /\ UNCHANGED <<rows, pty, pump, message, piece, sent, handled, typed,
                 alive, ctxDone>>

RepaintShrink ==
  /\ starter = "shrink"
  /\ SetPty(snapshot - 1)
  /\ starter' = "restore"
  /\ UNCHANGED <<rows, snapshot, overtaken, pump, message, piece, sent, handled, typed,
                 alive, ctxDone>>

(* Mutant of RepaintRestore: a cancelled attachment stays small. *)
RepaintUnrestored ==
  /\ starter = "restore"
  /\ IF ctxDone THEN UNCHANGED pty ELSE SetPty(snapshot)
  /\ starter' = "done"
  /\ UNCHANGED <<rows, snapshot, overtaken, pump, message, piece, sent, handled, typed,
                 alive, ctxDone>>

RepaintRestore ==
  /\ starter = "restore"
  /\ SetPty(snapshot)
  /\ starter' = "done"
  /\ UNCHANGED <<rows, snapshot, overtaken, pump, message, piece, sent, handled, typed,
                 alive, ctxDone>>

(* Any of the ways an attachment ends, seen from here. *)
ProcessCloses ==
  /\ alive /\ alive' = FALSE
  /\ UNCHANGED <<rows, pty, starter, snapshot, overtaken, pump, message, piece,
                 sent, handled, typed, ctxDone>>

ContextCancelled ==
  /\ ~ctxDone /\ ctxDone' = TRUE
  /\ UNCHANGED <<rows, pty, starter, snapshot, overtaken, pump, message, piece,
                 sent, handled, typed, alive>>

InputNext ==
  \/ ClientSends \/ ReadMessage \/ RecordSize \/ WriteInput \/ InputEnds
  \/ RepaintRead \/ RepaintShrink \/ RepaintRestore
  \/ ProcessCloses \/ ContextCancelled

InputSpec == InputInit /\ [][InputNext]_inputVars
-----------------------------------------------------------------------------
(* Type invariant.  In particular no sequence of requests and repaints ever  *)
(* gives the process an empty or oversized terminal.                         *)
InputTypeOK ==
  /\ {rows, snapshot, pty} \subseteq 1..MaxDimension
  /\ starter \in {"asked", "shrink", "restore", "done"}
  /\ pump \in {"read", "write", "resized", "done"}
  /\ message \in Messages \union {Nothing}
  /\ piece \in 0..Pieces
  /\ sent \in Seq(Messages) /\ handled \in 0..Len(sent)
  /\ typed \in Seq(Nat \X Nat)
  /\ {alive, ctxDone, overtaken} \subseteq BOOLEAN

(* Keystrokes reach the process in the order typed, each once; only the last *)
(* message handled may be cut short, and only by the end of the attachment:  *)
(* nothing is missing before a piece that arrived.                           *)
Owed == {e \in (1..handled) \X (1..Pieces): sent[e[1]].type = "binary"}
Arrived == {typed[i]: i \in 1..Len(typed)}
Before(e, f) == e[1] < f[1] \/ (e[1] = f[1] /\ e[2] < f[2])

InputInOrder ==
  /\ \A i, j \in 1..Len(typed): i < j => Before(typed[i], typed[j])
  /\ Arrived \subseteq Owed
  /\ \A e \in Owed, f \in Arrived: Before(e, f) => e \in Arrived
  /\ alive /\ ~ctxDone /\ pump = "read" => Arrived = Owed

(* When both goroutines are idle the process has the size the client asked   *)
(* for last, and never the shrunken one.  The exception is a size asked for  *)
(* between the read and the restore of forceRepaint: the restore may put     *)
(* back the size from before it.                                             *)
Idle == starter = "done" /\ pump = "read" /\ alive
SettlesOnAskedSize == Idle => pty = rows \/ (overtaken /\ pty = snapshot)

(* What session-hub/spec.md says without that exception: a size the client   *)
(* reports is applied to the terminal, and the final one stays.              *)
FinalSizeApplied == Idle => pty = rows
=============================================================================
