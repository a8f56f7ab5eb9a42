--------------------------- MODULE TerminalStream ---------------------------
(***************************************************************************)
(* What a terminal attachment promises, whatever its buffers and threads:  *)
(* the client receives the chunks the process emitted, in order, without a *)
(* gap, except that a prefix may be discarded before the stream starts;    *)
(* and when it is told the end of a stream that ended on its own after it  *)
(* had started, it has all of it.  An attachment may stop at any point.    *)
(***************************************************************************)
EXTENDS Naturals, Sequences

CONSTANT Chunks  \* at most this many chunks are emitted (a bound)

VARIABLES
  pending,   \* emitted and not yet received, oldest first
  received,  \* what the client received
  skipped,   \* how many of the oldest chunks were discarded
  started,   \* the connection was declared ready
  ended      \* the client was told the end

streamVars == <<pending, received, skipped, started, ended>>

Init ==
  /\ pending = <<>> /\ received = <<>> /\ skipped = 0
  /\ started = FALSE /\ ended = FALSE

Emit ==
  /\ ~ended
  /\ skipped + Len(received) + Len(pending) < Chunks
  /\ pending' = Append(pending, skipped + Len(received) + Len(pending) + 1)
  /\ UNCHANGED <<received, skipped, started, ended>>

(* Nothing is discarded once the stream has started. *)
Discard(n) ==
  /\ ~started
  /\ pending' = SubSeq(pending, n + 1, Len(pending))
  /\ skipped' = skipped + n
  /\ UNCHANGED <<received, started, ended>>

Begin ==
  /\ ~started /\ started' = TRUE
  /\ UNCHANGED <<pending, received, skipped, ended>>

Receive ==
  /\ started /\ pending # <<>>
  /\ received' = Append(received, Head(pending))
  /\ pending' = Tail(pending)
  /\ UNCHANGED <<skipped, started, ended>>

End ==
  /\ started /\ pending = <<>> /\ ended' = TRUE
  /\ UNCHANGED <<pending, received, skipped, started>>

Next == Emit \/ Begin \/ Receive \/ End \/ \E n \in 1..Len(pending): Discard(n)

Spec == Init /\ [][Next]_streamVars
=============================================================================
