------------------------------ MODULE Attachment ------------------------------
(***************************************************************************)
(* One terminal attachment of the hub (terminal/attachment.go) with its    *)
(* output queue (queue.go), its pre-ready staging buffer (staging.go), the *)
(* process it reads and the peer it writes to.                             *)
(*                                                                         *)
(* The threads are the goroutine that calls Start, the three pumps it      *)
(* launches, and the two callers the manager may send at any moment after  *)
(* registration: Shutdown and ForceClose.  A step is what a thread does    *)
(* between two points at which another thread can observe it.  A chunk of  *)
(* output is its number; where it ends in the output of the process gives  *)
(* its length.                                                             *)
(***************************************************************************)
EXTENDS Naturals, Sequences

CONSTANTS
  Chunks,       \* the process emits at most this many chunks (a bound)
  Ends,         \* Ends[c]: bytes the process has emitted with its chunk c
  InputChunkSize,  \* Options.InputChunkSize, what one read returns at most
  HighWater,    \* OutputHighWaterBytes
  LowWater,     \* OutputLowWaterBytes
  StageCap,     \* StagingBufferBytes
  Callers       \* the manager's calls that may come: of "shutdown", "force"

(* config/validate.go refuses any other watermark. *)
ASSUME WatermarkAssumption ==
  /\ Chunks \in Nat
  /\ Ends \in [0..Chunks -> Nat]
  /\ \A b, c \in 0..Chunks: b < c => Ends[b] < Ends[c]
  /\ InputChunkSize \in Nat
  /\ \A c \in 1..Chunks: Ends[c] <= Ends[c - 1] + InputChunkSize
  /\ LowWater \in Nat /\ HighWater \in Nat /\ StageCap \in Nat
  /\ 0 < LowWater /\ LowWater < HighWater
  /\ Callers \subseteq {"shutdown", "force"}

VARIABLES
  pc,        \* pc[t]: what thread t does next
  ready,     \* Attachment.ready
  stage,     \* StagingBuffer.chunks
  queue,     \* OutputQueue.chunks
  paused,    \* OutputQueue.paused
  closed,    \* OutputQueue.closed
  exitCode,  \* OutputQueue.exitCode: "nil" or "code"
  cancelled, \* Attachment.ctx is done
  reading,   \* chunk the output pump holds, 0 if none
  sending,   \* chunk the write pump holds, 0 if none
  running,   \* the attach client still runs
  waited,    \* the process was reaped by Wait
  produced,  \* chunks read from the process so far
  evicted,   \* chunks the staging buffer discarded
  open,      \* the connection to the client is open
  received,  \* chunks the client received, in order
  control,   \* control frames it received: "ready", "exit"
  tracked,   \* the manager still holds this attachment
  cleanEnd   \* history: CloseWithExit closed an open queue after the flush

procVars  == <<running, waited, produced>>
queueVars == <<queue, paused, closed, exitCode, cleanEnd>>
stageVars == <<ready, stage, evicted>>
peerVars  == <<open, received, control>>
vars == <<pc, procVars, queueVars, stageVars, peerVars,
          cancelled, reading, sending, tracked>>

Threads == {"start", "output", "write", "input"} \union Callers
Positions == {"unborn", "idle", "launch", "ready", "flush", "unstage", "loop", "poll",
              "read", "deliver", "push", "end", "exit", "detach", "pop", "asleep", "send",
              "close", "abnormal", "cancel", "release", "hangup", "finish", "done"}

(* OutputQueue.bytes and StagingBuffer.size: a buffer holds chunks that      *)
(* follow one another (InOrder of AttachmentProofs).                         *)
SizeOf(c) == Ends[c] - Ends[c - 1]
Bytes(s) == IF s = <<>> THEN 0 ELSE Ends[s[Len(s)]] - Ends[s[1] - 1]

Init ==
  /\ pc = [t \in Threads |-> CASE t = "start" -> "launch"
                               [] t \in Callers -> "idle"
                               [] OTHER -> "unborn"]
  /\ ready = FALSE /\ stage = <<>> /\ evicted = 0
  /\ queue = <<>> /\ paused = FALSE /\ closed = FALSE /\ exitCode = "nil"
  /\ cleanEnd = FALSE
  /\ cancelled = FALSE /\ reading = 0 /\ sending = 0
  /\ running = TRUE /\ waited = FALSE /\ produced = 0
  /\ open = TRUE /\ received = <<>> /\ control = {}
  /\ tracked = TRUE

-----------------------------------------------------------------------------
(* Helpers.  Waking is cond.Signal and cond.Broadcast: Pop's only sleeper is *)
(* the write pump.                                                           *)

Goto(t, l) == pc' = [pc EXCEPT ![t] = l]

(* Mutant of GotoWaking: the sleeper in Pop is not signalled. *)
GotoWithoutWaking(t, l) == pc' = [pc EXCEPT ![t] = l]

GotoWaking(t, l) ==
  pc' = [pc EXCEPT ![t] = l, !["write"] = IF @ = "asleep" THEN "pop" ELSE @]

(* A write reaches an open peer, unless its context ends first.  A write that *)
(* times out breaks the connection (coder/websocket).                         *)
SentText(kind) ==
  /\ open
  /\ control' = control \union {kind} /\ UNCHANGED <<open, received>>

SentBinary(c) ==
  /\ open
  /\ received' = Append(received, c) /\ UNCHANGED <<open, control>>

WriteFails ==
  /\ open' \in IF cancelled THEN {open, FALSE} ELSE {FALSE}
  /\ UNCHANGED <<received, control>>

-----------------------------------------------------------------------------
(* Start *)

Launch ==
  /\ pc["start"] = "launch"
  /\ pc' = [pc EXCEPT !["start"] = "ready", !["output"] = "loop",
                      !["write"] = "pop", !["input"] = "read"]
  /\ UNCHANGED <<procVars, queueVars, stageVars, peerVars,
                 cancelled, reading, sending, tracked>>

SendReady ==
  /\ pc["start"] = "ready"
  /\ (~cancelled /\ SentText("ready")) \/ WriteFails
  /\ Goto("start", "flush")
  /\ UNCHANGED <<procVars, queueVars, stageVars,
                 cancelled, reading, sending, tracked>>

(* markReadyAndFlush holds Attachment.mu from here to the end of the flush.  *)
MarkReady ==
  /\ pc["start"] = "flush"
  /\ ready' = TRUE
  /\ Goto("start", "unstage")
  /\ UNCHANGED <<procVars, queueVars, peerVars, stage, evicted,
                 cancelled, reading, sending, tracked>>

(* Mutant of Flush: the push does not signal. *)
FlushWithoutSignal ==
  /\ pc["start"] = "unstage"
  /\ \/ /\ stage # <<>>
        /\ queue' = Append(queue, Head(stage))
        /\ stage' = Tail(stage)
        /\ UNCHANGED pc
     \/ /\ stage = <<>>
        /\ Goto("start", "done")
        /\ UNCHANGED <<queue, stage>>
  /\ UNCHANGED <<procVars, peerVars, ready, evicted, paused, closed, exitCode,
                 cleanEnd, cancelled, reading, sending, tracked>>

(* One push of the flush; the mutex is released after the last. *)
Flush ==
  /\ pc["start"] = "unstage"
  /\ \/ /\ stage # <<>>
        /\ queue' = Append(queue, Head(stage))
        /\ stage' = Tail(stage)
        /\ GotoWaking("start", "unstage")
     \/ /\ stage = <<>>
        /\ Goto("start", "done")
        /\ UNCHANGED <<queue, stage>>
  /\ UNCHANGED <<procVars, peerVars, ready, evicted, paused, closed, exitCode,
                 cleanEnd, cancelled, reading, sending, tracked>>

-----------------------------------------------------------------------------
(* outputPump *)

(* Mutant of Behind: the limits count chunks instead of bytes. *)
BehindCountsChunks ==
  IF paused THEN Len(queue) >= LowWater ELSE Len(queue) >= HighWater

(* The hysteresis of OutputQueue.ShouldRead. *)
Behind == IF paused THEN Bytes(queue) >= LowWater ELSE Bytes(queue) >= HighWater

(* The head of the loop: the context, then OutputQueue.ShouldRead. *)
OutputLoop ==
  /\ pc["output"] = "loop"
  /\ \/ /\ cancelled \/ closed
        /\ Goto("output", "detach")
        /\ UNCHANGED paused
     \/ /\ ~cancelled /\ ~closed
        /\ paused' = Behind
        /\ Goto("output", IF Behind THEN "poll" ELSE "read")
  /\ UNCHANGED <<procVars, stageVars, peerVars, queue, closed, exitCode, cleanEnd,
                 cancelled, reading, sending, tracked>>

OutputPoll ==
  /\ pc["output"] = "poll"
  /\ Goto("output", IF cancelled THEN "detach" ELSE "loop")
  /\ UNCHANGED <<procVars, queueVars, stageVars, peerVars,
                 cancelled, reading, sending, tracked>>

(* A read that returns output. *)
OutputRead ==
  /\ pc["output"] = "read"
  /\ running /\ produced < Chunks
  /\ produced' = produced + 1
  /\ reading' = produced + 1
  /\ Goto("output", "deliver")
  /\ UNCHANGED <<queueVars, stageVars, peerVars, running, waited,
                 cancelled, sending, tracked>>

(* A read that fails: the process ended, or was closed under the read. *)
OutputReadFails ==
  /\ pc["output"] = "read"
  /\ ~running
  /\ Goto("output", "end")
  /\ UNCHANGED <<procVars, queueVars, stageVars, peerVars,
                 cancelled, reading, sending, tracked>>

(* StagingBuffer.Write drops whole chunks, oldest first, until the rest fits. *)
Fits(s, room, k) == k = Len(s) \/ Bytes(SubSeq(s, k + 1, Len(s))) <= room

Evict(s, room) ==
  LET drop == CHOOSE k \in 0..Len(s):
                Fits(s, room, k) /\ \A j \in 0..(k - 1): ~Fits(s, room, j)
  IN SubSeq(s, drop + 1, Len(s))

(* The buffer with chunk c written to it. *)
Staged(c) ==
  Append(Evict(stage, IF SizeOf(c) > StageCap THEN 0 ELSE StageCap - SizeOf(c)), c)

(* Mutant of Deliver: the flush is not waited for. *)
DeliverDuringFlush ==
  /\ pc["output"] = "deliver"
  /\ \/ /\ ~ready
        /\ stage' = Staged(reading)
        /\ evicted' = evicted + (Len(stage) + 1) - Len(stage')
        /\ reading' = 0
        /\ Goto("output", "loop")
     \/ /\ ready
        /\ Goto("output", "push")
        /\ UNCHANGED <<stage, evicted, reading>>
  /\ UNCHANGED <<procVars, queueVars, peerVars, ready,
                 cancelled, sending, tracked>>

(* The part of deliver under Attachment.mu. *)
Deliver ==
  /\ pc["output"] = "deliver" /\ pc["start"] # "unstage"
  /\ \/ /\ ~ready
        /\ stage' = Staged(reading)
        /\ evicted' = evicted + (Len(stage) + 1) - Len(stage')
        /\ reading' = 0
        /\ Goto("output", "loop")
     \/ /\ ready
        /\ Goto("output", "push")
        /\ UNCHANGED <<stage, evicted, reading>>
  /\ UNCHANGED <<procVars, queueVars, peerVars, ready,
                 cancelled, sending, tracked>>

(* OutputQueue.Push: it does not look at closed. *)
Push ==
  /\ pc["output"] = "push"
  /\ queue' = Append(queue, reading)
  /\ reading' = 0
  /\ GotoWaking("output", "loop")
  /\ UNCHANGED <<procVars, stageVars, peerVars, paused, closed, exitCode, cleanEnd,
                 cancelled, sending, tracked>>

(* onOutputEnd: Close and Wait ... *)
OutputEnd ==
  /\ pc["output"] = "end"
  /\ waited' = TRUE
  /\ Goto("output", "exit")
  /\ UNCHANGED <<queueVars, stageVars, peerVars, running, produced,
                 cancelled, reading, sending, tracked>>

(* ... then CloseWithExit with what Wait returned: a status of the attach     *)
(* client, or none when it was killed or the transport was lost.             *)
OutputExit ==
  /\ pc["output"] = "exit"
  /\ closed' = TRUE
  /\ exitCode' \in {"code", "nil"}
  /\ cleanEnd' = (pc["start"] = "done" /\ ~closed)
  /\ GotoWaking("output", "done")
  /\ UNCHANGED <<procVars, stageVars, peerVars, queue, paused,
                 cancelled, reading, sending, tracked>>

(* Mutant of OutputDetach: the process is not waited for. *)
DetachUnreaped ==
  /\ pc["output"] = "detach"
  /\ running' = FALSE
  /\ Goto("output", "done")
  /\ UNCHANGED <<queueVars, stageVars, peerVars, waited, produced,
                 cancelled, reading, sending, tracked>>

OutputDetach ==
  /\ pc["output"] = "detach"
  /\ running' = FALSE
  /\ waited' = TRUE
  /\ Goto("output", "done")
  /\ UNCHANGED <<queueVars, stageVars, peerVars, produced,
                 cancelled, reading, sending, tracked>>

-----------------------------------------------------------------------------
(* writePump *)

Pop ==
  /\ pc["write"] = "pop"
  /\ \/ /\ queue # <<>>
        /\ sending' = Head(queue)
        /\ queue' = Tail(queue)
        /\ Goto("write", "send")
     \/ /\ queue = <<>>
        /\ Goto("write", IF closed THEN "exit" ELSE "asleep")
        /\ UNCHANGED <<sending, queue>>
  /\ UNCHANGED <<procVars, stageVars, peerVars, paused, closed, exitCode, cleanEnd,
                 cancelled, reading, tracked>>

SendBinary ==
  /\ pc["write"] = "send"
  /\ \/ /\ ~cancelled /\ SentBinary(sending)
        /\ sending' = 0
        /\ Goto("write", "pop")
     \/ /\ WriteFails
        /\ Goto("write", "abnormal")
        /\ UNCHANGED sending
  /\ UNCHANGED <<procVars, queueVars, stageVars, cancelled, reading, tracked>>

SendExit ==
  /\ pc["write"] = "exit"
  /\ \/ /\ exitCode = "code"
        /\ SentText("exit") \/ (open' = FALSE /\ UNCHANGED <<received, control>>)
     \/ exitCode = "nil" /\ UNCHANGED peerVars
  /\ Goto("write", "close")
  /\ UNCHANGED <<procVars, queueVars, stageVars,
                 cancelled, reading, sending, tracked>>

CloseNormal ==
  /\ pc["write"] = "close"
  /\ open' = FALSE
  /\ Goto("write", "finish")
  /\ UNCHANGED <<procVars, queueVars, stageVars, received, control,
                 cancelled, reading, sending, tracked>>

-----------------------------------------------------------------------------
(* inputPump: a read fails once the peer or the context is gone.  A read     *)
(* cancelled by its context may also break the connection (coder/websocket). *)

InputFails ==
  /\ pc["input"] = "read"
  /\ ~open \/ cancelled
  /\ open' \in {open, FALSE}
  /\ Goto("input", "abnormal")
  /\ UNCHANGED <<procVars, queueVars, stageVars, received, control,
                 cancelled, reading, sending, tracked>>

-----------------------------------------------------------------------------
(* The teardown sequence.  Shutdown, ForceClose, onClientGone and the error  *)
(* path of the write pump are the same calls with some left out:             *)
(* CloseAbnormal, cancel, Detach, Close or CloseNow, finish.                 *)

BeginTeardown(t) ==
  /\ t \in Callers /\ pc[t] = "idle" /\ tracked
  /\ Goto(t, "abnormal")
  /\ UNCHANGED <<procVars, queueVars, stageVars, peerVars,
                 cancelled, reading, sending, tracked>>

CloseAbnormal(t) ==
  /\ pc[t] = "abnormal"
  /\ closed' = TRUE
  /\ GotoWaking(t, IF t = "write" THEN "release" ELSE "cancel")
  /\ UNCHANGED <<procVars, stageVars, peerVars, queue, paused, exitCode, cleanEnd,
                 cancelled, reading, sending, tracked>>

Cancel(t) ==
  /\ pc[t] = "cancel"
  /\ cancelled' = TRUE
  /\ Goto(t, "release")
  /\ UNCHANGED <<procVars, queueVars, stageVars, peerVars,
                 reading, sending, tracked>>

Detach(t) ==
  /\ pc[t] = "release"
  /\ running' = FALSE
  /\ Goto(t, IF t = "input" THEN "finish" ELSE "hangup")
  /\ UNCHANGED <<queueVars, stageVars, peerVars, waited, produced,
                 cancelled, reading, sending, tracked>>

HangUp(t) ==
  /\ pc[t] = "hangup"
  /\ open' = FALSE
  /\ Goto(t, "finish")
  /\ UNCHANGED <<procVars, queueVars, stageVars, received, control,
                 cancelled, reading, sending, tracked>>

(* finish, behind sync.Once. *)
Finish(t) ==
  /\ pc[t] = "finish"
  /\ cancelled' = TRUE
  /\ tracked' = FALSE
  /\ Goto(t, "done")
  /\ UNCHANGED <<procVars, queueVars, stageVars, peerVars, reading, sending>>

Teardown(t) == CloseAbnormal(t) \/ Cancel(t) \/ Detach(t) \/ HangUp(t) \/ Finish(t)

-----------------------------------------------------------------------------
(* The environment: the session ends, the transport to it is lost, or the    *)
(* client goes away.                                                         *)

ProcessStops ==
  /\ running /\ running' = FALSE
  /\ UNCHANGED <<pc, queueVars, stageVars, peerVars, waited, produced,
                 cancelled, reading, sending, tracked>>

ClientLeaves ==
  /\ open /\ open' = FALSE
  /\ UNCHANGED <<pc, procVars, queueVars, stageVars, received, control,
                 cancelled, reading, sending, tracked>>

Starter    == Launch \/ SendReady \/ MarkReady \/ Flush
OutputPump == \/ OutputLoop \/ OutputPoll \/ OutputRead \/ OutputReadFails
              \/ Deliver \/ Push \/ OutputEnd \/ OutputExit \/ OutputDetach
WritePump  == Pop \/ SendBinary \/ SendExit \/ CloseNormal \/ Teardown("write")
InputPump  == InputFails \/ Teardown("input")

Next ==
  \/ Starter \/ OutputPump \/ WritePump \/ InputPump
  \/ \E t \in Callers: BeginTeardown(t) \/ Teardown(t)
  \/ ProcessStops \/ ClientLeaves

(* The Go scheduler runs every runnable goroutine: each thread is weakly     *)
(* fair.  Nothing obliges the manager, the session or the client to act.     *)
Fairness ==
  /\ WF_vars(Starter) /\ WF_vars(OutputPump)
  /\ WF_vars(WritePump) /\ WF_vars(InputPump)
  /\ \A t \in Callers: WF_vars(Teardown(t))

Spec     == Init /\ [][Next]_vars
FairSpec == Spec /\ Fairness
-----------------------------------------------------------------------------
(* Type invariant: the threads, queues and flags take only the values the    *)
(* code gives them.                                                          *)
TypeOK ==
  /\ pc \in [Threads -> Positions]
  /\ {ready, paused, closed, cancelled, running, waited, open, tracked, cleanEnd}
       \subseteq BOOLEAN
  /\ exitCode \in {"nil", "code"}
  /\ {stage, queue, received} \subseteq Seq(1..Chunks)
  /\ {reading, sending, produced, evicted} \subseteq 0..Chunks
  /\ control \subseteq {"ready", "exit"}

Held(c) == IF c = 0 THEN <<>> ELSE <<c>>

(* Everything read from the process and not yet received, oldest first. *)
InFlight == Held(sending) \o queue \o stage \o Held(reading)

MaxOf(a, b) == IF a > b THEN a ELSE b

(* Backpressure bounds the memory of one attachment: the queue never exceeds *)
(* the high-water mark or the flushed staging buffer by more than the chunk  *)
(* that was being read when the mark was crossed.                            *)
QueueBounded ==
  /\ Bytes(queue) < MaxOf(HighWater, MaxOf(StageCap, InputChunkSize) + 1) + InputChunkSize
  /\ Bytes(stage) <= MaxOf(StageCap, InputChunkSize)

(* Once every goroutine has returned nothing is left behind: the process was *)
(* stopped and reaped, the connection closed, the manager let go.            *)
Returned(t) == pc[t] \in {"done", "idle"}
NothingLeftBehind ==
  (\A t \in Threads: Returned(t)) =>
     ~running /\ waited /\ ~open /\ ~tracked

(* Whatever ends the attachment -- the process, the client, a failed write,  *)
(* Shutdown or ForceClose -- every goroutine eventually returns: no pump     *)
(* sleeps in Pop, in the backpressure poll or in a read for ever.            *)
Over == closed \/ cancelled \/ ~running \/ ~open
EventuallyReturns == Over ~> \A t \in Threads: Returned(t)

(* While the attachment lives, what was read from the process does not stay  *)
(* under way for ever: the hysteresis and the wake-ups of the queue never    *)
(* strand output.  (The process emits finitely many chunks.)                 *)
EventuallyDelivered == (InFlight # <<>>) ~> (InFlight = <<>> \/ Over)

-----------------------------------------------------------------------------
(* What an attachment promises its client, in terms of a stream: see         *)
(* TerminalStream.  The end it is told is an exit frame after CloseWithExit  *)
(* closed the queue with markReadyAndFlush through: the close comes after    *)
(* the last push, and Pop drains the closed queue before the write pump      *)
(* reports the exit, whatever Shutdown or ForceClose does.                   *)
Stream == INSTANCE TerminalStream WITH
            pending  <- InFlight,
            received <- received,
            skipped  <- evicted,
            started  <- ready,
            ended    <- cleanEnd /\ "exit" \in control

ImplementsStream == Stream!Spec
=============================================================================
