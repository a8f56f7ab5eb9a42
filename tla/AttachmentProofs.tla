--------------------------- MODULE AttachmentProofs ---------------------------
(***************************************************************************)
(* Proofs about one terminal attachment, both ways.                        *)
(*                                                                         *)
(* Output, for any number and lengths of chunks, any watermarks and        *)
(* staging buffer: what the client received and what is under way are      *)
(* consecutive stretches of the output of the process, whose boundaries    *)
(* move from buffer to buffer; the lengths in bytes follow from the        *)
(* boundaries.                                                             *)
(*                                                                         *)
(* Keystrokes and sizes, for any number and lengths of messages: while it  *)
(* takes input, the process has exactly what the input pump got to.        *)
(***************************************************************************)
EXTENDS Attachment, TerminalInput, SequenceTheorems, WellFoundedInduction, TLAPS

(* The chunks a + 1 to b of the output. *)
Span(a, b) == [i \in 1..(b - a) |-> a + i]

(* How far the client, the write pump, the queue and the staging buffer got. *)
Got == evicted + Len(received)
Taken == IF sending = 0 THEN Got ELSE Got + 1
Queued == Taken + Len(queue)
Kept == Queued + Len(stage)

InOrder ==
  /\ received = Span(evicted, Got)
  /\ sending # 0 => sending = Taken
  /\ queue = Span(Taken, Queued)
  /\ stage = Span(Queued, Kept)
  /\ reading # 0 => reading = Kept + 1
  /\ produced = IF reading = 0 THEN Kept ELSE Kept + 1

(* Where each goroutine can be. *)
PlaceInv ==
  /\ pc["start"] \in {"launch", "ready", "flush", "unstage", "done"}
  /\ pc["output"] \in {"unborn", "loop", "poll", "read", "deliver", "push", "end", "exit",
                       "detach", "done"}
  /\ pc["write"] \in {"unborn", "pop", "asleep", "send", "exit", "close", "abnormal",
                      "release", "hangup", "finish", "done"}
  /\ pc["input"] \in {"unborn", "read", "abnormal", "cancel", "release", "finish", "done"}
  /\ \A t \in Callers:
       pc[t] \in {"idle", "abnormal", "cancel", "release", "hangup", "finish", "done"}
  /\ \A t \in {"output", "write", "input"}: pc[t] = "unborn" <=> pc["start"] = "launch"

(* What the pumps hold, and where output can be before the attachment is     *)
(* ready and after the flush.                                                *)
HoldInv ==
  /\ ready <=> pc["start"] \in {"unstage", "done"}
  /\ pc["start"] = "done" => stage = <<>>
  /\ ~ready => queue = <<>> /\ sending = 0 /\ received = <<>>
  /\ reading # 0 <=> pc["output"] \in {"deliver", "push"}
  /\ pc["output"] = "push" => pc["start"] = "done"
  /\ sending # 0 => pc["write"] \in {"send", "abnormal", "release", "hangup", "finish", "done"}
  /\ pc["write"] = "send" => sending # 0

(* What the end of a goroutine leaves of the process and the connection. *)
EndInv ==
  /\ pc["output"] \in {"end", "exit", "done"} => ~running
  /\ pc["output"] \in {"exit", "done"} => waited
  /\ pc["write"] \in {"finish", "done"} => ~open
  /\ pc["write"] = "done" => ~tracked

(* The write pump reports an exit only after the last push. *)
ExitInv ==
  /\ pc["write"] \in {"exit", "close"} => closed
  /\ "exit" \in control => closed
  /\ cleanEnd => pc["start"] = "done" /\ pc["output"] = "done"
  /\ cleanEnd /\ pc["write"] \in {"exit", "close"} => queue = <<>>

(* The largest staging buffer, and the largest queue with which it is read on. *)
Room == MaxOf(StageCap, InputChunkSize)
Limit == MaxOf(HighWater, Room + 1)

BoundInv ==
  /\ Bytes(stage) <= Room
  /\ pc["start"] # "done" => Bytes(queue) + Bytes(stage) <= Room
  /\ pc["output"] \in {"read", "deliver", "push"} => Bytes(queue) < Limit
  /\ Bytes(queue) < Limit + InputChunkSize

IInv == TypeOK /\ InOrder /\ PlaceInv /\ HoldInv /\ EndInv /\ ExitInv /\ BoundInv

-----------------------------------------------------------------------------
(* Stretches of the output. *)

IsSpan(s, a, b) == s \in Seq(Nat) /\ Len(s) = b - a /\ \A i \in 1..(b - a): s[i] = a + i

LEMMA SpanSeq ==
  ASSUME NEW a \in Nat, NEW b \in Nat, a <= b
  PROVE  /\ IsSpan(Span(a, b), a, b)
         /\ b <= Chunks => Span(a, b) \in Seq(1..Chunks)
<1>1. b - a \in Nat /\ \A i \in 1..(b - a): a + i \in Nat /\ a + i \in 1..b
  OBVIOUS
<1>2. Span(a, b) \in [1..(b - a) -> Nat]
  BY <1>1 DEF Span
<1>3. ASSUME b <= Chunks PROVE Span(a, b) \in [1..(b - a) -> 1..Chunks]
  BY <1>1, <1>3, WatermarkAssumption DEF Span, WatermarkAssumption
<1>4. Len(Span(a, b)) = b - a
  BY <1>1, <1>2 DEF Span
<1> QED BY <1>1, <1>2, <1>3, <1>4, SeqDef DEF Span, IsSpan

LEMMA SpanOnly ==
  ASSUME NEW a \in Nat, NEW b \in Nat, a <= b, NEW s, IsSpan(s, a, b)
  PROVE  s = Span(a, b)
<1> DEFINE t == Span(a, b)
<1>1. IsSpan(t, a, b)
  BY SpanSeq
<1> HIDE DEF t
<1>2. Len(s) = Len(t) /\ \A i \in 1..Len(s): s[i] = t[i]
  BY <1>1 DEF IsSpan
<1>3. s \in Seq(Nat) /\ t \in Seq(Nat)
  BY <1>1 DEF IsSpan
<1>4. s = t
  BY <1>2, <1>3, SeqEqual, Zenon
<1> QED BY <1>4 DEF t

LEMMA SpanEmpty == \A a \in Nat: Span(a, a) = <<>>
<1> SUFFICES ASSUME NEW a \in Nat PROVE Span(a, a) = <<>>
  OBVIOUS
<1>1. Span(a, a) \in Seq(Nat) /\ Len(Span(a, a)) = 0
  BY SpanSeq DEF IsSpan
<1> QED BY <1>1, EmptySeq

LEMMA SpanNotEmpty ==
  ASSUME NEW a \in Nat, NEW b \in Nat, a < b
  PROVE  /\ Span(a, b) # <<>>
         /\ Head(Span(a, b)) = a + 1
         /\ Tail(Span(a, b)) = Span(a + 1, b)
<1> DEFINE s == Span(a, b)
<1>1. s \in Seq(Nat) /\ Len(s) = b - a /\ \A i \in 1..(b - a): s[i] = a + i
  BY SpanSeq DEF IsSpan
<1> HIDE DEF s
<1>2. s # <<>>
  BY <1>1
<1>3. /\ Head(s) = s[1] /\ Tail(s) \in Seq(Nat) /\ Len(Tail(s)) = Len(s) - 1
      /\ \A i \in 1..Len(Tail(s)): Tail(s)[i] = s[i + 1]
  BY <1>1, <1>2, HeadTailProperties
<1> DEFINE t == Tail(s)
<1>4. IsSpan(t, a + 1, b)
  <2>1. t \in Seq(Nat) /\ Len(t) = Len(s) - 1 /\ \A i \in 1..Len(t): t[i] = s[i + 1]
    BY <1>3
  <2> HIDE DEF t
  <2>2. Len(t) = b - (a + 1)
    BY <1>1, <2>1
  <2>3. ASSUME NEW i \in 1..(b - (a + 1)) PROVE t[i] = a + 1 + i
    BY <1>1, <2>1, <2>2
  <2> QED BY <2>1, <2>2, <2>3 DEF IsSpan
<1>5. Tail(s) = Span(a + 1, b)
  <2> HIDE DEF t
  <2>1. t = Span(a + 1, b)
    BY <1>4, SpanOnly
  <2> QED BY <2>1 DEF t
<1>6. Head(s) = a + 1
  BY <1>1, <1>3
<1> QED BY <1>2, <1>5, <1>6 DEF s

LEMMA SpanConcat ==
  ASSUME NEW a \in Nat, NEW b \in Nat, NEW c \in Nat, a <= b, b <= c
  PROVE  Span(a, b) \o Span(b, c) = Span(a, c)
<1> DEFINE s == Span(a, b)
           t == Span(b, c)
           u == s \o t
<1>1. s \in Seq(Nat) /\ Len(s) = b - a /\ \A i \in 1..(b - a): s[i] = a + i
  BY SpanSeq DEF IsSpan
<1>2. t \in Seq(Nat) /\ Len(t) = c - b /\ \A i \in 1..(c - b): t[i] = b + i
  BY SpanSeq DEF IsSpan
<1> HIDE DEF s, t
<1>3. /\ u \in Seq(Nat) /\ Len(u) = Len(s) + Len(t)
      /\ \A i \in 1..(Len(s) + Len(t)): u[i] = IF i <= Len(s) THEN s[i] ELSE t[i - Len(s)]
  BY <1>1, <1>2, ConcatProperties
<1> HIDE DEF u
<1>4. Len(u) = c - a
  BY <1>1, <1>2, <1>3
<1>5. ASSUME NEW i \in 1..(c - a) PROVE u[i] = a + i
  <2>1. i \in 1..(Len(s) + Len(t))
    BY <1>1, <1>2
  <2>2. CASE i <= Len(s)
    BY <1>1, <1>3, <2>1, <2>2
  <2>3. CASE ~(i <= Len(s))
    <3>1. i - Len(s) \in 1..(c - b) /\ b + (i - Len(s)) = a + i
      BY <1>1, <1>2, <2>3
    <3> QED BY <1>2, <1>3, <2>1, <2>3, <3>1
  <2> QED BY <2>2, <2>3
<1>6. u = Span(a, c)
  <2>1. u \in Seq(Nat)
    BY <1>3
  <2>2. IsSpan(u, a, c)
    BY <1>4, <1>5, <2>1 DEF IsSpan
  <2>3. a <= c
    OBVIOUS
  <2> QED BY <2>2, <2>3, SpanOnly
<1> QED BY <1>6 DEF u, s, t

LEMMA SpanAppend ==
  ASSUME NEW a \in Nat, NEW b \in Nat, a <= b
  PROVE  Append(Span(a, b), b + 1) = Span(a, b + 1)
<1> DEFINE s == Span(a, b)
           u == Append(s, b + 1)
<1>1. s \in Seq(Nat) /\ Len(s) = b - a /\ \A i \in 1..(b - a): s[i] = a + i
  BY SpanSeq DEF IsSpan
<1> HIDE DEF s
<1>2. /\ u \in Seq(Nat) /\ Len(u) = Len(s) + 1
      /\ \A i \in 1..Len(s): u[i] = s[i]
      /\ u[Len(s) + 1] = b + 1
  BY <1>1, AppendProperties
<1> HIDE DEF u
<1>3. ASSUME NEW i \in 1..((b + 1) - a) PROVE u[i] = a + i
  <2>1. CASE i \in 1..Len(s)
    BY <1>1, <1>2, <2>1
  <2>2. CASE i = Len(s) + 1
    <3>1. u[i] = b + 1
      BY <1>2, <2>2
    <3>2. a + i = b + 1
      BY <1>1, <2>2
    <3> QED BY <3>1, <3>2
  <2> QED BY <1>1, <2>1, <2>2
<1>4. IsSpan(u, a, b + 1)
  BY <1>1, <1>2, <1>3 DEF IsSpan
<1>5. u = Span(a, b + 1)
  BY <1>4, SpanOnly
<1> QED BY <1>5 DEF u, s

LEMMA SpanRest ==
  ASSUME NEW a \in Nat, NEW b \in Nat, a <= b, NEW k \in 0..(b - a)
  PROVE  SubSeq(Span(a, b), k + 1, Len(Span(a, b))) = Span(a + k, b)
<1> DEFINE s == Span(a, b)
           r == SubSeq(s, k + 1, Len(s))
<1>1. s \in Seq(Nat) /\ Len(s) = b - a /\ \A i \in 1..(b - a): s[i] = a + i
  BY SpanSeq DEF IsSpan
<1> HIDE DEF s
<1>2. k + 1 \in Int /\ Len(s) \in Int /\ \A i \in (k + 1)..Len(s): s[i] \in Nat
  BY <1>1
<1>3. /\ r \in Seq(Nat)
      /\ Len(r) = IF k + 1 <= Len(s) THEN Len(s) - (k + 1) + 1 ELSE 0
      /\ \A i \in 1..(Len(s) - (k + 1) + 1): r[i] = s[k + 1 + i - 1]
  BY <1>2, SubSeqProperties
<1> HIDE DEF r
<1>4. IsSpan(r, a + k, b)
  BY <1>1, <1>3 DEF IsSpan
<1>5. r = Span(a + k, b)
  BY <1>4, SpanOnly
<1> QED BY <1>5 DEF r, s

LEMMA EndsGrow ==
  /\ Chunks \in Nat
  /\ \A c \in 0..Chunks: Ends[c] \in Nat
  /\ \A b, c \in 0..Chunks: b <= c => Ends[b] <= Ends[c]
  /\ \A c \in 1..Chunks: c - 1 \in 0..Chunks /\ Ends[c - 1] \in Nat /\ Ends[c] \in Nat
                           /\ SizeOf(c) \in Nat /\ SizeOf(c) <= InputChunkSize
<1>1. Chunks \in Nat /\ \A c \in 0..Chunks: Ends[c] \in Nat
  BY WatermarkAssumption DEF WatermarkAssumption
<1>2. ASSUME NEW b \in 0..Chunks, NEW c \in 0..Chunks, b <= c PROVE Ends[b] <= Ends[c]
  <2>1. b < c \/ b = c
    BY <1>1, <1>2
  <2> QED BY <1>1, <2>1, WatermarkAssumption DEF WatermarkAssumption
<1>3. ASSUME NEW c \in 1..Chunks
      PROVE  /\ c - 1 \in 0..Chunks /\ Ends[c - 1] \in Nat /\ Ends[c] \in Nat
             /\ SizeOf(c) \in Nat /\ SizeOf(c) <= InputChunkSize
  <2>1. c - 1 \in 0..Chunks /\ c \in 0..Chunks /\ c - 1 <= c
    BY <1>1
  <2>2. Ends[c - 1] \in Nat /\ Ends[c] \in Nat /\ Ends[c - 1] <= Ends[c]
    BY <1>1, <1>2, <2>1
  <2>3. Ends[c] <= Ends[c - 1] + InputChunkSize /\ InputChunkSize \in Nat
    BY WatermarkAssumption DEF WatermarkAssumption
  <2> QED BY <2>1, <2>2, <2>3 DEF SizeOf
<1> QED BY <1>1, <1>2, <1>3

LEMMA BytesInt ==
  ASSUME NEW s \in Seq(1..Chunks)
  PROVE  Bytes(s) \in Int
<1>1. CASE s = <<>>
  BY <1>1 DEF Bytes
<1>2. CASE s # <<>>
  <2>1. Len(s) \in 1..Len(s) /\ 1 \in 1..Len(s)
    <3>1. Len(s) \in Nat /\ (s # <<>> => Len(s) \in Nat \ {0})
      BY EmptySeq, LenProperties, Zenon
    <3> QED BY <1>2, <3>1
  <2>2. s[Len(s)] \in 1..Chunks /\ s[1] \in 1..Chunks
    BY <2>1, ElementOfSeq
  <2>3. Ends[s[Len(s)]] \in Nat /\ Ends[s[1] - 1] \in Nat
    BY <2>2, EndsGrow
  <2>4. Bytes(s) = Ends[s[Len(s)]] - Ends[s[1] - 1]
    BY <1>2 DEF Bytes
  <2> QED BY <2>3, <2>4
<1> QED BY <1>1, <1>2

LEMMA SpanBytes ==
  ASSUME NEW a \in Nat, NEW b \in 0..Chunks, a <= b
  PROVE  Bytes(Span(a, b)) = Ends[b] - Ends[a]
<1>1. b \in Nat /\ Ends[a] \in Nat
  BY WatermarkAssumption DEF WatermarkAssumption
<1>2. CASE a = b
  BY <1>1, <1>2, SpanEmpty DEF Bytes
<1>3. CASE a < b
  <2> DEFINE s == Span(a, b)
  <2>1. s \in Seq(Nat) /\ Len(s) = b - a /\ \A i \in 1..(b - a): s[i] = a + i
    BY <1>1, SpanSeq DEF IsSpan
  <2>2. s # <<>>
    BY <1>1, <1>3, SpanNotEmpty
  <2> HIDE DEF s
  <2>3. s[1] = a + 1 /\ s[Len(s)] = b
    BY <1>1, <1>3, <2>1
  <2>4. (a + 1) - 1 = a
    OBVIOUS
  <2>5. Bytes(s) = Ends[b] - Ends[a]
    BY <2>2, <2>3, <2>4 DEF Bytes
  <2> QED BY <2>5 DEF s
<1> QED BY <1>1, <1>2, <1>3

-----------------------------------------------------------------------------
(* What the staging buffer evicts. *)

Less == {p \in Nat \X Nat: p[1] < p[2]}

LEMMA Least ==
  ASSUME NEW T, T \subseteq Nat, T # {}
  PROVE  \E x \in T: \A y \in T: x <= y
<1>1. IsWellFoundedOn(Less, Nat)
  BY NatLessThanWellFounded, Zenon DEF OpToRel, Less
<1>2. \E x \in T: \A y \in T: ~(<<y, x>> \in Less)
  BY <1>1, WFMin, Zenon
<1>3. PICK x \in T: \A y \in T: ~(<<y, x>> \in Less)
  BY <1>2
<1>4. ASSUME NEW y \in T PROVE x <= y
  <2>1. ~(<<y, x>> \in Less)
    BY <1>3
  <2>2. x \in Nat /\ y \in Nat
    OBVIOUS
  <2>3. ~(y < x)
    BY <2>1, <2>2 DEF Less
  <2> QED BY <2>2, <2>3
<1> QED BY <1>4

LEMMA EvictSpan ==
  ASSUME NEW a \in Nat, NEW b \in 0..Chunks, a <= b, NEW room \in Nat
  PROVE  \E k \in 0..(b - a):
           Evict(Span(a, b), room) = Span(a + k, b) /\ Ends[b] - Ends[a + k] <= room
<1> DEFINE s == Span(a, b)
           T == {k \in 0..Len(s): Fits(s, room, k)}
           Drops(k) == Fits(s, room, k) /\ \A j \in 0..(k - 1): ~Fits(s, room, j)
           d == CHOOSE k \in 0..Len(s): Drops(k)
<1>1. b \in Nat
  BY WatermarkAssumption DEF WatermarkAssumption
<1>2. Len(s) = b - a /\ Len(s) \in Nat
  <2>1. IsSpan(s, a, b)
    BY <1>1, SpanSeq
  <2> HIDE DEF s
  <2> QED BY <1>1, <2>1 DEF IsSpan
<1>3. Fits(s, room, Len(s))
  BY DEF Fits
<1> HIDE DEF s
<1>4. PICK x \in T: \A y \in T: x <= y
  <2>1. T \subseteq Nat
    BY <1>2
  <2>2. T # {}
    BY <1>2, <1>3
  <2> HIDE DEF T
  <2> QED BY <2>1, <2>2, Least
<1>5. x \in 0..Len(s) /\ Drops(x)
  <2>1. x \in 0..Len(s) /\ Fits(s, room, x)
    OBVIOUS
  <2>2. ASSUME NEW j \in 0..(x - 1), Fits(s, room, j) PROVE FALSE
    <3>1. j \in T
      BY <1>2, <2>1, <2>2
    <3>2. x <= j
      BY <1>4, <3>1
    <3> QED BY <1>2, <2>1, <3>2
  <2> QED BY <2>1, <2>2
<1> HIDE DEF Drops
<1>6. d \in 0..Len(s) /\ Drops(d)
  BY <1>5
<1>7. Fits(s, room, d)
  BY <1>6 DEF Drops
<1>8. Evict(s, room) = SubSeq(s, d + 1, Len(s))
  BY DEF Evict, Drops
<1> HIDE DEF d
<1>9. d \in 0..(b - a)
  BY <1>2, <1>6
<1>10. SubSeq(s, d + 1, Len(s)) = Span(a + d, b)
  BY <1>1, <1>9, SpanRest DEF s
<1>11. Ends[b] - Ends[a + d] <= room
  <2>1. Bytes(Span(a + d, b)) = Ends[b] - Ends[a + d]
    BY <1>1, <1>9, SpanBytes
  <2>2. CASE d = Len(s)
    <3>1. a + d = b
      BY <1>1, <1>2, <2>2
    <3>2. Ends[b] \in Nat
      BY WatermarkAssumption DEF WatermarkAssumption
    <3> QED BY <3>1, <3>2
  <2>3. CASE d # Len(s)
    BY <1>7, <1>10, <2>1, <2>3 DEF Fits
  <2> QED BY <2>2, <2>3
<1> QED BY <1>8, <1>9, <1>10, <1>11 DEF s

-----------------------------------------------------------------------------
(* The goroutines move one at a time. *)

LEMMA CallersApart == \A t \in Callers: t \notin {"start", "output", "write", "input"}
BY WatermarkAssumption DEF WatermarkAssumption

LEMMA Moves ==
  ASSUME pc \in [Threads -> Positions], NEW t \in Threads, NEW l \in Positions, Goto(t, l)
  PROVE  /\ pc' \in [Threads -> Positions]
         /\ pc'[t] = l
         /\ \A u \in Threads: u # t => pc'[u] = pc[u]
BY DEF Goto

LEMMA MovesWaking ==
  ASSUME pc \in [Threads -> Positions], NEW t \in Threads, NEW l \in Positions,
         GotoWaking(t, l), l # "asleep"
  PROVE  /\ pc' \in [Threads -> Positions]
         /\ pc'[t] = l
         /\ \A u \in Threads: u # t =>
              pc'[u] = IF u = "write" /\ pc[u] = "asleep" THEN "pop" ELSE pc[u]
<1>1. "write" \in Threads /\ "pop" \in Positions
  BY DEF Threads, Positions
<1> QED BY <1>1 DEF GotoWaking

Tearing == {"write", "input"} \union Callers

LEMMA TearingThreads ==
  /\ {"start", "output", "write", "input"} \subseteq Threads
  /\ Tearing \subseteq Threads /\ "start" \notin Tearing /\ "output" \notin Tearing
BY CallersApart DEF Threads, Tearing

(* A step that leaves the output where it is. *)
outputVars == <<stage, queue, received, evicted, reading, sending, produced>>

TypeFacts == TypeOK /\ PlaceInv /\ HoldInv /\ EndInv /\ ExitInv

LEMMA QuietSteps ==
  ASSUME TypeFacts,
         \/ Launch \/ SendReady \/ OutputLoop \/ OutputPoll \/ OutputReadFails
         \/ OutputEnd \/ OutputExit \/ OutputDetach \/ SendExit \/ CloseNormal
         \/ InputFails \/ ProcessStops \/ ClientLeaves
         \/ (\E t \in Callers: BeginTeardown(t)) \/ (\E t \in Tearing: Teardown(t))
  PROVE  UNCHANGED outputVars
BY DEF outputVars, procVars, queueVars, stageVars, peerVars, Launch, SendReady, OutputLoop,
       OutputPoll, OutputReadFails, OutputEnd, OutputExit, OutputDetach, SendExit, CloseNormal,
       InputFails, ProcessStops, ClientLeaves, BeginTeardown, Teardown, CloseAbnormal, Cancel,
       Detach, HangUp, Finish, SentText, WriteFails

LEMMA StarterPlaces ==
  ASSUME TypeFacts, Launch \/ SendReady \/ MarkReady
  PROVE  TypeFacts'
<1> USE DEF TypeFacts
<1>1. CASE Launch
  <2>1. /\ pc' \in [Threads -> Positions] /\ pc["start"] = "launch" /\ pc'["start"] = "ready"
        /\ pc'["output"] = "loop" /\ pc'["write"] = "pop" /\ pc'["input"] = "read"
        /\ \A t \in Callers: pc'[t] = pc[t]
    BY <1>1, TearingThreads, CallersApart DEF Launch, TypeOK, Positions, Threads
  <2>2. TypeOK'
    BY <1>1, <2>1 DEF TypeOK, Launch, procVars, queueVars, stageVars, peerVars
  <2>3. PlaceInv'
    BY <2>1 DEF PlaceInv
  <2>4. HoldInv' /\ EndInv' /\ ExitInv'
    BY <1>1, <2>1 DEF PlaceInv, HoldInv, EndInv, ExitInv, Launch, procVars, queueVars,
       stageVars, peerVars
  <2> QED BY <2>2, <2>3, <2>4
<1>2. CASE SendReady
  <2>1. Goto("start", "flush") /\ pc["start"] = "ready"
    BY <1>2 DEF SendReady
  <2>2. /\ pc' \in [Threads -> Positions] /\ pc'["start"] = "flush"
        /\ \A u \in Threads: u # "start" => pc'[u] = pc[u]
    BY <2>1, TearingThreads, Moves DEF TypeOK, Positions
  <2>3. TypeOK'
    BY <1>2, <2>2 DEF TypeOK, SendReady, SentText, WriteFails, procVars, queueVars, stageVars,
       peerVars
  <2>4. PlaceInv'
    BY <2>1, <2>2, TearingThreads, CallersApart DEF PlaceInv, Tearing
  <2>5. HoldInv'
    BY <1>2, <2>1, <2>2, TearingThreads DEF PlaceInv, HoldInv, SendReady, SentText, WriteFails,
       procVars, queueVars, stageVars, peerVars
  <2>6. EndInv'
    BY <1>2, <2>1, <2>2, TearingThreads DEF PlaceInv, EndInv, SendReady, SentText, WriteFails,
       procVars, queueVars, stageVars, peerVars
  <2>7. ExitInv'
    BY <1>2, <2>1, <2>2, TearingThreads DEF PlaceInv, ExitInv, SendReady, SentText, WriteFails,
       procVars, queueVars, stageVars, peerVars
  <2> QED BY <2>3, <2>4, <2>5, <2>6, <2>7
<1>3. CASE MarkReady
  <2>1. Goto("start", "unstage") /\ pc["start"] = "flush"
    BY <1>3 DEF MarkReady
  <2>2. /\ pc' \in [Threads -> Positions] /\ pc'["start"] = "unstage"
        /\ \A u \in Threads: u # "start" => pc'[u] = pc[u]
    BY <2>1, TearingThreads, Moves DEF TypeOK, Positions
  <2>3. TypeOK'
    BY <1>3, <2>2 DEF TypeOK, MarkReady, procVars, queueVars, stageVars, peerVars
  <2>4. PlaceInv'
    BY <2>1, <2>2, TearingThreads, CallersApart DEF PlaceInv, Tearing
  <2>5. HoldInv'
    BY <1>3, <2>1, <2>2, TearingThreads DEF PlaceInv, HoldInv, MarkReady, procVars, queueVars,
       stageVars, peerVars
  <2>6. EndInv'
    BY <1>3, <2>1, <2>2, TearingThreads DEF PlaceInv, EndInv, MarkReady, procVars, queueVars,
       stageVars, peerVars
  <2>7. ExitInv'
    BY <1>3, <2>1, <2>2, TearingThreads DEF PlaceInv, ExitInv, MarkReady, procVars, queueVars,
       stageVars, peerVars
  <2> QED BY <2>3, <2>4, <2>5, <2>6, <2>7
<1> QED BY <1>1, <1>2, <1>3

LEMMA OutputPlaces ==
  ASSUME TypeFacts, \/ OutputLoop \/ OutputPoll \/ OutputReadFails
                    \/ OutputEnd \/ OutputExit \/ OutputDetach
  PROVE  TypeFacts'
<1> USE DEF TypeFacts
<1>1. CASE OutputLoop
  <2>0. \E l \in {"detach", "poll", "read"}: Goto("output", l)
    BY <1>1 DEF OutputLoop
  <2>1. PICK l \in {"detach", "poll", "read"}: Goto("output", l)
    BY <2>0
  <2>2. /\ pc' \in [Threads -> Positions] /\ pc'["output"] = l /\ pc["output"] = "loop"
        /\ \A u \in Threads: u # "output" => pc'[u] = pc[u]
    BY <1>1, <2>1, TearingThreads, Moves DEF TypeOK, Positions, OutputLoop
  <2>3. TypeOK'
    <3>1. Bytes(queue) \in Int /\ LowWater \in Int /\ HighWater \in Int
      BY BytesInt, WatermarkAssumption DEF TypeOK, WatermarkAssumption
    <3>2. Behind \in BOOLEAN
      <4>1. (Bytes(queue) >= LowWater) \in BOOLEAN /\ (Bytes(queue) >= HighWater) \in BOOLEAN
        BY <3>1
      <4> QED BY <4>1, Zenon DEF Behind
    <3>3. paused' \in BOOLEAN
      BY <1>1, <3>2 DEF OutputLoop, TypeOK
    <3> QED BY <1>1, <2>2, <3>3 DEF TypeOK, OutputLoop, procVars, stageVars, peerVars
  <2>4. PlaceInv'
    BY <2>2, TearingThreads, CallersApart DEF PlaceInv, Tearing
  <2>5. HoldInv'
    BY <1>1, <2>2, TearingThreads DEF PlaceInv, HoldInv, OutputLoop, procVars, stageVars, peerVars
  <2>6. EndInv'
    BY <1>1, <2>2, TearingThreads DEF PlaceInv, EndInv, OutputLoop, procVars, stageVars, peerVars
  <2>7. ExitInv'
    BY <1>1, <2>2, TearingThreads DEF PlaceInv, ExitInv, OutputLoop, procVars, stageVars, peerVars
  <2> QED BY <2>3, <2>4, <2>5, <2>6, <2>7
<1>2. CASE OutputPoll
  <2> DEFINE l == IF cancelled THEN "detach" ELSE "loop"
  <2> HIDE DEF l
  <2>0. l \in {"detach", "loop"}
    BY DEF l
  <2>1. Goto("output", l) /\ pc["output"] = "poll"
    BY <1>2 DEF OutputPoll, l
  <2>2. /\ pc' \in [Threads -> Positions] /\ pc'["output"] = l
        /\ \A u \in Threads: u # "output" => pc'[u] = pc[u]
    BY <2>0, <2>1, TearingThreads, Moves DEF TypeOK, Positions
  <2>3. TypeOK'
    BY <1>2, <2>2 DEF TypeOK, OutputPoll, procVars, queueVars, stageVars, peerVars
  <2>4. PlaceInv'
    BY <2>0, <2>1, <2>2, TearingThreads, CallersApart DEF PlaceInv, Tearing
  <2>5. HoldInv'
    BY <1>2, <2>0, <2>1, <2>2, TearingThreads DEF PlaceInv, HoldInv, OutputPoll, procVars,
       queueVars, stageVars, peerVars
  <2>6. EndInv'
    BY <1>2, <2>0, <2>1, <2>2, TearingThreads DEF PlaceInv, EndInv, OutputPoll, procVars,
       queueVars, stageVars, peerVars
  <2>7. ExitInv'
    BY <1>2, <2>0, <2>1, <2>2, TearingThreads DEF PlaceInv, ExitInv, OutputPoll, procVars,
       queueVars, stageVars, peerVars
  <2> QED BY <2>3, <2>4, <2>5, <2>6, <2>7
<1>3. CASE OutputReadFails
  <2>1. Goto("output", "end") /\ pc["output"] = "read"
    BY <1>3 DEF OutputReadFails
  <2>2. /\ pc' \in [Threads -> Positions] /\ pc'["output"] = "end"
        /\ \A u \in Threads: u # "output" => pc'[u] = pc[u]
    BY <2>1, TearingThreads, Moves DEF TypeOK, Positions
  <2>3. TypeOK'
    BY <1>3, <2>2 DEF TypeOK, OutputReadFails, procVars, queueVars, stageVars, peerVars
  <2>4. PlaceInv'
    BY <2>1, <2>2, TearingThreads, CallersApart DEF PlaceInv, Tearing
  <2>5. HoldInv'
    BY <1>3, <2>1, <2>2, TearingThreads DEF PlaceInv, HoldInv, OutputReadFails, procVars,
       queueVars, stageVars, peerVars
  <2>6. EndInv'
    BY <1>3, <2>1, <2>2, TearingThreads DEF PlaceInv, EndInv, OutputReadFails, procVars,
       queueVars, stageVars, peerVars
  <2>7. ExitInv'
    BY <1>3, <2>1, <2>2, TearingThreads DEF PlaceInv, ExitInv, OutputReadFails, procVars,
       queueVars, stageVars, peerVars
  <2> QED BY <2>3, <2>4, <2>5, <2>6, <2>7
<1>4. CASE OutputEnd
  <2>1. Goto("output", "exit") /\ pc["output"] = "end"
    BY <1>4 DEF OutputEnd
  <2>2. /\ pc' \in [Threads -> Positions] /\ pc'["output"] = "exit"
        /\ \A u \in Threads: u # "output" => pc'[u] = pc[u]
    BY <2>1, TearingThreads, Moves DEF TypeOK, Positions
  <2>3. TypeOK'
    BY <1>4, <2>2 DEF TypeOK, OutputEnd, procVars, queueVars, stageVars, peerVars
  <2>4. PlaceInv'
    BY <2>1, <2>2, TearingThreads, CallersApart DEF PlaceInv, Tearing
  <2>5. HoldInv'
    BY <1>4, <2>1, <2>2, TearingThreads DEF PlaceInv, HoldInv, OutputEnd, procVars, queueVars,
       stageVars, peerVars
  <2>6. EndInv'
    BY <1>4, <2>1, <2>2, TearingThreads DEF PlaceInv, EndInv, OutputEnd, procVars, queueVars,
       stageVars, peerVars
  <2>7. ExitInv'
    BY <1>4, <2>1, <2>2, TearingThreads DEF PlaceInv, ExitInv, OutputEnd, procVars, queueVars,
       stageVars, peerVars
  <2> QED BY <2>3, <2>4, <2>5, <2>6, <2>7
<1>5. CASE OutputExit
  <2>1. GotoWaking("output", "done") /\ pc["output"] = "exit"
    BY <1>5 DEF OutputExit
  <2>2. /\ pc' \in [Threads -> Positions] /\ pc'["output"] = "done"
        /\ \A u \in Threads: u # "output" =>
             pc'[u] = IF u = "write" /\ pc[u] = "asleep" THEN "pop" ELSE pc[u]
    BY <2>1, TearingThreads, MovesWaking DEF TypeOK, Positions
  <2>3. TypeOK'
    BY <1>5, <2>2 DEF TypeOK, OutputExit, procVars, queueVars, stageVars, peerVars
  <2>4. PlaceInv'
    BY <2>1, <2>2, TearingThreads, CallersApart DEF PlaceInv, Tearing
  <2>5. HoldInv'
    BY <1>5, <2>1, <2>2, TearingThreads DEF PlaceInv, HoldInv, OutputExit, procVars, queueVars,
       stageVars, peerVars
  <2>6. EndInv'
    BY <1>5, <2>1, <2>2, TearingThreads DEF PlaceInv, EndInv, OutputExit, procVars, queueVars,
       stageVars, peerVars
  <2>7. ExitInv'
    BY <1>5, <2>1, <2>2, TearingThreads DEF PlaceInv, ExitInv, OutputExit, procVars, queueVars,
       stageVars, peerVars
  <2> QED BY <2>3, <2>4, <2>5, <2>6, <2>7
<1>6. CASE OutputDetach
  <2>1. Goto("output", "done") /\ pc["output"] = "detach"
    BY <1>6 DEF OutputDetach
  <2>2. /\ pc' \in [Threads -> Positions] /\ pc'["output"] = "done"
        /\ \A u \in Threads: u # "output" => pc'[u] = pc[u]
    BY <2>1, TearingThreads, Moves DEF TypeOK, Positions
  <2>3. TypeOK'
    BY <1>6, <2>2 DEF TypeOK, OutputDetach, procVars, queueVars, stageVars, peerVars
  <2>4. PlaceInv'
    BY <2>1, <2>2, TearingThreads, CallersApart DEF PlaceInv, Tearing
  <2>5. HoldInv'
    BY <1>6, <2>1, <2>2, TearingThreads DEF PlaceInv, HoldInv, OutputDetach, procVars, queueVars,
       stageVars, peerVars
  <2>6. EndInv'
    BY <1>6, <2>1, <2>2, TearingThreads DEF PlaceInv, EndInv, OutputDetach, procVars, queueVars,
       stageVars, peerVars
  <2>7. ExitInv'
    BY <1>6, <2>1, <2>2, TearingThreads DEF PlaceInv, ExitInv, OutputDetach, procVars, queueVars,
       stageVars, peerVars
  <2> QED BY <2>3, <2>4, <2>5, <2>6, <2>7
<1> QED BY <1>1, <1>2, <1>3, <1>4, <1>5, <1>6

LEMMA EndPlaces ==
  ASSUME TypeFacts, SendExit \/ CloseNormal \/ InputFails \/ ProcessStops \/ ClientLeaves
  PROVE  TypeFacts'
<1> USE DEF TypeFacts
<1>1. CASE SendExit
  <2>1. Goto("write", "close") /\ pc["write"] = "exit"
    BY <1>1 DEF SendExit
  <2>2. /\ pc' \in [Threads -> Positions] /\ pc'["write"] = "close"
        /\ \A u \in Threads: u # "write" => pc'[u] = pc[u]
    BY <2>1, TearingThreads, Moves DEF TypeOK, Positions
  <2>3. TypeOK'
    BY <1>1, <2>2 DEF TypeOK, SendExit, SentText, procVars, queueVars, stageVars, peerVars
  <2>4. PlaceInv'
    BY <2>1, <2>2, TearingThreads, CallersApart DEF PlaceInv, Tearing
  <2>5. HoldInv'
    BY <1>1, <2>1, <2>2, TearingThreads DEF PlaceInv, HoldInv, SendExit, SentText, procVars,
       queueVars, stageVars, peerVars
  <2>6. EndInv'
    BY <1>1, <2>1, <2>2, TearingThreads DEF PlaceInv, EndInv, SendExit, SentText, procVars,
       queueVars, stageVars, peerVars
  <2>7. ExitInv'
    BY <1>1, <2>1, <2>2, TearingThreads DEF PlaceInv, ExitInv, SendExit, SentText, procVars,
       queueVars, stageVars, peerVars
  <2> QED BY <2>3, <2>4, <2>5, <2>6, <2>7
<1>2. CASE CloseNormal
  <2>1. Goto("write", "finish") /\ pc["write"] = "close"
    BY <1>2 DEF CloseNormal
  <2>2. /\ pc' \in [Threads -> Positions] /\ pc'["write"] = "finish"
        /\ \A u \in Threads: u # "write" => pc'[u] = pc[u]
    BY <2>1, TearingThreads, Moves DEF TypeOK, Positions
  <2>3. TypeOK'
    BY <1>2, <2>2 DEF TypeOK, CloseNormal, procVars, queueVars, stageVars, peerVars
  <2>4. PlaceInv'
    BY <2>1, <2>2, TearingThreads, CallersApart DEF PlaceInv, Tearing
  <2>5. HoldInv'
    BY <1>2, <2>1, <2>2, TearingThreads DEF PlaceInv, HoldInv, CloseNormal, procVars, queueVars,
       stageVars, peerVars
  <2>6. EndInv'
    BY <1>2, <2>1, <2>2, TearingThreads DEF PlaceInv, EndInv, CloseNormal, procVars, queueVars,
       stageVars, peerVars
  <2>7. ExitInv'
    BY <1>2, <2>1, <2>2, TearingThreads DEF PlaceInv, ExitInv, CloseNormal, procVars, queueVars,
       stageVars, peerVars
  <2> QED BY <2>3, <2>4, <2>5, <2>6, <2>7
<1>3. CASE InputFails
  <2>1. Goto("input", "abnormal") /\ pc["input"] = "read"
    BY <1>3 DEF InputFails
  <2>2. /\ pc' \in [Threads -> Positions] /\ pc'["input"] = "abnormal"
        /\ \A u \in Threads: u # "input" => pc'[u] = pc[u]
    BY <2>1, TearingThreads, Moves DEF TypeOK, Positions
  <2>3. TypeOK'
    BY <1>3, <2>2 DEF TypeOK, InputFails, procVars, queueVars, stageVars, peerVars
  <2>4. PlaceInv'
    BY <2>1, <2>2, TearingThreads, CallersApart DEF PlaceInv, Tearing
  <2>5. HoldInv'
    BY <1>3, <2>1, <2>2, TearingThreads DEF PlaceInv, HoldInv, InputFails, procVars, queueVars,
       stageVars, peerVars
  <2>6. EndInv'
    <3>1. ~open => ~open'
      BY <1>3, Zenon DEF InputFails
    <3> QED BY <1>3, <2>1, <2>2, <3>1, TearingThreads DEF PlaceInv, EndInv, InputFails, procVars
  <2>7. ExitInv'
    BY <1>3, <2>1, <2>2, TearingThreads DEF PlaceInv, ExitInv, InputFails, procVars, queueVars,
       stageVars, peerVars
  <2> QED BY <2>3, <2>4, <2>5, <2>6, <2>7
<1>4. CASE ProcessStops \/ ClientLeaves
  <2>1. TypeOK'
    BY <1>4 DEF TypeOK, ProcessStops, ClientLeaves, procVars, queueVars, stageVars, peerVars
  <2>2. PlaceInv' /\ HoldInv' /\ EndInv' /\ ExitInv'
    BY <1>4 DEF PlaceInv, HoldInv, EndInv, ExitInv, ProcessStops, ClientLeaves, procVars,
       queueVars, stageVars, peerVars
  <2> QED BY <2>1, <2>2
<1> QED BY <1>1, <1>2, <1>3, <1>4

LEMMA TearingPlaces ==
  ASSUME PlaceInv, NEW t \in Tearing, pc[t] # "unborn",
         t = "write" => pc'[t] \in {"abnormal", "release", "hangup", "finish", "done"},
         t = "input" => pc'[t] \in {"abnormal", "cancel", "release", "finish", "done"},
         t \in Callers => pc'[t] \in {"abnormal", "cancel", "release", "hangup", "finish", "done"},
         \A u \in Threads: u # t =>
           pc'[u] = pc[u] \/ (u = "write" /\ pc[u] = "asleep" /\ pc'[u] = "pop")
  PROVE  PlaceInv'
<1>1. pc'["start"] = pc["start"] /\ pc'["output"] = pc["output"]
  BY TearingThreads
<1>2. /\ pc'["write"] \in {"unborn", "pop", "asleep", "send", "exit", "close", "abnormal",
                           "release", "hangup", "finish", "done"}
      /\ pc'["write"] = "unborn" <=> pc["write"] = "unborn"
  BY TearingThreads DEF PlaceInv
<1>3. /\ pc'["input"] \in {"unborn", "read", "abnormal", "cancel", "release", "finish", "done"}
      /\ pc'["input"] = "unborn" <=> pc["input"] = "unborn"
  BY TearingThreads DEF PlaceInv
<1>4. ASSUME NEW u \in Callers
      PROVE  pc'[u] \in {"idle", "abnormal", "cancel", "release", "hangup", "finish", "done"}
  BY TearingThreads, CallersApart DEF PlaceInv, Tearing
<1> QED BY <1>1, <1>2, <1>3, <1>4 DEF PlaceInv

LEMMA TeardownPlaces ==
  ASSUME TypeFacts, NEW t \in Tearing, Teardown(t) \/ (t \in Callers /\ BeginTeardown(t))
  PROVE  TypeFacts'
<1> USE DEF TypeFacts
<1>1. t \in Threads /\ t # "start" /\ t # "output"
  BY TearingThreads
<1>2. CASE BeginTeardown(t)
  <2>1. Goto(t, "abnormal") /\ pc[t] = "idle" /\ t \in Callers
    BY <1>2 DEF BeginTeardown
  <2>2. /\ pc' \in [Threads -> Positions] /\ pc'[t] = "abnormal"
        /\ \A u \in Threads: u # t => pc'[u] = pc[u]
    BY <1>1, <2>1, Moves DEF TypeOK, Positions
  <2>3. TypeOK'
    BY <1>2, <2>2 DEF TypeOK, BeginTeardown, procVars, queueVars, stageVars, peerVars
  <2>4. PlaceInv'
    BY <2>1, <1>1, <2>2, TearingPlaces, CallersApart DEF PlaceInv, Tearing
  <2>5. HoldInv'
    BY <1>2, <2>1, <1>1, <2>2, TearingThreads DEF PlaceInv, HoldInv, BeginTeardown, procVars,
       queueVars, stageVars, peerVars
  <2>6. EndInv'
    BY <1>2, <2>1, <1>1, <2>2, TearingThreads DEF PlaceInv, EndInv, BeginTeardown, procVars,
       queueVars, stageVars, peerVars
  <2>7. ExitInv'
    BY <1>2, <2>1, <1>1, <2>2, TearingThreads DEF PlaceInv, ExitInv, BeginTeardown, procVars,
       queueVars, stageVars, peerVars
  <2> QED BY <2>3, <2>4, <2>5, <2>6, <2>7
<1>3. CASE CloseAbnormal(t)
  <2>1. GotoWaking(t, IF t = "write" THEN "release" ELSE "cancel") /\ pc[t] = "abnormal"
    BY <1>3 DEF CloseAbnormal
  <2>2. /\ pc' \in [Threads -> Positions] /\ pc'[t] = IF t = "write" THEN "release" ELSE "cancel"
        /\ \A u \in Threads: u # t =>
             pc'[u] = IF u = "write" /\ pc[u] = "asleep" THEN "pop" ELSE pc[u]
    BY <1>1, <2>1, MovesWaking DEF TypeOK, Positions
  <2>3. TypeOK'
    BY <1>3, <2>2 DEF TypeOK, CloseAbnormal, procVars, queueVars, stageVars, peerVars
  <2>4. PlaceInv'
    BY <2>1, <1>1, <2>2, TearingPlaces, CallersApart DEF PlaceInv, Tearing
  <2>5. HoldInv'
    BY <1>3, <2>1, <1>1, <2>2, TearingThreads DEF PlaceInv, HoldInv, CloseAbnormal, procVars,
       queueVars, stageVars, peerVars
  <2>6. EndInv'
    BY <1>3, <2>1, <1>1, <2>2, TearingThreads DEF PlaceInv, EndInv, CloseAbnormal, procVars,
       queueVars, stageVars, peerVars
  <2>7. ExitInv'
    BY <1>3, <2>1, <1>1, <2>2, TearingThreads DEF PlaceInv, ExitInv, CloseAbnormal, procVars,
       queueVars, stageVars, peerVars
  <2> QED BY <2>3, <2>4, <2>5, <2>6, <2>7
<1>4. CASE Cancel(t)
  <2>1. Goto(t, "release") /\ pc[t] = "cancel"
    BY <1>4 DEF Cancel
  <2>2. /\ pc' \in [Threads -> Positions] /\ pc'[t] = "release"
        /\ \A u \in Threads: u # t => pc'[u] = pc[u]
    BY <1>1, <2>1, Moves DEF TypeOK, Positions
  <2>3. TypeOK'
    BY <1>4, <2>2 DEF TypeOK, Cancel, procVars, queueVars, stageVars, peerVars
  <2>4. PlaceInv'
    BY <2>1, <1>1, <2>2, TearingPlaces, CallersApart DEF PlaceInv, Tearing
  <2>5. HoldInv'
    BY <1>4, <2>1, <1>1, <2>2, TearingThreads DEF PlaceInv, HoldInv, Cancel, procVars, queueVars,
       stageVars, peerVars
  <2>6. EndInv'
    BY <1>4, <2>1, <1>1, <2>2, TearingThreads DEF PlaceInv, EndInv, Cancel, procVars, queueVars,
       stageVars, peerVars
  <2>7. ExitInv'
    BY <1>4, <2>1, <1>1, <2>2, TearingThreads DEF PlaceInv, ExitInv, Cancel, procVars, queueVars,
       stageVars, peerVars
  <2> QED BY <2>3, <2>4, <2>5, <2>6, <2>7
<1>5. CASE Detach(t)
  <2>1. Goto(t, IF t = "input" THEN "finish" ELSE "hangup") /\ pc[t] = "release"
    BY <1>5 DEF Detach
  <2>2. /\ pc' \in [Threads -> Positions] /\ pc'[t] = IF t = "input" THEN "finish" ELSE "hangup"
        /\ \A u \in Threads: u # t => pc'[u] = pc[u]
    BY <1>1, <2>1, Moves DEF TypeOK, Positions
  <2>3. TypeOK'
    BY <1>5, <2>2 DEF TypeOK, Detach, procVars, queueVars, stageVars, peerVars
  <2>4. PlaceInv'
    BY <2>1, <1>1, <2>2, TearingPlaces, CallersApart DEF PlaceInv, Tearing
  <2>5. HoldInv'
    BY <1>5, <2>1, <1>1, <2>2, TearingThreads DEF PlaceInv, HoldInv, Detach, procVars, queueVars,
       stageVars, peerVars
  <2>6. EndInv'
    BY <1>5, <2>1, <1>1, <2>2, TearingThreads DEF PlaceInv, EndInv, Detach, procVars, queueVars,
       stageVars, peerVars
  <2>7. ExitInv'
    BY <1>5, <2>1, <1>1, <2>2, TearingThreads DEF PlaceInv, ExitInv, Detach, procVars, queueVars,
       stageVars, peerVars
  <2> QED BY <2>3, <2>4, <2>5, <2>6, <2>7
<1>6. CASE HangUp(t)
  <2>1. Goto(t, "finish") /\ pc[t] = "hangup"
    BY <1>6 DEF HangUp
  <2>2. /\ pc' \in [Threads -> Positions] /\ pc'[t] = "finish"
        /\ \A u \in Threads: u # t => pc'[u] = pc[u]
    BY <1>1, <2>1, Moves DEF TypeOK, Positions
  <2>3. TypeOK'
    BY <1>6, <2>2 DEF TypeOK, HangUp, procVars, queueVars, stageVars, peerVars
  <2>4. PlaceInv'
    BY <2>1, <1>1, <2>2, TearingPlaces, CallersApart DEF PlaceInv, Tearing
  <2>5. HoldInv'
    BY <1>6, <2>1, <1>1, <2>2, TearingThreads DEF PlaceInv, HoldInv, HangUp, procVars, queueVars,
       stageVars, peerVars
  <2>6. EndInv'
    BY <1>6, <2>1, <1>1, <2>2, TearingThreads DEF PlaceInv, EndInv, HangUp, procVars, queueVars,
       stageVars, peerVars
  <2>7. ExitInv'
    BY <1>6, <2>1, <1>1, <2>2, TearingThreads DEF PlaceInv, ExitInv, HangUp, procVars, queueVars,
       stageVars, peerVars
  <2> QED BY <2>3, <2>4, <2>5, <2>6, <2>7
<1>7. CASE Finish(t)
  <2>1. Goto(t, "done") /\ pc[t] = "finish"
    BY <1>7 DEF Finish
  <2>2. /\ pc' \in [Threads -> Positions] /\ pc'[t] = "done"
        /\ \A u \in Threads: u # t => pc'[u] = pc[u]
    BY <1>1, <2>1, Moves DEF TypeOK, Positions
  <2>3. TypeOK'
    BY <1>7, <2>2 DEF TypeOK, Finish, procVars, queueVars, stageVars, peerVars
  <2>4. PlaceInv'
    BY <2>1, <1>1, <2>2, TearingPlaces, CallersApart DEF PlaceInv, Tearing
  <2>5. HoldInv'
    BY <1>7, <2>1, <1>1, <2>2, TearingThreads DEF PlaceInv, HoldInv, Finish, procVars, queueVars,
       stageVars, peerVars
  <2>6. EndInv'
    BY <1>7, <2>1, <1>1, <2>2, TearingThreads DEF PlaceInv, EndInv, Finish, procVars, queueVars,
       stageVars, peerVars
  <2>7. ExitInv'
    BY <1>7, <2>1, <1>1, <2>2, TearingThreads DEF PlaceInv, ExitInv, Finish, procVars, queueVars,
       stageVars, peerVars
  <2> QED BY <2>3, <2>4, <2>5, <2>6, <2>7
<1> QED BY <1>2, <1>3, <1>4, <1>5, <1>6, <1>7 DEF Teardown

-----------------------------------------------------------------------------
(* Where the output is. *)

LEMMA Counts ==
  ASSUME TypeOK, InOrder
  PROVE  /\ {evicted, Got, Taken, Queued, Kept, produced} \subseteq 0..Chunks
         /\ evicted <= Got /\ Got <= Taken /\ Taken <= Queued /\ Queued <= Kept
         /\ Kept <= produced
         /\ Len(received) = Got - evicted
         /\ Bytes(queue) = Ends[Queued] - Ends[Taken]
         /\ Bytes(stage) = Ends[Kept] - Ends[Queued]
<1>1. Chunks \in Nat
  BY EndsGrow
<1>2. /\ Len(received) \in Nat /\ Len(queue) \in Nat /\ Len(stage) \in Nat
      /\ evicted \in Nat /\ produced \in 0..Chunks
  BY LenProperties DEF TypeOK
<1>3. /\ Got \in Nat /\ Taken \in Nat /\ Queued \in Nat /\ Kept \in Nat
      /\ evicted <= Got /\ Got <= Taken /\ Taken <= Queued /\ Queued <= Kept
      /\ Len(received) = Got - evicted
  BY <1>2 DEF Got, Taken, Queued, Kept
<1>4. Kept <= produced
  BY <1>2, <1>3 DEF InOrder
<1>5. {evicted, Got, Taken, Queued, Kept, produced} \subseteq 0..Chunks
  BY <1>1, <1>2, <1>3, <1>4
<1>6. Bytes(queue) = Ends[Queued] - Ends[Taken]
  BY <1>3, <1>5, SpanBytes DEF InOrder
<1>7. Bytes(stage) = Ends[Kept] - Ends[Queued]
  BY <1>3, <1>5, SpanBytes DEF InOrder
<1> QED BY <1>3, <1>4, <1>5, <1>6, <1>7

LEMMA Limits ==
  /\ Room \in Nat /\ StageCap <= Room /\ InputChunkSize <= Room
  /\ Limit \in Nat /\ HighWater <= Limit /\ Room < Limit
  /\ {StageCap, InputChunkSize, HighWater, LowWater} \subseteq Nat /\ LowWater < HighWater
BY WatermarkAssumption DEF WatermarkAssumption, Room, Limit, MaxOf

LEMMA QuietKeeps ==
  ASSUME IInv, TypeFacts', UNCHANGED outputVars,
         pc["start"] # "done" <=> pc'["start"] # "done",
         pc'["output"] \in {"read", "deliver", "push"} => pc["output"] \in {"read", "deliver", "push"}
  PROVE  IInv'
<1>1. UNCHANGED <<stage, queue, received, evicted, reading, sending, produced>>
  BY DEF outputVars
<1>2. InOrder'
  BY <1>1 DEF IInv, InOrder, Got, Taken, Queued, Kept
<1>3. BoundInv'
  BY <1>1 DEF IInv, BoundInv
<1> QED BY <1>2, <1>3 DEF IInv, TypeFacts

LEMMA SpanIn ==
  ASSUME NEW a \in 0..Chunks, NEW b \in 0..Chunks, a <= b
  PROVE  Span(a, b) \in Seq(1..Chunks) /\ Len(Span(a, b)) = b - a
<1>1. a \in Nat /\ b \in Nat /\ b <= Chunks
  BY EndsGrow
<1>2. IsSpan(Span(a, b), a, b) /\ Span(a, b) \in Seq(1..Chunks)
  BY <1>1, SpanSeq
<1> QED BY <1>2, Zenon DEF IsSpan

(* A step that moves the boundaries to e, g, t, q, k and p. *)
Boundaries(e, g, t, q, k, p) ==
  /\ {e, g, t, q, k, p} \subseteq 0..Chunks
  /\ e <= g /\ g <= t /\ t <= q /\ q <= k /\ k <= p

LEMMA Placed ==
  ASSUME NEW e, NEW g, NEW t, NEW q, NEW k, NEW p, Boundaries(e, g, t, q, k, p),
         evicted' = e, received' = Span(e, g), queue' = Span(t, q), stage' = Span(q, k),
         produced' = p,
         \/ sending' = 0 /\ t = g
         \/ sending' = t /\ t = g + 1,
         \/ reading' = 0 /\ p = k
         \/ reading' = p /\ p = k + 1
  PROVE  /\ InOrder'
         /\ {stage', queue', received'} \subseteq Seq(1..Chunks)
         /\ {reading', sending', produced', evicted'} \subseteq 0..Chunks
         /\ Bytes(queue') = Ends[q] - Ends[t]
         /\ Bytes(stage') = Ends[k] - Ends[q]
<1>1. /\ Chunks \in Nat /\ e \in 0..Chunks /\ g \in 0..Chunks /\ t \in 0..Chunks
      /\ q \in 0..Chunks /\ k \in 0..Chunks /\ p \in 0..Chunks
      /\ e <= g /\ g <= t /\ t <= q /\ q <= k /\ k <= p
  BY EndsGrow DEF Boundaries
<1>2. Len(received') = g - e /\ received' \in Seq(1..Chunks)
  BY <1>1, SpanIn
<1>3. Len(queue') = q - t /\ queue' \in Seq(1..Chunks)
  BY <1>1, SpanIn
<1>4. Len(stage') = k - q /\ stage' \in Seq(1..Chunks)
  BY <1>1, SpanIn
<1>5. Got' = g
  BY <1>1, <1>2 DEF Got
<1>6. Taken' = t
  BY <1>1, <1>5 DEF Taken
<1>7. Queued' = q
  BY <1>1, <1>3, <1>6 DEF Queued
<1>8. Kept' = k
  BY <1>1, <1>4, <1>7 DEF Kept
<1>9. InOrder'
  BY <1>1, <1>5, <1>6, <1>7, <1>8 DEF InOrder
<1>10. Bytes(queue') = Ends[q] - Ends[t] /\ Bytes(stage') = Ends[k] - Ends[q]
  BY <1>1, SpanBytes
<1> QED BY <1>1, <1>2, <1>3, <1>4, <1>9, <1>10

LEMMA NothingStaged ==
  ASSUME TypeOK, InOrder
  PROVE  /\ (stage = <<>>) <=> (Kept = Queued)
         /\ (queue = <<>>) <=> (Queued = Taken)
         /\ (received = <<>>) <=> (Got = evicted)
<1>1. Len(received) \in Nat /\ Len(queue) \in Nat /\ Len(stage) \in Nat
  BY LenProperties DEF TypeOK
<1>2. /\ (stage = <<>>) <=> (Len(stage) = 0)
      /\ (queue = <<>>) <=> (Len(queue) = 0)
      /\ (received = <<>>) <=> (Len(received) = 0)
  BY EmptySeq DEF TypeOK
<1>3. Got \in Nat /\ Taken \in Nat /\ Queued \in Nat
  BY Counts, EndsGrow
<1>4. evicted \in Nat
  BY EndsGrow DEF TypeOK
<1>5. Got = evicted + Len(received) /\ Queued = Taken + Len(queue) /\ Kept = Queued + Len(stage)
  BY DEF Got, Queued, Kept
<1> HIDE DEF Got, Taken, Queued, Kept
<1> QED BY <1>1, <1>2, <1>3, <1>4, <1>5

LEMMA Holding ==
  ASSUME InOrder
  PROVE  /\ (sending = 0 /\ Taken = Got) \/ (sending = Taken /\ Taken = Got + 1)
         /\ (reading = 0 /\ produced = Kept) \/ (reading = produced /\ produced = Kept + 1)
<1>1. (sending = 0 /\ Taken = Got) \/ (sending = Taken /\ Taken = Got + 1)
  BY DEF InOrder, Taken
<1>2. (reading = 0 /\ produced = Kept) \/ (reading = produced /\ produced = Kept + 1)
  BY DEF InOrder
<1> QED BY <1>1, <1>2

LEMMA FlushKeeps ==
  ASSUME IInv, Flush
  PROVE  IInv'
<1> USE DEF IInv
<1>1. pc["start"] = "unstage" /\ ready
  BY DEF Flush, HoldInv
<1>2. /\ {evicted, Got, Taken, Queued, Kept, produced} \subseteq 0..Chunks
      /\ evicted <= Got /\ Got <= Taken /\ Taken <= Queued /\ Queued <= Kept
      /\ Kept <= produced /\ Chunks \in Nat
      /\ evicted \in Nat /\ Got \in Nat /\ Taken \in Nat /\ Queued \in Nat /\ Kept \in Nat
  BY Counts, EndsGrow
<1>3. CASE stage # <<>>
  <2>1. queue' = Append(queue, Head(stage)) /\ stage' = Tail(stage) /\ GotoWaking("start", "unstage")
    BY <1>3 DEF Flush
  <2>2. Queued < Kept /\ Queued + 1 \in 0..Chunks
    BY <1>2, <1>3, NothingStaged
  <2>3. Head(stage) = Queued + 1 /\ Tail(stage) = Span(Queued + 1, Kept)
    BY <1>2, <2>2, SpanNotEmpty DEF InOrder
  <2>4. Append(queue, Queued + 1) = Span(Taken, Queued + 1)
    BY <1>2, SpanAppend DEF InOrder
  <2>5. UNCHANGED <<received, evicted, sending, reading, produced, ready, running, waited, open,
                    control, tracked, paused, closed, exitCode, cleanEnd, cancelled>>
    BY DEF Flush, procVars, peerVars
  <2>6. /\ received' = Span(evicted, Got)
        /\ (sending' = 0 /\ Taken = Got) \/ (sending' = Taken /\ Taken = Got + 1)
        /\ (reading' = 0 /\ produced = Kept) \/ (reading' = produced /\ produced = Kept + 1)
    BY <2>5, Holding DEF InOrder
  <2>7. /\ InOrder'
        /\ {stage', queue', received'} \subseteq Seq(1..Chunks)
        /\ {reading', sending', produced', evicted'} \subseteq 0..Chunks
        /\ Bytes(queue') = Ends[Queued + 1] - Ends[Taken]
        /\ Bytes(stage') = Ends[Kept] - Ends[Queued + 1]
    <3>1. /\ queue' = Span(Taken, Queued + 1) /\ stage' = Span(Queued + 1, Kept)
          /\ evicted' = evicted /\ produced' = produced
      BY <2>1, <2>3, <2>4, <2>5
    <3>2. Boundaries(evicted, Got, Taken, Queued + 1, Kept, produced)
      BY <1>2, <2>2 DEF Boundaries
    <3> QED BY <2>6, <3>1, <3>2, Placed
  <2>8. /\ pc' \in [Threads -> Positions] /\ pc'["start"] = "unstage"
        /\ \A u \in Threads: u # "start" =>
             pc'[u] = IF u = "write" /\ pc[u] = "asleep" THEN "pop" ELSE pc[u]
    BY <2>1, TearingThreads, MovesWaking DEF TypeOK, Positions
  <2>9. TypeOK'
    BY <2>5, <2>7, <2>8 DEF TypeOK
  <2>10. PlaceInv'
    BY <1>1, <2>8, TearingThreads, CallersApart DEF PlaceInv, Tearing
  <2>11. HoldInv' /\ EndInv'
    BY <1>1, <2>5, <2>8, TearingThreads DEF HoldInv, EndInv
  <2>12. ExitInv'
    BY <1>1, <2>5, <2>8, TearingThreads DEF ExitInv
  <2>13. BoundInv'
    <3>1. /\ Ends[Taken] \in Nat /\ Ends[Queued] \in Nat
          /\ Ends[Kept] \in Nat /\ Ends[Queued + 1] \in Nat
      BY <1>2, <2>2, EndsGrow
    <3>2. Bytes(queue) + Bytes(stage) = Ends[Kept] - Ends[Taken]
      <4>1. Bytes(queue) = Ends[Queued] - Ends[Taken] /\ Bytes(stage) = Ends[Kept] - Ends[Queued]
        BY Counts
      <4> QED BY <3>1, <4>1
    <3>3. Ends[Kept] - Ends[Taken] <= Room
      BY <1>1, <3>2 DEF BoundInv
    <3>4. Ends[Taken] <= Ends[Queued + 1] /\ Ends[Queued + 1] <= Ends[Kept]
      BY <1>2, <2>2, EndsGrow
    <3>5. /\ Bytes(stage') <= Room /\ Bytes(queue') < Limit
          /\ Bytes(queue') + Bytes(stage') <= Room /\ Bytes(queue') < Limit + InputChunkSize
      <4>1. /\ Bytes(queue') = Ends[Queued + 1] - Ends[Taken]
            /\ Bytes(stage') = Ends[Kept] - Ends[Queued + 1]
        BY <2>7
      <4>2. Room \in Nat /\ Limit \in Nat /\ Room < Limit /\ InputChunkSize \in Nat
        BY Limits
      <4> QED BY <3>1, <3>3, <3>4, <4>1, <4>2
    <3> QED BY <3>5 DEF BoundInv
  <2> QED BY <2>7, <2>9, <2>10, <2>11, <2>12, <2>13
<1>4. CASE stage = <<>>
  <2>1. Goto("start", "done")
    BY <1>4 DEF Flush
  <2>2. UNCHANGED <<stage, queue, received, evicted, sending, reading, produced, ready, running,
                    waited, open, control, tracked, paused, closed, exitCode, cleanEnd, cancelled>>
    BY <1>4 DEF Flush, procVars, peerVars
  <2>3. /\ pc' \in [Threads -> Positions] /\ pc'["start"] = "done"
        /\ \A u \in Threads: u # "start" => pc'[u] = pc[u]
    BY <2>1, TearingThreads, Moves DEF TypeOK, Positions
  <2>4. TypeOK'
    BY <2>2, <2>3 DEF TypeOK
  <2>5. PlaceInv'
    BY <1>1, <2>3, TearingThreads, CallersApart DEF PlaceInv, Tearing
  <2>6. HoldInv' /\ EndInv'
    BY <1>1, <1>4, <2>2, <2>3, TearingThreads DEF HoldInv, EndInv
  <2>7. ExitInv'
    BY <1>1, <2>2, <2>3, TearingThreads DEF ExitInv
  <2>8. InOrder'
    BY <2>2 DEF InOrder, Got, Taken, Queued, Kept
  <2>9. BoundInv'
    <3>1. Bytes(stage) = 0 /\ Bytes(queue) \in Int
      BY <1>4, BytesInt DEF Bytes, TypeOK
    <3>2. Bytes(queue) < Limit
      BY <1>1, <3>1, Limits DEF BoundInv
    <3> QED BY <2>2, <2>3, <3>1, <3>2, Limits DEF BoundInv
  <2> QED BY <2>4, <2>5, <2>6, <2>7, <2>8, <2>9
<1> QED BY <1>3, <1>4

LEMMA ReadKeeps ==
  ASSUME IInv, OutputRead
  PROVE  IInv'
<1> USE DEF IInv
<1>1. /\ pc["output"] = "read" /\ Goto("output", "deliver") /\ produced < Chunks
      /\ produced' = produced + 1 /\ reading' = produced + 1
  BY DEF OutputRead
<1>2. UNCHANGED <<stage, queue, received, evicted, sending, ready, running, waited, open, control,
                  tracked, paused, closed, exitCode, cleanEnd, cancelled>>
  BY DEF OutputRead, queueVars, stageVars, peerVars
<1>3. reading = 0 /\ produced = Kept
  BY <1>1 DEF HoldInv, InOrder
<1>4. /\ InOrder'
      /\ {stage', queue', received'} \subseteq Seq(1..Chunks)
      /\ {reading', sending', produced', evicted'} \subseteq 0..Chunks
      /\ Bytes(queue') = Ends[Queued] - Ends[Taken]
      /\ Bytes(stage') = Ends[Kept] - Ends[Queued]
  <2>1. Boundaries(evicted, Got, Taken, Queued, Kept, produced + 1)
    <3>1. /\ {evicted, Got, Taken, Queued, Kept, produced} \subseteq 0..Chunks
          /\ evicted <= Got /\ Got <= Taken /\ Taken <= Queued /\ Queued <= Kept
          /\ Kept <= produced /\ Chunks \in Nat
      BY Counts, EndsGrow
    <3>2. produced + 1 \in 0..Chunks /\ Kept <= produced + 1
      BY <1>1, <3>1
    <3> QED BY <3>1, <3>2 DEF Boundaries
  <2>2. /\ received' = Span(evicted, Got) /\ queue' = Span(Taken, Queued)
        /\ stage' = Span(Queued, Kept) /\ evicted' = evicted /\ sending' = sending
    BY <1>2 DEF InOrder
  <2>3. (sending' = 0 /\ Taken = Got) \/ (sending' = Taken /\ Taken = Got + 1)
    BY <2>2, Holding
  <2>4. (reading' = 0 /\ produced + 1 = Kept) \/ (reading' = produced + 1 /\ produced + 1 = Kept + 1)
    BY <1>1, <1>3
  <2> QED BY <1>1, <2>1, <2>2, <2>3, <2>4, Placed
<1>5. /\ pc' \in [Threads -> Positions] /\ pc'["output"] = "deliver"
      /\ \A u \in Threads: u # "output" => pc'[u] = pc[u]
  BY <1>1, TearingThreads, Moves DEF TypeOK, Positions
<1>6. TypeOK'
  BY <1>2, <1>4, <1>5 DEF TypeOK
<1>7. PlaceInv'
  BY <1>1, <1>5, TearingThreads, CallersApart DEF PlaceInv, Tearing
<1>8. HoldInv'
  <2>1. reading' # 0
    BY <1>1, Counts, EndsGrow
  <2> QED BY <1>1, <1>2, <1>5, <2>1, TearingThreads DEF HoldInv
<1>9. EndInv' /\ ExitInv'
  BY <1>1, <1>2, <1>5, TearingThreads DEF EndInv, ExitInv
<1>10. BoundInv'
  BY <1>1, <1>2, <1>5, TearingThreads DEF BoundInv
<1> QED BY <1>4, <1>6, <1>7, <1>8, <1>9, <1>10

LEMMA DeliverKeeps ==
  ASSUME IInv, Deliver
  PROVE  IInv'
<1> USE DEF IInv
<1>1. /\ pc["output"] = "deliver" /\ pc["start"] # "unstage"
      /\ UNCHANGED <<queue, received, sending, produced, ready, running, waited, open, control,
                     tracked, paused, closed, exitCode, cleanEnd, cancelled>>
  BY DEF Deliver, procVars, queueVars, peerVars
<1>2. reading # 0 /\ reading = Kept + 1 /\ produced = Kept + 1
  BY <1>1 DEF HoldInv, InOrder
<1>3. /\ {evicted, Got, Taken, Queued, Kept, produced} \subseteq 0..Chunks
      /\ Taken <= Queued /\ Queued <= Kept /\ Chunks \in Nat /\ Kept + 1 \in 1..Chunks
      /\ evicted \in Nat /\ Queued \in Nat /\ Kept \in Nat
  BY <1>2, Counts, EndsGrow
<1>4. CASE ~ready
  <2>1. /\ stage' = Staged(reading) /\ reading' = 0 /\ Goto("output", "loop")
        /\ evicted' = evicted + (Len(stage) + 1) - Len(stage')
    BY <1>4 DEF Deliver
  <2>2. queue = <<>> /\ sending = 0 /\ received = <<>> /\ pc["start"] # "done"
    BY <1>4 DEF HoldInv
  <2>3. Got = evicted /\ Taken = evicted /\ Queued = evicted
    BY <1>3, <2>2, NothingStaged DEF Taken
  <2> DEFINE size == SizeOf(Kept + 1)
             room == IF size > StageCap THEN 0 ELSE StageCap - size
  <2>4. size \in Nat /\ size <= InputChunkSize /\ room \in Nat /\ room + size <= Room
    <3>1. size \in Nat /\ size <= InputChunkSize
      BY <1>3, EndsGrow
    <3> HIDE DEF size
    <3> QED BY <3>1, Limits
  <2>5. stage' = Append(Evict(stage, room), Kept + 1)
    BY <1>2, <2>1 DEF Staged
  <2> HIDE DEF room
  <2>6. PICK k \in 0..(Kept - Queued):
          Evict(stage, room) = Span(Queued + k, Kept) /\ Ends[Kept] - Ends[Queued + k] <= room
    BY <1>3, <2>4, EvictSpan DEF InOrder
  <2> DEFINE e == evicted + k
  <2>7. e \in Nat /\ e = Queued + k /\ e <= Kept /\ e \in 0..Chunks
    BY <1>3, <2>3
  <2> HIDE DEF e
  <2>8. stage' = Span(e, Kept + 1)
    BY <1>3, <2>5, <2>6, <2>7, SpanAppend
  <2>9. Len(stage) = Kept - Queued /\ Len(stage') = (Kept + 1) - e
    <3>1. e <= Kept + 1 /\ Kept + 1 \in 0..Chunks
      BY <1>3, <2>7
    <3> QED BY <1>3, <2>7, <2>8, <3>1, SpanIn DEF InOrder
  <2>10. evicted' = e
    BY <1>3, <2>1, <2>3, <2>7, <2>9
  <2>11. /\ InOrder'
         /\ {stage', queue', received'} \subseteq Seq(1..Chunks)
         /\ {reading', sending', produced', evicted'} \subseteq 0..Chunks
         /\ Bytes(queue') = Ends[e] - Ends[e]
         /\ Bytes(stage') = Ends[Kept + 1] - Ends[e]
    <3>1. Boundaries(e, e, e, e, Kept + 1, Kept + 1)
      BY <1>3, <2>7 DEF Boundaries
    <3>2. received' = Span(e, e) /\ queue' = Span(e, e)
      BY <1>1, <2>2, <2>7, SpanEmpty
    <3>3. produced' = Kept + 1 /\ sending' = 0 /\ reading' = 0
      BY <1>1, <1>2, <2>1, <2>2
    <3> QED BY <2>8, <2>10, <3>1, <3>2, <3>3, Placed
  <2>12. /\ pc' \in [Threads -> Positions] /\ pc'["output"] = "loop"
         /\ \A u \in Threads: u # "output" => pc'[u] = pc[u]
    BY <2>1, TearingThreads, Moves DEF TypeOK, Positions
  <2>13. TypeOK'
    BY <1>1, <2>11, <2>12 DEF TypeOK
  <2>14. PlaceInv'
    BY <1>1, <2>12, TearingThreads, CallersApart DEF PlaceInv, Tearing
  <2>15. HoldInv'
    BY <1>1, <2>1, <2>2, <2>12, TearingThreads DEF HoldInv
  <2>16. EndInv' /\ ExitInv'
    BY <1>1, <2>12, TearingThreads DEF EndInv, ExitInv
  <2>17. BoundInv'
    <3>1. Ends[e] \in Nat /\ Ends[Kept] \in Nat /\ Ends[Kept + 1] \in Nat
      BY <1>3, <2>7, EndsGrow
    <3>2. size = Ends[Kept + 1] - Ends[Kept]
      BY <1>3 DEF SizeOf
    <3> HIDE DEF size
    <3>3. Bytes(stage') <= Room /\ Bytes(queue') = 0
      <4>1. Ends[Kept] - Ends[e] <= room
        BY <2>6, <2>7
      <4>2. Bytes(stage') = Ends[Kept + 1] - Ends[e] /\ Bytes(queue') = Ends[e] - Ends[e]
        BY <2>11
      <4>3. size \in Nat /\ room \in Nat /\ Room \in Nat /\ room + size <= Room
        BY <2>4, Limits
      <4> QED BY <3>1, <3>2, <4>1, <4>2, <4>3
    <3>4. Bytes(queue') + Bytes(stage') <= Room
      BY <2>11, <3>1, <3>3
    <3>5. Bytes(queue') < Limit /\ Bytes(queue') < Limit + InputChunkSize
      BY <3>3, Limits
    <3> QED BY <3>3, <3>4, <3>5 DEF BoundInv
  <2> QED BY <2>11, <2>13, <2>14, <2>15, <2>16, <2>17
<1>5. CASE ready
  <2>1. Goto("output", "push") /\ UNCHANGED <<stage, evicted, reading>>
    BY <1>5 DEF Deliver
  <2>2. pc["start"] = "done"
    BY <1>1, <1>5 DEF HoldInv
  <2>3. /\ pc' \in [Threads -> Positions] /\ pc'["output"] = "push"
        /\ \A u \in Threads: u # "output" => pc'[u] = pc[u]
    BY <2>1, TearingThreads, Moves DEF TypeOK, Positions
  <2>4. TypeOK'
    BY <1>1, <2>1, <2>3 DEF TypeOK
  <2>5. PlaceInv'
    BY <1>1, <2>3, TearingThreads, CallersApart DEF PlaceInv, Tearing
  <2>6. HoldInv' /\ EndInv' /\ ExitInv'
    BY <1>1, <2>1, <2>2, <2>3, TearingThreads DEF HoldInv, EndInv, ExitInv
  <2>7. InOrder'
    BY <1>1, <2>1 DEF InOrder, Got, Taken, Queued, Kept
  <2>8. BoundInv'
    BY <1>1, <2>1, <2>2, <2>3, TearingThreads DEF BoundInv
  <2> QED BY <2>4, <2>5, <2>6, <2>7, <2>8
<1> QED BY <1>4, <1>5

LEMMA PushKeeps ==
  ASSUME IInv, Push
  PROVE  IInv'
<1> USE DEF IInv
<1>1. /\ pc["output"] = "push" /\ GotoWaking("output", "loop") /\ queue' = Append(queue, reading)
      /\ reading' = 0
      /\ UNCHANGED <<stage, evicted, received, sending, produced, ready, running, waited, open,
                     control, tracked, paused, closed, exitCode, cleanEnd, cancelled>>
  BY DEF Push, procVars, stageVars, peerVars
<1>2. /\ reading = Kept + 1 /\ produced = Kept + 1
      /\ pc["start"] = "done" /\ stage = <<>> /\ ready /\ Kept = Queued
  BY <1>1, NothingStaged DEF HoldInv, InOrder
<1>3. /\ {evicted, Got, Taken, Queued, Kept, produced} \subseteq 0..Chunks
      /\ evicted <= Got /\ Got <= Taken /\ Taken <= Queued /\ Chunks \in Nat
      /\ Queued + 1 \in 1..Chunks /\ Taken \in Nat /\ Queued \in Nat
  BY <1>2, Counts, EndsGrow
<1>4. /\ InOrder'
      /\ {stage', queue', received'} \subseteq Seq(1..Chunks)
      /\ {reading', sending', produced', evicted'} \subseteq 0..Chunks
      /\ Bytes(queue') = Ends[Queued + 1] - Ends[Taken]
      /\ Bytes(stage') = Ends[Queued + 1] - Ends[Queued + 1]
  <2>1. Boundaries(evicted, Got, Taken, Queued + 1, Queued + 1, Queued + 1)
    BY <1>3 DEF Boundaries
  <2>2. queue' = Span(Taken, Queued + 1)
    BY <1>1, <1>2, <1>3, SpanAppend DEF InOrder
  <2>3. stage' = Span(Queued + 1, Queued + 1)
    BY <1>1, <1>2, <1>3, SpanEmpty
  <2>4. /\ received' = Span(evicted, Got) /\ evicted' = evicted /\ sending' = sending
        /\ produced' = Queued + 1 /\ reading' = 0
    BY <1>1, <1>2 DEF InOrder
  <2>5. (sending' = 0 /\ Taken = Got) \/ (sending' = Taken /\ Taken = Got + 1)
    BY <2>4, Holding
  <2> QED BY <2>1, <2>2, <2>3, <2>4, <2>5, Placed
<1>5. /\ pc' \in [Threads -> Positions] /\ pc'["output"] = "loop"
      /\ \A u \in Threads: u # "output" =>
           pc'[u] = IF u = "write" /\ pc[u] = "asleep" THEN "pop" ELSE pc[u]
  BY <1>1, TearingThreads, MovesWaking DEF TypeOK, Positions
<1>6. TypeOK'
  BY <1>1, <1>4, <1>5 DEF TypeOK
<1>7. PlaceInv'
  BY <1>1, <1>5, TearingThreads, CallersApart DEF PlaceInv, Tearing
<1>8. HoldInv'
  BY <1>1, <1>2, <1>5, TearingThreads DEF HoldInv
<1>9. EndInv' /\ ExitInv'
  BY <1>1, <1>5, TearingThreads DEF EndInv, ExitInv
<1>10. BoundInv'
  <2>1. Ends[Taken] \in Nat /\ Ends[Queued] \in Nat /\ Ends[Queued + 1] \in Nat
    BY <1>3, EndsGrow
  <2>2. Ends[Queued] - Ends[Taken] < Limit
    BY <1>1, Counts DEF BoundInv
  <2>3. Ends[Queued + 1] - Ends[Queued] <= InputChunkSize
    <3>1. SizeOf(Queued + 1) <= InputChunkSize /\ (Queued + 1) - 1 = Queued
      BY <1>3, EndsGrow
    <3> QED BY <3>1 DEF SizeOf
  <2>4. Bytes(queue') < Limit + InputChunkSize /\ Bytes(stage') = 0
    <3>1. Limit \in Nat /\ InputChunkSize \in Nat
      BY Limits
    <3>2. Ends[Queued + 1] - Ends[Taken] < Limit + InputChunkSize
      BY <2>1, <2>2, <2>3, <3>1
    <3>3. Ends[Queued + 1] - Ends[Queued + 1] = 0
      BY <2>1
    <3> QED BY <1>4, <3>2, <3>3
  <2>5. Bytes(stage') <= Room
    BY <2>4, Limits
  <2>6. pc'["start"] = "done" /\ pc'["output"] = "loop"
    BY <1>2, <1>5, TearingThreads
  <2> QED BY <2>4, <2>5, <2>6 DEF BoundInv
<1> QED BY <1>4, <1>6, <1>7, <1>8, <1>9, <1>10

LEMMA PopKeeps ==
  ASSUME IInv, Pop
  PROVE  IInv'
<1> USE DEF IInv
<1>1. /\ pc["write"] = "pop"
      /\ UNCHANGED <<stage, evicted, received, reading, produced, ready, running, waited, open,
                     control, tracked, paused, closed, exitCode, cleanEnd, cancelled>>
  BY DEF Pop, procVars, stageVars, peerVars
<1>2. sending = 0 /\ Taken = Got
  BY <1>1 DEF HoldInv, Taken
<1>3. /\ {evicted, Got, Taken, Queued, Kept, produced} \subseteq 0..Chunks
      /\ evicted <= Got /\ Got <= Taken /\ Taken <= Queued /\ Queued <= Kept /\ Kept <= produced
      /\ Chunks \in Nat /\ Taken \in Nat /\ Queued \in Nat
  BY Counts, EndsGrow
<1>4. CASE queue # <<>>
  <2>1. sending' = Head(queue) /\ queue' = Tail(queue) /\ Goto("write", "send")
    BY <1>4 DEF Pop
  <2>2. Taken < Queued /\ Taken + 1 \in 0..Chunks
    BY <1>3, <1>4, NothingStaged
  <2>3. Head(queue) = Taken + 1 /\ Tail(queue) = Span(Taken + 1, Queued)
    BY <1>3, <2>2, SpanNotEmpty DEF InOrder
  <2>4. /\ InOrder'
        /\ {stage', queue', received'} \subseteq Seq(1..Chunks)
        /\ {reading', sending', produced', evicted'} \subseteq 0..Chunks
        /\ Bytes(queue') = Ends[Queued] - Ends[Taken + 1]
        /\ Bytes(stage') = Ends[Kept] - Ends[Queued]
    <3>1. Boundaries(evicted, Got, Taken + 1, Queued, Kept, produced)
      BY <1>3, <2>2 DEF Boundaries
    <3>2. /\ received' = Span(evicted, Got) /\ evicted' = evicted /\ produced' = produced
          /\ queue' = Span(Taken + 1, Queued) /\ stage' = Span(Queued, Kept)
      BY <1>1, <2>1, <2>3 DEF InOrder
    <3>3. sending' = Taken + 1 /\ Taken + 1 = Got + 1
      BY <1>2, <2>1, <2>3
    <3>4. (reading' = 0 /\ produced = Kept) \/ (reading' = produced /\ produced = Kept + 1)
      BY <1>1, Holding
    <3> QED BY <3>1, <3>2, <3>3, <3>4, Placed
  <2>5. /\ pc' \in [Threads -> Positions] /\ pc'["write"] = "send"
        /\ \A u \in Threads: u # "write" => pc'[u] = pc[u]
    BY <2>1, TearingThreads, Moves DEF TypeOK, Positions
  <2>6. TypeOK'
    BY <1>1, <2>4, <2>5 DEF TypeOK
  <2>7. PlaceInv'
    BY <1>1, <2>5, TearingThreads, CallersApart DEF PlaceInv, Tearing
  <2>8. HoldInv'
    <3>1. sending' # 0
      BY <1>3, <2>1, <2>3
    <3> QED BY <1>1, <1>4, <2>5, <3>1, TearingThreads DEF HoldInv
  <2>9. EndInv' /\ ExitInv'
    BY <1>1, <2>5, TearingThreads DEF EndInv, ExitInv
  <2>10. BoundInv'
    <3>1. /\ Ends[Taken] \in Nat /\ Ends[Queued] \in Nat /\ Ends[Taken + 1] \in Nat
          /\ Ends[Kept] \in Nat /\ Ends[Taken] <= Ends[Taken + 1]
      BY <1>3, <2>2, EndsGrow
    <3>2. Bytes(queue) = Ends[Queued] - Ends[Taken] /\ Bytes(stage) = Ends[Kept] - Ends[Queued]
      BY Counts
    <3>3. /\ Bytes(queue') = Ends[Queued] - Ends[Taken + 1]
          /\ Bytes(stage') = Ends[Kept] - Ends[Queued]
      BY <2>4
    <3> DEFINE before == Bytes(queue)
               after == Bytes(queue')
               staged == Bytes(stage)
               kept == Bytes(stage')
    <3> HIDE DEF before, after, staged, kept
    <3>4. /\ after <= before /\ kept = staged
          /\ after \in Int /\ before \in Int /\ staged \in Int
      BY <3>1, <3>2, <3>3 DEF before, after, staged, kept
    <3> USE DEF before, after, staged, kept
    <3> QED BY <2>5, <3>3, <3>4, TearingThreads, Limits DEF BoundInv
  <2> QED BY <2>4, <2>6, <2>7, <2>8, <2>9, <2>10
<1>5. CASE queue = <<>>
  <2>0. PICK l \in {"exit", "asleep"}:
          Goto("write", l) /\ (l = "exit" => closed) /\ UNCHANGED <<sending, queue>>
    BY <1>5 DEF Pop
  <2>1. /\ pc' \in [Threads -> Positions] /\ pc'["write"] = l
        /\ \A u \in Threads: u # "write" => pc'[u] = pc[u]
    BY <2>0, TearingThreads, Moves DEF TypeOK, Positions
  <2>2. TypeOK'
    BY <1>1, <2>0, <2>1 DEF TypeOK
  <2>3. PlaceInv'
    BY <1>1, <2>0, <2>1, TearingThreads, CallersApart DEF PlaceInv, Tearing
  <2>4. HoldInv'
    BY <1>1, <1>2, <2>0, <2>1, TearingThreads DEF HoldInv
  <2>5. EndInv' /\ ExitInv'
    BY <1>1, <1>5, <2>0, <2>1, TearingThreads DEF EndInv, ExitInv
  <2>6. InOrder'
    BY <1>1, <2>0 DEF InOrder, Got, Taken, Queued, Kept
  <2>7. BoundInv'
    BY <1>1, <2>0, <2>1, TearingThreads DEF BoundInv
  <2> QED BY <2>2, <2>3, <2>4, <2>5, <2>6, <2>7
<1> QED BY <1>4, <1>5

LEMMA SendBinaryKeeps ==
  ASSUME IInv, SendBinary
  PROVE  IInv'
<1> USE DEF IInv
<1>1. /\ pc["write"] = "send"
      /\ UNCHANGED <<stage, queue, evicted, reading, produced, ready, running, waited,
                     tracked, paused, closed, exitCode, cleanEnd, cancelled, control>>
  BY DEF SendBinary, SentBinary, WriteFails, procVars, queueVars, stageVars
<1>2. sending # 0 /\ sending = Taken /\ Taken = Got + 1 /\ ready
  BY <1>1, Holding DEF HoldInv, Taken
<1>3. /\ {evicted, Got, Taken, Queued, Kept, produced} \subseteq 0..Chunks
      /\ evicted <= Got /\ Got <= Taken /\ Taken <= Queued /\ Queued <= Kept /\ Kept <= produced
      /\ Chunks \in Nat /\ evicted \in Nat /\ Got \in Nat
  BY Counts, EndsGrow
<1>4. CASE SentBinary(sending) /\ sending' = 0 /\ Goto("write", "pop")
  <2>1. received' = Append(received, sending) /\ UNCHANGED open
    BY <1>4 DEF SentBinary
  <2>2. /\ InOrder'
        /\ {stage', queue', received'} \subseteq Seq(1..Chunks)
        /\ {reading', sending', produced', evicted'} \subseteq 0..Chunks
        /\ Bytes(queue') = Ends[Queued] - Ends[Taken]
        /\ Bytes(stage') = Ends[Kept] - Ends[Queued]
    <3>1. Boundaries(evicted, Taken, Taken, Queued, Kept, produced)
      BY <1>3 DEF Boundaries
    <3>2. received' = Span(evicted, Taken)
      BY <1>2, <1>3, <2>1, SpanAppend DEF InOrder
    <3>3. /\ evicted' = evicted /\ produced' = produced
          /\ queue' = Span(Taken, Queued) /\ stage' = Span(Queued, Kept)
      BY <1>1 DEF InOrder
    <3>4. (reading' = 0 /\ produced = Kept) \/ (reading' = produced /\ produced = Kept + 1)
      BY <1>1, Holding
    <3>5. sending' = 0
      BY <1>4
    <3> QED BY <3>1, <3>2, <3>3, <3>4, <3>5, Placed
  <2>3. /\ pc' \in [Threads -> Positions] /\ pc'["write"] = "pop"
        /\ \A u \in Threads: u # "write" => pc'[u] = pc[u]
    BY <1>4, TearingThreads, Moves DEF TypeOK, Positions
  <2>4. TypeOK'
    BY <1>1, <2>1, <2>2, <2>3 DEF TypeOK
  <2>5. PlaceInv'
    BY <1>1, <2>3, TearingThreads, CallersApart DEF PlaceInv, Tearing
  <2>6. HoldInv'
    BY <1>1, <1>2, <1>4, <2>3, TearingThreads DEF HoldInv
  <2>7. EndInv' /\ ExitInv'
    BY <1>1, <2>1, <2>3, TearingThreads DEF EndInv, ExitInv
  <2>8. BoundInv'
    BY <1>1, <2>3, TearingThreads DEF BoundInv
  <2> QED BY <2>2, <2>4, <2>5, <2>6, <2>7, <2>8
<1>5. CASE WriteFails /\ UNCHANGED sending /\ Goto("write", "abnormal")
  <2>1. open' \in {open, FALSE} /\ UNCHANGED received
    BY <1>5 DEF WriteFails
  <2>2. /\ pc' \in [Threads -> Positions] /\ pc'["write"] = "abnormal"
        /\ \A u \in Threads: u # "write" => pc'[u] = pc[u]
    BY <1>5, TearingThreads, Moves DEF TypeOK, Positions
  <2>3. TypeOK'
    BY <1>1, <1>5, <2>1, <2>2 DEF TypeOK
  <2>4. PlaceInv'
    BY <1>1, <2>2, TearingThreads, CallersApart DEF PlaceInv, Tearing
  <2>5. HoldInv'
    BY <1>1, <1>2, <1>5, <2>1, <2>2, TearingThreads DEF HoldInv
  <2>6. EndInv' /\ ExitInv'
    BY <1>1, <2>2, TearingThreads DEF EndInv, ExitInv
  <2>7. InOrder'
    BY <1>1, <1>5, <2>1 DEF InOrder, Got, Taken, Queued, Kept
  <2>8. BoundInv'
    BY <1>1, <2>2, TearingThreads DEF BoundInv
  <2> QED BY <2>3, <2>4, <2>5, <2>6, <2>7, <2>8
<1> QED BY <1>4, <1>5 DEF SendBinary

LEMMA OutputLoopKeeps ==
  ASSUME IInv, OutputLoop
  PROVE  IInv'
<1> USE DEF IInv
<1>1. TypeFacts'
  BY OutputPlaces DEF TypeFacts
<1>2. UNCHANGED outputVars
  BY QuietSteps DEF TypeFacts
<1>3. PICK l \in {"detach", "poll", "read"}: Goto("output", l) /\ (l = "read" => ~Behind)
  BY DEF OutputLoop
<1>4. /\ pc'["output"] = l
      /\ \A u \in Threads: u # "output" => pc'[u] = pc[u]
  BY <1>3, TearingThreads, Moves DEF TypeOK, Positions
<1>5. InOrder'
  BY <1>2 DEF outputVars, InOrder, Got, Taken, Queued, Kept
<1>6. ~Behind => Bytes(queue) < Limit
  <2>1. Bytes(queue) \in Int
    BY BytesInt DEF TypeOK
  <2> QED BY <2>1, Limits DEF Behind
<1>7. BoundInv'
  BY <1>2, <1>3, <1>4, <1>6, TearingThreads DEF BoundInv, outputVars
<1> QED BY <1>1, <1>5, <1>7 DEF TypeFacts

LEMMA StarterKeeps ==
  ASSUME IInv, Starter
  PROVE  IInv'
<1>0. TypeFacts /\ pc \in [Threads -> Positions]
  BY DEF IInv, TypeFacts, TypeOK
<1>1. CASE Launch
  <2>1. TypeFacts' /\ UNCHANGED outputVars
    BY <1>0, <1>1, StarterPlaces, QuietSteps
  <2>2. pc["start"] = "launch" /\ pc'["start"] = "ready" /\ pc'["output"] = "loop"
    BY <1>0, <1>1, TearingThreads DEF Launch
  <2> QED BY <2>1, <2>2, QuietKeeps
<1>2. CASE SendReady
  <2>1. TypeFacts' /\ UNCHANGED outputVars
    BY <1>0, <1>2, StarterPlaces, QuietSteps
  <2>2. pc["start"] = "ready" /\ pc'["start"] = "flush" /\ pc'["output"] = pc["output"]
    BY <1>0, <1>2, TearingThreads DEF SendReady, Goto
  <2> QED BY <2>1, <2>2, QuietKeeps
<1>3. CASE MarkReady
  <2>1. TypeFacts'
    BY <1>0, <1>3, StarterPlaces
  <2>2. UNCHANGED outputVars
    BY <1>3 DEF MarkReady, outputVars, procVars, queueVars, peerVars
  <2>3. pc["start"] = "flush" /\ pc'["start"] = "unstage" /\ pc'["output"] = pc["output"]
    BY <1>0, <1>3, TearingThreads DEF MarkReady, Goto
  <2> QED BY <2>1, <2>2, <2>3, QuietKeeps
<1>4. CASE Flush
  BY <1>4, FlushKeeps
<1> QED BY <1>1, <1>2, <1>3, <1>4 DEF Starter

LEMMA OutputPumpKeeps ==
  ASSUME IInv, OutputPump
  PROVE  IInv'
<1>0. TypeFacts /\ pc \in [Threads -> Positions]
  BY DEF IInv, TypeFacts, TypeOK
<1>1. CASE OutputPoll \/ OutputReadFails \/ OutputEnd \/ OutputExit \/ OutputDetach
  <2>1. TypeFacts' /\ UNCHANGED outputVars
    BY <1>0, <1>1, OutputPlaces, QuietSteps
  <2>2. pc'["start"] = pc["start"] /\ pc'["output"] \notin {"read", "deliver", "push"}
    BY <1>0, <1>1, TearingThreads DEF OutputPoll, OutputReadFails, OutputEnd, OutputExit,
       OutputDetach, Goto, GotoWaking
  <2> QED BY <2>1, <2>2, QuietKeeps
<1>2. CASE OutputLoop
  BY <1>2, OutputLoopKeeps
<1>3. CASE OutputRead
  BY <1>3, ReadKeeps
<1>4. CASE Deliver
  BY <1>4, DeliverKeeps
<1>5. CASE Push
  BY <1>5, PushKeeps
<1> QED BY <1>1, <1>2, <1>3, <1>4, <1>5 DEF OutputPump

LEMMA TearingKeeps ==
  ASSUME IInv, NEW t \in Tearing, Teardown(t) \/ (t \in Callers /\ BeginTeardown(t))
  PROVE  IInv'
<1>0. TypeFacts /\ pc \in [Threads -> Positions]
  BY DEF IInv, TypeFacts, TypeOK
<1>1. TypeFacts' /\ UNCHANGED outputVars
  <2>1. TypeFacts'
    BY <1>0, TeardownPlaces
  <2>2. (\E u \in Callers: BeginTeardown(u)) \/ (\E u \in Tearing: Teardown(u))
    OBVIOUS
  <2> QED BY <1>0, <2>1, <2>2, QuietSteps
<1>2. pc'["start"] = pc["start"] /\ pc'["output"] = pc["output"]
  <2>1. t # "start" /\ t # "output" /\ t \in Threads
    BY TearingThreads
  <2> QED BY <1>0, <2>1, TearingThreads DEF BeginTeardown, Teardown, CloseAbnormal, Cancel, Detach,
             HangUp, Finish, Goto, GotoWaking
<1> QED BY <1>1, <1>2, QuietKeeps

LEMMA QuietEnds ==
  ASSUME IInv, SendExit \/ CloseNormal \/ InputFails \/ ProcessStops \/ ClientLeaves
  PROVE  IInv'
<1>0. TypeFacts /\ pc \in [Threads -> Positions]
  BY DEF IInv, TypeFacts, TypeOK
<1>1. TypeFacts' /\ UNCHANGED outputVars
  BY <1>0, EndPlaces, QuietSteps
<1>2. pc'["start"] = pc["start"] /\ pc'["output"] = pc["output"]
  BY <1>0, TearingThreads DEF SendExit, CloseNormal, InputFails, ProcessStops, ClientLeaves, Goto
<1> QED BY <1>1, <1>2, QuietKeeps

-----------------------------------------------------------------------------

LEMMA InitFacts == Init => IInv
<1> SUFFICES ASSUME Init PROVE IInv
  OBVIOUS
<1>1. /\ pc \in [Threads -> Positions] /\ pc["start"] = "launch"
      /\ \A t \in {"output", "write", "input"}: pc[t] = "unborn"
      /\ \A t \in Callers: pc[t] = "idle"
  BY TearingThreads, CallersApart DEF Init, Positions, Threads
<1>2. /\ ready = FALSE /\ stage = <<>> /\ evicted = 0 /\ queue = <<>> /\ paused = FALSE
      /\ closed = FALSE /\ exitCode = "nil" /\ cleanEnd = FALSE /\ cancelled = FALSE
      /\ reading = 0 /\ sending = 0 /\ running = TRUE /\ waited = FALSE /\ produced = 0
      /\ open = TRUE /\ received = <<>> /\ control = {} /\ tracked = TRUE
  BY DEF Init
<1> HIDE DEF Init
<1>3. TypeOK
  <2>1. 0 \in 0..Chunks /\ <<>> \in Seq(1..Chunks)
    BY EndsGrow
  <2> QED BY <1>1, <1>2, <2>1 DEF TypeOK
<1>4. PlaceInv
  BY <1>1 DEF PlaceInv
<1>5. HoldInv /\ EndInv /\ ExitInv
  BY <1>1, <1>2 DEF HoldInv, EndInv, ExitInv
<1>6. InOrder
  <2>1. Len(<<>>) = 0 /\ Span(0, 0) = <<>>
    BY SpanEmpty
  <2>2. Got = 0 /\ Taken = 0 /\ Queued = 0 /\ Kept = 0
    BY <1>2, <2>1 DEF Got, Taken, Queued, Kept
  <2> QED BY <1>2, <2>1, <2>2 DEF InOrder
<1>7. BoundInv
  <2>1. Bytes(stage) = 0 /\ Bytes(queue) = 0
    BY <1>2 DEF Bytes
  <2> QED BY <1>1, <2>1, Limits DEF BoundInv
<1> QED BY <1>3, <1>4, <1>5, <1>6, <1>7 DEF IInv

LEMMA UnchangedFacts == IInv /\ UNCHANGED vars => IInv'
<1> SUFFICES ASSUME IInv, UNCHANGED vars PROVE IInv'
  OBVIOUS
<1>1. UNCHANGED <<pc, ready, stage, queue, paused, closed, exitCode, cancelled, reading, sending,
                  running, waited, produced, evicted, open, received, control, tracked, cleanEnd>>
  BY DEF vars, procVars, queueVars, stageVars, peerVars
<1>2. TypeOK' /\ PlaceInv' /\ HoldInv' /\ EndInv' /\ ExitInv'
  BY <1>1 DEF IInv, TypeOK, PlaceInv, HoldInv, EndInv, ExitInv
<1>3. InOrder' /\ BoundInv'
  BY <1>1 DEF IInv, InOrder, BoundInv, Got, Taken, Queued, Kept
<1> QED BY <1>2, <1>3 DEF IInv

LEMMA StepFacts == IInv /\ [Next]_vars => IInv'
<1> SUFFICES ASSUME IInv, [Next]_vars PROVE IInv'
  OBVIOUS
<1>1. CASE Starter
  BY <1>1, StarterKeeps
<1>2. CASE OutputPump
  BY <1>2, OutputPumpKeeps
<1>3. CASE Pop
  BY <1>3, PopKeeps
<1>4. CASE SendBinary
  BY <1>4, SendBinaryKeeps
<1>5. CASE SendExit \/ CloseNormal \/ InputFails \/ ProcessStops \/ ClientLeaves
  BY <1>5, QuietEnds
<1>6. CASE Teardown("write") \/ Teardown("input")
  BY <1>6, TearingKeeps DEF Tearing
<1>7. CASE \E t \in Callers: BeginTeardown(t) \/ Teardown(t)
  BY <1>7, TearingKeeps DEF Tearing
<1>8. CASE UNCHANGED vars
  BY <1>8, UnchangedFacts
<1> QED BY <1>1, <1>2, <1>3, <1>4, <1>5, <1>6, <1>7, <1>8 DEF Next, WritePump, InputPump

(* What every reachable state of an attachment satisfies: the client, the    *)
(* write pump, the queue, the staging buffer and the output pump hold        *)
(* consecutive stretches of the output, and the goroutines are where what    *)
(* they hold says.                                                           *)
THEOREM AttachmentInvariant == Spec => []IInv
BY InitFacts, StepFacts, PTL DEF Spec

(* Every goroutine is at a place of the code, every buffer holds chunks of   *)
(* the output.                                                               *)
THEOREM AttachmentTypes == Spec => []TypeOK
<1>1. IInv => TypeOK
  BY DEF IInv
<1> QED BY <1>1, AttachmentInvariant, PTL

(* Backpressure of outputPump: whatever the watermarks, the staging buffer,  *)
(* the chunk size and the order of pushes and pops, neither the queue nor    *)
(* the staging buffer holds more bytes than its limit.                       *)
THEOREM MemoryIsBounded == Spec => []QueueBounded
<1>1. IInv => QueueBounded
  BY DEF IInv, BoundInv, QueueBounded, Limit, Room
<1> QED BY <1>1, AttachmentInvariant, PTL

(* Every way an attachment ends -- CloseWithExit, a failed write, a client   *)
(* gone, Shutdown or ForceClose, in any interleaving -- has stopped and      *)
(* reaped the process, closed the connection and told the manager by the     *)
(* time the last goroutine returned.                                         *)
THEOREM NothingIsLeftBehind == Spec => []NothingLeftBehind
<1>1. IInv => NothingLeftBehind
  <2> SUFFICES ASSUME IInv, \A t \in Threads: Returned(t)
               PROVE  ~running /\ waited /\ ~open /\ ~tracked
    BY DEF NothingLeftBehind
  <2>1. pc["output"] = "done" /\ pc["write"] = "done"
    BY TearingThreads DEF IInv, PlaceInv, Returned
  <2> QED BY <2>1 DEF IInv, EndInv
<1> QED BY <1>1, AttachmentInvariant, PTL

-----------------------------------------------------------------------------
(* The attachment as a stream. *)

Ended == cleanEnd /\ "exit" \in control

LEMMA InFlightSpan ==
  ASSUME TypeOK, InOrder
  PROVE  InFlight = Span(Got, produced)
<1>1. /\ Got \in Nat /\ Taken \in Nat /\ Queued \in Nat /\ Kept \in Nat /\ produced \in Nat
      /\ Got <= Taken /\ Taken <= Queued /\ Queued <= Kept /\ Kept <= produced
      /\ Got <= Queued /\ Got <= Kept
  BY Counts, EndsGrow
<1>2. Held(sending) = Span(Got, Taken)
  <2>1. Span(Got, Got) = <<>> /\ Append(<<>>, Got + 1) = Span(Got, Got + 1)
    <3>1. Span(Got, Got) = <<>>
      BY <1>1, SpanEmpty
    <3>2. Append(Span(Got, Got), Got + 1) = Span(Got, Got + 1)
      BY <1>1, SpanAppend
    <3> QED BY <3>1, <3>2
  <2>2. Append(<<>>, Got + 1) = <<Got + 1>>
    OBVIOUS
  <2>3. CASE sending = 0
    BY <2>1, <2>3, Holding DEF Held, Taken
  <2>4. CASE sending # 0
    BY <1>1, <2>1, <2>2, <2>4, Holding DEF Held
  <2> QED BY <2>3, <2>4
<1>3. Held(reading) = Span(Kept, produced)
  <2>1. Span(Kept, Kept) = <<>> /\ Append(<<>>, Kept + 1) = Span(Kept, Kept + 1)
    <3>1. Span(Kept, Kept) = <<>>
      BY <1>1, SpanEmpty
    <3>2. Append(Span(Kept, Kept), Kept + 1) = Span(Kept, Kept + 1)
      BY <1>1, SpanAppend
    <3> QED BY <3>1, <3>2
  <2>2. Append(<<>>, Kept + 1) = <<Kept + 1>>
    OBVIOUS
  <2>3. CASE reading = 0
    BY <2>1, <2>3, Holding DEF Held, InOrder
  <2>4. CASE reading # 0
    BY <1>1, <2>1, <2>2, <2>4, Holding DEF Held
  <2> QED BY <2>3, <2>4
<1>4. InFlight = ((Span(Got, Taken) \o Span(Taken, Queued)) \o Span(Queued, Kept))
                    \o Span(Kept, produced)
  BY <1>2, <1>3 DEF InFlight, InOrder
<1>5. Span(Got, Taken) \o Span(Taken, Queued) = Span(Got, Queued)
  BY <1>1, SpanConcat
<1>6. Span(Got, Queued) \o Span(Queued, Kept) = Span(Got, Kept)
  BY <1>1, SpanConcat
<1>7. Span(Got, Kept) \o Span(Kept, produced) = Span(Got, produced)
  BY <1>1, SpanConcat
<1> QED BY <1>4, <1>5, <1>6, <1>7

(* What the stream sees of a state. *)
LEMMA Seen ==
  ASSUME IInv
  PROVE  /\ Got \in Nat /\ produced \in Nat /\ evicted \in Nat
         /\ Got <= produced /\ produced <= Chunks /\ Chunks \in Nat
         /\ InFlight = Span(Got, produced)
         /\ Len(InFlight) = produced - Got
         /\ Len(received) = Got - evicted
         /\ evicted <= Got
<1>1. TypeOK /\ InOrder
  BY DEF IInv
<1>2. /\ Got \in 0..Chunks /\ produced \in 0..Chunks /\ evicted \in 0..Chunks /\ Chunks \in Nat
      /\ evicted <= Got /\ Got <= Taken /\ Taken <= Queued /\ Queued <= Kept /\ Kept <= produced
      /\ Len(received) = Got - evicted
      /\ Taken \in Nat /\ Queued \in Nat /\ Kept \in Nat
  BY <1>1, Counts, EndsGrow
<1>3. Got <= produced
  BY <1>2
<1>4. Len(Span(Got, produced)) = produced - Got
  BY <1>2, <1>3, SpanIn
<1>5. InFlight = Span(Got, produced)
  BY <1>1, InFlightSpan
<1> QED BY <1>2, <1>3, <1>4, <1>5

LEMMA Unseen ==
  ASSUME IInv, IInv', UNCHANGED <<received, evicted, produced, ready>>, Ended' <=> Ended
  PROVE  UNCHANGED Stream!streamVars
<1>1. InFlight = Span(Got, produced) /\ InFlight' = Span(Got', produced')
  <2>1. InFlight = Span(Got, produced)
    BY Seen
  <2>2. (InFlight = Span(Got, produced))'
    <3>1. (TypeOK /\ InOrder)'
      BY DEF IInv
    <3> QED BY <3>1, InFlightSpan, PTL
  <2> QED BY <2>1, <2>2
<1>2. InFlight' = InFlight
  BY <1>1 DEF Got
<1>3. (cleanEnd /\ "exit" \in control)' = (cleanEnd /\ "exit" \in control)
  BY DEF Ended
<1> QED BY <1>2, <1>3 DEF Stream!streamVars

(* Seen after a step. *)
LEMMA SeenNext ==
  ASSUME IInv'
  PROVE  /\ Got' \in Nat /\ produced' \in Nat /\ evicted' \in Nat
         /\ Got' <= produced' /\ produced' <= Chunks
         /\ InFlight' = Span(Got', produced')
         /\ Len(received') = Got' - evicted' /\ evicted' <= Got'
<1>1. (/\ Got \in Nat /\ produced \in Nat /\ evicted \in Nat
       /\ Got <= produced /\ produced <= Chunks /\ Chunks \in Nat
       /\ InFlight = Span(Got, produced)
       /\ Len(InFlight) = produced - Got
       /\ Len(received) = Got - evicted
       /\ evicted <= Got)'
  BY Seen, PTL
<1> QED BY <1>1

LEMMA OutputReadEmits ==
  ASSUME IInv, IInv', OutputRead
  PROVE  Stream!Emit
<1>1. /\ pc["output"] = "read" /\ produced < Chunks /\ produced' = produced + 1
      /\ UNCHANGED <<received, evicted, ready, control, cleanEnd>>
  BY DEF OutputRead, queueVars, stageVars, peerVars
<1>2. ~Ended /\ ~Ended'
  BY <1>1 DEF IInv, ExitInv, Ended
<1>3. Got' = Got
  BY <1>1 DEF Got
<1>4. evicted + Len(received) + Len(InFlight) = produced
  BY Seen
<1>5. InFlight' = Append(InFlight, produced + 1)
  <2>1. InFlight' = Span(Got, produced + 1)
    BY <1>1, <1>3, SeenNext
  <2>2. InFlight = Span(Got, produced) /\ Got \in Nat /\ produced \in Nat /\ Got <= produced
    BY Seen
  <2>3. Append(Span(Got, produced), produced + 1) = Span(Got, produced + 1)
    BY <2>2, SpanAppend
  <2> QED BY <2>1, <2>2, <2>3
<1>6. (cleanEnd /\ "exit" \in control)' = (cleanEnd /\ "exit" \in control)
  BY <1>2 DEF Ended
<1> QED BY <1>1, <1>2, <1>4, <1>5, <1>6 DEF Stream!Emit, Ended

LEMMA MarkReadyBegins ==
  ASSUME IInv, IInv', MarkReady
  PROVE  Stream!Begin
<1>1. /\ pc["start"] = "flush" /\ ready' = TRUE
      /\ UNCHANGED <<received, evicted, produced, control, cleanEnd>>
  BY DEF MarkReady, procVars, queueVars, peerVars
<1>2. ~ready
  BY <1>1 DEF IInv, HoldInv
<1>3. InFlight' = InFlight
  <2>1. Got' = Got
    BY <1>1 DEF Got
  <2> QED BY <1>1, <2>1, Seen, SeenNext
<1> QED BY <1>1, <1>2, <1>3 DEF Stream!Begin

LEMMA SendBinaryReceives ==
  ASSUME IInv, IInv', SendBinary
  PROVE  Stream!Receive \/ UNCHANGED Stream!streamVars
<1>1. UNCHANGED <<evicted, produced, ready, control, cleanEnd>>
  BY DEF SendBinary, SentBinary, WriteFails, procVars, queueVars, stageVars
<1>2. CASE SentBinary(sending)
  <2>1. sending # 0 /\ sending = Taken /\ Taken = Got + 1 /\ ready
    BY Holding DEF IInv, SendBinary, HoldInv
  <2>2. received' = Append(received, Got + 1)
    BY <1>2, <2>1 DEF SentBinary
  <2>3. Got < produced /\ Got' = Got + 1
    <3>1. Got + 1 <= produced
      <4>1. Taken <= Queued /\ Queued <= Kept /\ Kept <= produced
        BY Counts DEF IInv
      <4>2. Taken \in Nat /\ Queued \in Nat /\ Kept \in Nat /\ produced \in Nat /\ Got \in Nat
        BY Counts, EndsGrow DEF IInv
      <4> QED BY <2>1, <4>1, <4>2
    <3>2. Len(received') = Len(received) + 1
      BY <2>2, <2>1 DEF IInv, TypeOK
    <3>3. evicted' + Len(received') = evicted + Len(received) + 1
      BY <1>1, <3>2, Seen
    <3> QED BY <3>1, <3>3, Seen DEF Got
  <2>4. /\ InFlight # <<>> /\ Head(InFlight) = Got + 1
        /\ Tail(InFlight) = Span(Got + 1, produced)
    <3>1. InFlight = Span(Got, produced) /\ Got \in Nat /\ produced \in Nat
      BY Seen
    <3>2. /\ Span(Got, produced) # <<>> /\ Head(Span(Got, produced)) = Got + 1
          /\ Tail(Span(Got, produced)) = Span(Got + 1, produced)
      BY <2>3, <3>1, SpanNotEmpty
    <3> QED BY <3>1, <3>2
  <2>5. InFlight' = Tail(InFlight)
    BY <1>1, <2>3, <2>4, SeenNext
  <2> QED BY <1>1, <2>1, <2>2, <2>4, <2>5 DEF Stream!Receive
<1>3. CASE WriteFails
  BY <1>1, <1>3, Unseen DEF WriteFails, Ended
<1> QED BY <1>2, <1>3 DEF SendBinary

LEMMA SendExitEnds ==
  ASSUME IInv, IInv', SendExit
  PROVE  Stream!End \/ UNCHANGED Stream!streamVars
<1>1. /\ pc["write"] = "exit" /\ UNCHANGED <<evicted, received, produced, ready, cleanEnd>>
  BY DEF SendExit, SentText, procVars, queueVars, stageVars, peerVars
<1>2. CASE cleanEnd /\ control' = control \union {"exit"}
  <2>1. pc["start"] = "done" /\ pc["output"] = "done" /\ queue = <<>>
    BY <1>1, <1>2 DEF IInv, ExitInv
  <2>2. stage = <<>> /\ reading = 0 /\ sending = 0 /\ ready
    BY <1>1, <2>1 DEF IInv, HoldInv
  <2>3. InFlight = <<>>
    BY <2>1, <2>2 DEF InFlight, Held
  <2>4. InFlight' = InFlight
    <3>1. Got' = Got
      BY <1>1 DEF Got
    <3> QED BY <1>1, <3>1, Seen, SeenNext
  <2>5. (cleanEnd /\ "exit" \in control)' = TRUE
    BY <1>1, <1>2
  <2> QED BY <1>1, <2>2, <2>3, <2>4, <2>5 DEF Stream!End
<1>3. CASE ~cleanEnd \/ control' = control
  BY <1>1, <1>3, Unseen DEF Ended
<1>4. control' = control \union {"exit"} \/ control' = control
  BY DEF SendExit, SentText, peerVars
<1> QED BY <1>2, <1>3, <1>4

LEMMA DeliverDiscards ==
  ASSUME IInv, IInv', Deliver
  PROVE  (\E n \in 1..Len(InFlight): Stream!Discard(n)) \/ UNCHANGED Stream!streamVars
<1>1. /\ pc["output"] = "deliver"
      /\ UNCHANGED <<received, produced, ready, control, cleanEnd>>
  BY DEF Deliver, procVars, queueVars, peerVars
<1>2. CASE ready
  BY <1>1, <1>2, Unseen DEF Deliver, Ended
<1>3. CASE ~ready
  <2>1. reading = Kept + 1 /\ received = <<>>
    BY <1>1, <1>3 DEF IInv, HoldInv, InOrder
  <2>2. /\ Queued \in Nat /\ Kept \in Nat /\ Queued <= Kept /\ Kept \in 0..Chunks
        /\ Kept + 1 \in 1..Chunks /\ Len(stage) = Kept - Queued
    <3>1. /\ Queued \in 0..Chunks /\ Kept \in 0..Chunks /\ Queued <= Kept /\ Chunks \in Nat
      BY Counts, EndsGrow DEF IInv
    <3>2. Len(stage) = Kept - Queued
      BY <3>1, SpanIn DEF IInv, InOrder
    <3>3. reading \in 0..Chunks
      BY DEF IInv, TypeOK
    <3> QED BY <2>1, <3>1, <3>2, <3>3
  <2>3. evicted <= evicted'
    <3> DEFINE room == IF SizeOf(Kept + 1) > StageCap THEN 0 ELSE StageCap - SizeOf(Kept + 1)
    <3>1. room \in Nat
      <4>1. SizeOf(Kept + 1) \in Nat /\ StageCap \in Nat
        BY <2>2, EndsGrow, Limits
      <4> QED BY <4>1
    <3>2. stage' = Append(Evict(stage, room), Kept + 1)
      BY <1>3, <2>1 DEF Deliver, Staged
    <3> HIDE DEF room
    <3>3. PICK k \in 0..(Kept - Queued): Evict(stage, room) = Span(Queued + k, Kept)
      BY <2>2, <3>1, EvictSpan DEF IInv, InOrder
    <3>4. Queued + k \in 0..Chunks /\ Queued + k <= Kept
      BY <2>2, EndsGrow
    <3>5. Evict(stage, room) \in Seq(1..Chunks) /\ Len(Evict(stage, room)) = Kept - (Queued + k)
      BY <2>2, <3>3, <3>4, SpanIn
    <3>6. Len(stage') = Kept - (Queued + k) + 1
      BY <3>2, <3>5
    <3>7. evicted' = evicted + (Len(stage) + 1) - Len(stage')
      BY <1>3 DEF Deliver
    <3> QED BY <2>2, <3>6, <3>7, Seen
  <2>4. Got = evicted /\ Got' = evicted'
    BY <1>1, <2>1, Seen, SeenNext DEF Got
  <2> DEFINE n == evicted' - evicted
  <2>5. n \in 0..(produced - Got) /\ evicted' = evicted + n /\ Got + n = Got'
    BY <1>1, <2>3, <2>4, Seen, SeenNext
  <2> HIDE DEF n
  <2>6. InFlight' = SubSeq(InFlight, n + 1, Len(InFlight))
    <3>1. InFlight = Span(Got, produced) /\ Got \in Nat /\ produced \in Nat /\ Got <= produced
      BY Seen
    <3>2. SubSeq(Span(Got, produced), n + 1, Len(Span(Got, produced))) = Span(Got + n, produced)
      BY <2>5, <3>1, SpanRest
    <3>3. InFlight' = Span(Got + n, produced)
      BY <1>1, <2>5, SeenNext
    <3> QED BY <3>1, <3>2, <3>3
  <2>7. CASE n = 0
    <3>1. evicted' = evicted
      BY <2>5, <2>7, Seen
    <3> QED BY <1>1, <3>1, Unseen DEF Ended
  <2>8. CASE n # 0
    <3>1. n \in 1..Len(InFlight)
      BY <2>5, <2>8, Seen
    <3>2. Stream!Discard(n)
      BY <1>1, <1>3, <2>5, <2>6 DEF Stream!Discard
    <3> QED BY <3>1, <3>2
  <2> QED BY <2>7, <2>8
<1> QED BY <1>2, <1>3

(* The client is told of an exit only once the queue is closed, and the end  *)
(* of a queue that was closed before CloseWithExit is not a clean one.       *)
LEMMA OutputExitUnseen ==
  ASSUME IInv, IInv', OutputExit
  PROVE  UNCHANGED Stream!streamVars
<1>1. /\ pc["output"] = "exit" /\ cleanEnd' = (pc["start"] = "done" /\ ~closed)
      /\ UNCHANGED <<received, evicted, produced, ready, control>>
  BY DEF OutputExit, procVars, stageVars, peerVars
<1>2. ~Ended
  BY <1>1 DEF IInv, ExitInv, Ended
<1>3. ~Ended'
  BY <1>1 DEF IInv, ExitInv, Ended
<1> QED BY <1>1, <1>2, <1>3, Unseen

LEMMA OtherStepsUnseen ==
  ASSUME IInv, IInv',
         \/ Launch \/ SendReady \/ Flush \/ OutputLoop \/ OutputPoll \/ OutputReadFails \/ Push
         \/ OutputEnd \/ OutputDetach \/ Pop \/ CloseNormal \/ InputFails
         \/ ProcessStops \/ ClientLeaves \/ UNCHANGED vars
         \/ \E t \in Tearing: Teardown(t) \/ (t \in Callers /\ BeginTeardown(t))
  PROVE  UNCHANGED Stream!streamVars
<1>1. UNCHANGED <<received, evicted, produced, ready, cleanEnd>>
  BY DEF vars, procVars, queueVars, stageVars, peerVars, Launch, SendReady, Flush, OutputLoop,
     OutputPoll, OutputReadFails, Push, OutputEnd, OutputDetach, Pop, CloseNormal, InputFails,
     ProcessStops, ClientLeaves, BeginTeardown, Teardown, CloseAbnormal, Cancel, Detach, HangUp,
     Finish, SentText, WriteFails
<1>2. control' = control \/ control' = control \union {"ready"}
  BY DEF vars, procVars, queueVars, stageVars, peerVars, Launch, SendReady, Flush, OutputLoop,
     OutputPoll, OutputReadFails, Push, OutputEnd, OutputDetach, Pop, CloseNormal, InputFails,
     ProcessStops, ClientLeaves, BeginTeardown, Teardown, CloseAbnormal, Cancel, Detach, HangUp,
     Finish, SentText, WriteFails
<1> QED BY <1>1, <1>2, Unseen DEF Ended

(* The buffers, the hysteresis, the flush and every teardown keep what the   *)
(* stream promises the client: the output in order and without a gap but     *)
(* for a prefix dropped before it was ready, and all of it before an exit    *)
(* reported for a stream that ended on its own.                              *)
THEOREM AttachmentImplementsStream == Spec => ImplementsStream
<1>1. Init => Stream!Init
  <2> SUFFICES ASSUME Init PROVE Stream!Init
    OBVIOUS
  <2>1. /\ stage = <<>> /\ queue = <<>> /\ received = <<>> /\ evicted = 0 /\ ready = FALSE
        /\ reading = 0 /\ sending = 0 /\ cleanEnd = FALSE
    BY DEF Init
  <2>2. InFlight = <<>>
    BY <2>1 DEF InFlight, Held
  <2> QED BY <2>1, <2>2 DEF Stream!Init
<1>2. IInv /\ IInv' /\ [Next]_vars => [Stream!Next]_Stream!streamVars
  <2> SUFFICES ASSUME IInv, IInv', [Next]_vars
               PROVE  Stream!Next \/ UNCHANGED Stream!streamVars
    OBVIOUS
  <2>1. CASE OutputRead
    BY <2>1, OutputReadEmits DEF Stream!Next
  <2>2. CASE MarkReady
    BY <2>2, MarkReadyBegins DEF Stream!Next
  <2>3. CASE SendBinary
    BY <2>3, SendBinaryReceives DEF Stream!Next
  <2>4. CASE SendExit
    BY <2>4, SendExitEnds DEF Stream!Next
  <2>5. CASE Deliver
    BY <2>5, DeliverDiscards DEF Stream!Next
  <2>6. CASE OutputExit
    BY <2>6, OutputExitUnseen
  <2>7. CASE \/ Launch \/ SendReady \/ Flush \/ OutputLoop \/ OutputPoll \/ OutputReadFails \/ Push
             \/ OutputEnd \/ OutputDetach \/ Pop \/ CloseNormal \/ InputFails
             \/ ProcessStops \/ ClientLeaves \/ UNCHANGED vars
             \/ \E t \in Tearing: Teardown(t) \/ (t \in Callers /\ BeginTeardown(t))
    BY <2>7, OtherStepsUnseen
  <2> QED BY <2>1, <2>2, <2>3, <2>4, <2>5, <2>6, <2>7
          DEF Next, Starter, OutputPump, WritePump, InputPump, Tearing
<1> QED BY <1>1, <1>2, AttachmentInvariant, PTL DEF Spec, ImplementsStream, Stream!Spec

-----------------------------------------------------------------------------
(* The way back: keystrokes and sizes. *)

(* What the pump is at belongs to the message it took last. *)
PumpInv ==
  /\ pump = "write" => handled > 0 /\ sent[handled].type = "binary"
  /\ pump = "resized" => Valid(message.size)

(* While the process takes input, it has all the pump got to. *)
Turned(e) == e[1] < handled \/ pump # "write" \/ e[2] <= piece

KeyInv ==
  /\ \A i, j \in 1..Len(typed): i < j => Before(typed[i], typed[j])
  /\ Arrived \subseteq Owed
  /\ \A e \in Owed, f \in Arrived: Before(e, f) => e \in Arrived
  /\ alive /\ ~ctxDone => Arrived = {e \in Owed: Turned(e)}

(* The size the client asked for last. *)
Latest == IF pump = "resized" THEN message.size ELSE rows

RepaintInv ==
  /\ starter \in {"shrink", "restore"} => snapshot >= 2
  /\ alive /\ starter \in {"asked", "shrink"} => pty = Latest
  /\ starter \in {"shrink", "restore"} /\ snapshot # Latest => overtaken
  /\ alive /\ starter = "done" => pty = Latest \/ (overtaken /\ pty = snapshot)

InputInv == InputTypeOK /\ PumpInv /\ KeyInv /\ RepaintInv

(* What the assumptions say of sizes, pieces and messages. *)
LEMMA Dimensions ==
  /\ MaxDimension \in Nat \ {0} /\ Pieces \in Nat \ {0} /\ Sizes \subseteq Int
  /\ \A m \in Messages: m.type \in {"binary", "resize"} /\ m.size \in Int
  /\ Nothing \notin Messages
<1>1. MaxDimension \in Nat \ {0} /\ Pieces \in Nat \ {0} /\ Sizes \subseteq Int
  BY DimensionAssumption DEF DimensionAssumption
<1>2. ASSUME NEW m \in Messages PROVE m.type \in {"binary", "resize"} /\ m.size \in Int
  BY <1>1 DEF Messages, Keys, Resize
<1>3. Nothing \notin Messages
  BY <1>2 DEF Nothing
<1> QED BY <1>1, <1>2, <1>3

(* A piece that is owed is a pair of a message taken and a number. *)
LEMMA PiecesOwed ==
  ASSUME InputTypeOK, NEW e \in Owed
  PROVE  /\ e[1] \in 1..handled /\ e[2] \in 1..Pieces /\ e = <<e[1], e[2]>>
         /\ handled \in Nat /\ Pieces \in Nat /\ sent[e[1]].type = "binary"
<1>1. handled \in Nat /\ Pieces \in Nat
  BY Dimensions DEF InputTypeOK
<1>2. e \in (1..handled) \X (1..Pieces) /\ sent[e[1]].type = "binary"
  BY DEF Owed
<1> QED BY <1>1, <1>2

(* A step that takes no message further and writes nothing. *)
LEMMA KeysStay ==
  ASSUME InputInv, UNCHANGED <<handled, typed>>,
         \A k \in 1..handled: sent'[k] = sent[k],
         alive' => alive, ~ctxDone' => ~ctxDone,
         \/ pump # "write" /\ pump' # "write"
         \/ UNCHANGED <<pump, piece>>
  PROVE  KeyInv'
<1>1. Owed' = Owed
  <2>1. ASSUME NEW e \in (1..handled) \X (1..Pieces) PROVE sent'[e[1]] = sent[e[1]]
    <3>1. e[1] \in 1..handled
      OBVIOUS
    <3> QED BY <3>1
  <2> QED BY <2>1 DEF Owed
<1>2. Arrived' = Arrived
  BY DEF Arrived
<1>3. ASSUME NEW e \in Owed PROVE Turned(e)' <=> Turned(e)
  BY DEF Turned
<1>4. alive' /\ ~ctxDone' => Arrived' = {e \in Owed': Turned(e)'}
  BY <1>1, <1>2, <1>3 DEF InputInv, KeyInv
<1>5. \A i, j \in 1..Len(typed'): i < j => Before(typed'[i], typed'[j])
  BY DEF InputInv, KeyInv
<1>6. Arrived' \subseteq Owed' /\ \A e \in Owed', f \in Arrived': Before(e, f) => e \in Arrived'
  BY <1>1, <1>2 DEF InputInv, KeyInv
<1> QED BY <1>4, <1>5, <1>6 DEF KeyInv, Before

(* What the client sends comes after all the pump took. *)
LEMMA ClientSendsInv ==
  ASSUME InputInv, ClientSends
  PROVE  InputInv'
<1> USE DEF InputInv
<1>1. PICK m \in Messages: sent' = Append(sent, m)
  BY DEF ClientSends
<1>2. UNCHANGED <<rows, pty, starter, snapshot, overtaken, pump, message, piece, handled, typed,
                 alive, ctxDone>>
  BY DEF ClientSends
<1>3. /\ sent' \in Seq(Messages) /\ Len(sent') = Len(sent) + 1
      /\ \A k \in 1..Len(sent): sent'[k] = sent[k]
  BY <1>1, AppendProperties DEF InputTypeOK
<1>4. Len(sent) \in Nat /\ handled \in 0..Len(sent)
  BY DEF InputTypeOK
<1>5. handled' \in 0..Len(sent') /\ \A k \in 1..handled: sent'[k] = sent[k]
  BY <1>2, <1>3, <1>4
<1>6. InputTypeOK'
  BY <1>2, <1>3, <1>5 DEF InputTypeOK
<1>7. PumpInv'
  BY <1>2, <1>4, <1>5 DEF PumpInv
<1>8. KeyInv'
  BY <1>2, <1>5, KeysStay
<1>9. RepaintInv'
  BY <1>2 DEF RepaintInv, Latest
<1> QED BY <1>6, <1>7, <1>8, <1>9

(* A message taken is owed from its first piece on; a resize owes none. *)
LEMMA ReadMessageInv ==
  ASSUME InputInv, ReadMessage
  PROVE  InputInv'
<1> USE DEF InputInv
<1> DEFINE m == sent[handled + 1]
<1>1. /\ pump = "read" /\ ~ctxDone /\ handled < Len(sent) /\ handled' = handled + 1
      /\ UNCHANGED <<rows, starter, snapshot, sent, typed, alive, ctxDone>>
  BY DEF ReadMessage
<1>2. /\ handled \in Nat /\ Len(sent) \in Nat /\ handled + 1 \in 1..Len(sent)
      /\ m \in Messages
  <2>1. handled \in Nat /\ Len(sent) \in Nat /\ handled + 1 \in 1..Len(sent)
    BY <1>1 DEF InputTypeOK
  <2> QED BY <2>1 DEF InputTypeOK
<1>3. \/ /\ m.type = "binary" /\ message' = m /\ piece' = 0 /\ pump' = "write"
         /\ UNCHANGED <<pty, overtaken>>
      \/ /\ m.type = "resize" /\ Valid(m.size) /\ SetPty(m.size)
         /\ overtaken' = (starter \in {"shrink", "restore"})
         /\ message' = m /\ pump' = "resized" /\ UNCHANGED piece
      \/ /\ m.type = "resize" /\ UNCHANGED <<pty, overtaken, message, piece, pump>>
  BY DEF ReadMessage
<1> HIDE DEF m
<1>4. InputTypeOK'
  <2>1. pty' \in 1..MaxDimension
    BY <1>3 DEF InputTypeOK, SetPty, Valid
  <2>2. handled' \in 0..Len(sent')
    BY <1>1, <1>2
  <2>3. piece' \in 0..Pieces /\ message' \in Messages \union {Nothing}
    BY <1>2, <1>3, Dimensions DEF InputTypeOK
  <2>4. pump' \in {"read", "write", "resized", "done"}
    BY <1>1, <1>3
  <2>5. overtaken' \in BOOLEAN
    <3>1. overtaken \in BOOLEAN
      BY DEF InputTypeOK
    <3>2. overtaken' = overtaken \/ overtaken' = (starter \in {"shrink", "restore"})
      BY <1>3
    <3>3. ASSUME overtaken' = (starter \in {"shrink", "restore"}) PROVE overtaken' \in BOOLEAN
      <4>1. CASE starter \in {"shrink", "restore"}
        BY <3>3, <4>1
      <4>2. CASE starter \notin {"shrink", "restore"}
        BY <3>3, <4>2
      <4> QED BY <4>1, <4>2
    <3> QED BY <3>1, <3>2, <3>3
  <2> QED BY <1>1, <2>1, <2>2, <2>3, <2>4, <2>5 DEF InputTypeOK
<1>5. PumpInv'
  BY <1>1, <1>2, <1>3 DEF PumpInv, m
<1>6. KeyInv'
  <2>1. ASSUME NEW e \in Owed PROVE e \in Owed' /\ e[1] <= handled
    <3>1. /\ e[1] \in 1..handled /\ e[2] \in 1..Pieces /\ e = <<e[1], e[2]>>
          /\ sent[e[1]].type = "binary"
      BY PiecesOwed
    <3>2. e \in (1..handled') \X (1..Pieces) /\ e[1] <= handled
      BY <1>1, <1>2, <3>1
    <3> QED BY <1>1, <3>1, <3>2 DEF Owed
  <2>2. ASSUME NEW e \in Owed', e[1] <= handled PROVE e \in Owed
    <3>1. e \in (1..handled') \X (1..Pieces) /\ sent[e[1]].type = "binary"
      BY <1>1 DEF Owed
    <3>2. e \in (1..handled) \X (1..Pieces)
      BY <1>1, <1>2, <2>2, <3>1
    <3> QED BY <3>1, <3>2 DEF Owed
  <2>3. Arrived' = Arrived
    BY <1>1 DEF Arrived
  <2>4. \A i, j \in 1..Len(typed'): i < j => Before(typed'[i], typed'[j])
    BY <1>1 DEF KeyInv
  <2>5. Arrived' \subseteq Owed'
    BY <2>1, <2>3 DEF KeyInv
  <2>6. ASSUME NEW e \in Owed', NEW f \in Arrived', Before(e, f) PROVE e \in Arrived'
    <3>1. f \in Arrived /\ f \in Owed
      BY <2>3 DEF KeyInv
    <3>2. f[1] \in Nat /\ f[1] <= handled
      BY <3>1, PiecesOwed
    <3>3. e[1] \in Nat
      BY DEF Owed
    <3>4. e[1] <= handled
      BY <1>2, <2>6, <3>2, <3>3 DEF Before
    <3> QED BY <2>2, <2>3, <2>6, <3>1, <3>4 DEF KeyInv
  <2>7. ASSUME alive', ~ctxDone' PROVE Arrived' = {e \in Owed': Turned(e)'}
    <3>1. Arrived = Owed
      BY <1>1, <2>7 DEF KeyInv, Turned
    <3>2. ASSUME NEW e \in Owed PROVE Turned(e)'
      <4>1. e[1] <= handled /\ e[1] \in Nat
        BY PiecesOwed
      <4> QED BY <1>1, <1>2, <4>1 DEF Turned
    <3>3. ASSUME NEW e \in Owed', Turned(e)' PROVE e \in Owed
      <4>1. e \in (1..handled') \X (1..Pieces) /\ sent[e[1]].type = "binary"
        BY <1>1 DEF Owed
      <4>2. e[1] \in 1..handled' /\ e[2] \in 1..Pieces
        BY <4>1
      <4>3. e[1] # handled + 1
        <5>1. CASE m.type = "binary"
          <6>1. pump' = "write" /\ piece' = 0
            BY <1>3, <5>1
          <6>2. ~(e[2] <= 0)
            BY <4>2, Dimensions
          <6> QED BY <1>1, <1>2, <3>3, <4>2, <6>1, <6>2 DEF Turned
        <5>2. CASE m.type # "binary"
          BY <4>1, <5>2 DEF m
        <5> QED BY <5>1, <5>2
      <4> QED BY <1>1, <1>2, <2>2, <4>2, <4>3
    <3> QED BY <2>1, <2>3, <3>1, <3>2, <3>3
  <2> QED BY <2>4, <2>5, <2>6, <2>7 DEF KeyInv, Before
<1>7. RepaintInv'
  <2>1. pump' # "resized" => Latest' = Latest /\ pty' = pty /\ overtaken' = overtaken
    BY <1>1, <1>3 DEF Latest
  <2>2. /\ pump' = "resized" /\ alive => pty' = Latest'
    BY <1>1, <1>3 DEF Latest, SetPty
  <2>3. pump' = "resized" /\ starter \in {"shrink", "restore"} => overtaken'
    BY <1>1, <1>3, Zenon
  <2> QED BY <1>1, <2>1, <2>2, <2>3 DEF RepaintInv
<1> QED BY <1>4, <1>5, <1>6, <1>7

(* A turn of writeInput adds the next piece owed, or was the last one. *)
LEMMA WriteInputInv ==
  ASSUME InputInv, WriteInput
  PROVE  InputInv'
<1> USE DEF InputInv
<1>1. pump = "write" /\ UNCHANGED <<rows, pty, starter, snapshot, overtaken, sent, handled, alive, ctxDone>>
  BY DEF WriteInput
<1>2. handled \in Nat /\ handled > 0 /\ piece \in 0..Pieces /\ Pieces \in Nat
  BY <1>1, Dimensions DEF InputTypeOK, PumpInv
<1>3. CASE ~ctxDone /\ alive /\ piece < Pieces
  <2> DEFINE x == <<handled, piece + 1>>
  <2>1. typed' = Append(typed, x) /\ piece' = piece + 1 /\ UNCHANGED <<message, pump>>
    BY <1>3 DEF WriteInput
  <2>2. x \in Nat \X Nat /\ x[1] = handled /\ x[2] = piece + 1 /\ piece + 1 \in 1..Pieces
    BY <1>2, <1>3
  <2> HIDE DEF x
  <2>3. /\ typed' \in Seq(Nat \X Nat) /\ Len(typed') = Len(typed) + 1 /\ Len(typed) \in Nat
        /\ \A i \in 1..Len(typed): typed'[i] = typed[i]
        /\ typed'[Len(typed) + 1] = x
    BY <2>1, <2>2, AppendProperties DEF InputTypeOK
  <2>4. InputTypeOK'
    BY <1>1, <2>1, <2>2, <2>3 DEF InputTypeOK
  <2>5. PumpInv' /\ RepaintInv'
    BY <1>1, <2>1 DEF PumpInv, RepaintInv, Latest
  <2>6. Owed' = Owed
    BY <1>1 DEF Owed
  <2>7. Arrived' = Arrived \union {x}
    <3>1. 1..Len(typed') = (1..Len(typed)) \union {Len(typed) + 1}
      BY <2>3
    <3>2. Arrived' = {typed'[i]: i \in 1..Len(typed)} \union {typed'[Len(typed) + 1]}
      BY <3>1 DEF Arrived
    <3>3. {typed'[i]: i \in 1..Len(typed)} = Arrived
      BY <2>3 DEF Arrived
    <3> QED BY <2>3, <3>2, <3>3
  <2>8. x \in Owed
    <3>1. x \in (1..handled) \X (1..Pieces)
      BY <1>2, <2>2 DEF x
    <3> QED BY <1>1, <2>2, <3>1 DEF Owed, PumpInv
  <2>9. Arrived = {e \in Owed: Turned(e)}
    BY <1>3 DEF KeyInv
  <2>10. ASSUME NEW e \in Owed PROVE Turned(e) <=> Before(e, x)
    <3>1. e[1] \in 1..handled /\ e[2] \in 1..Pieces
      BY PiecesOwed
    <3>2. Turned(e) <=> e[1] < handled \/ e[2] <= piece
      BY <1>1 DEF Turned
    <3> QED BY <1>2, <2>2, <3>1, <3>2 DEF Before
  <2>11. ASSUME NEW e \in Owed PROVE Turned(e)' <=> (Turned(e) \/ e = x)
    <3>1. e[1] \in 1..handled /\ e[2] \in 1..Pieces /\ e = <<e[1], e[2]>>
      BY PiecesOwed
    <3>2. Turned(e) <=> e[1] < handled \/ e[2] <= piece
      BY <1>1 DEF Turned
    <3>3. Turned(e)' <=> e[1] < handled \/ e[2] <= piece + 1
      BY <1>1, <2>1 DEF Turned
    <3>4. e = x <=> e[1] = handled /\ e[2] = piece + 1
      BY <2>2, <3>1 DEF x
    <3> QED BY <1>2, <3>1, <3>2, <3>3, <3>4
  <2>12. ASSUME NEW i \in 1..Len(typed'), NEW j \in 1..Len(typed'), i < j
         PROVE  Before(typed'[i], typed'[j])
    <3>1. i \in 1..Len(typed) /\ typed'[i] = typed[i]
      <4>1. i \in 1..(Len(typed) + 1) /\ j \in 1..(Len(typed) + 1) /\ Len(typed) \in Nat
        BY <2>3
      <4>2. i \in 1..Len(typed)
        BY <2>12, <4>1
      <4> QED BY <2>3, <4>2
    <3>2. CASE j \in 1..Len(typed)
      BY <2>3, <2>12, <3>1, <3>2 DEF KeyInv
    <3>3. CASE j = Len(typed) + 1
      <4>1. typed[i] \in Arrived
        BY <3>1 DEF Arrived
      <4>2. Before(typed[i], x)
        BY <2>9, <2>10, <4>1
      <4> QED BY <2>3, <3>1, <3>3, <4>2
    <3> QED BY <2>3, <3>2, <3>3
  <2>13. Arrived' \subseteq Owed'
    BY <2>6, <2>7, <2>8 DEF KeyInv
  <2>14. ASSUME NEW e \in Owed', NEW f \in Arrived', Before(e, f) PROVE e \in Arrived'
    <3>1. CASE f \in Arrived
      BY <2>6, <2>7, <2>14, <3>1 DEF KeyInv
    <3>2. CASE f = x
      BY <2>6, <2>7, <2>9, <2>10, <2>14, <3>2
    <3> QED BY <2>7, <3>1, <3>2
  <2>15. Arrived' = {e \in Owed': Turned(e)'}
    BY <2>6, <2>7, <2>8, <2>9, <2>11
  <2>16. KeyInv'
    BY <2>12, <2>13, <2>14, <2>15 DEF KeyInv, Before
  <2> QED BY <2>4, <2>5, <2>16
<1>4. CASE ~(~ctxDone /\ alive /\ piece < Pieces)
  <2>1. message' = Nothing /\ piece' = 0 /\ pump' = "read" /\ UNCHANGED typed
    BY <1>4 DEF WriteInput
  <2>2. InputTypeOK'
    BY <1>1, <1>2, <2>1 DEF InputTypeOK
  <2>3. PumpInv' /\ RepaintInv'
    BY <1>1, <2>1 DEF PumpInv, RepaintInv, Latest
  <2>4. Owed' = Owed /\ Arrived' = Arrived
    BY <1>1, <2>1 DEF Owed, Arrived
  <2>5. ASSUME alive, ~ctxDone, NEW e \in Owed PROVE Turned(e) /\ Turned(e)'
    <3>1. e[2] \in 1..Pieces /\ ~(piece < Pieces)
      BY <1>4, <2>5, PiecesOwed
    <3>2. e[2] <= piece
      BY <1>2, <3>1
    <3> QED BY <2>1, <3>2 DEF Turned
  <2>6. alive' /\ ~ctxDone' => Arrived' = {e \in Owed': Turned(e)'}
    BY <1>1, <2>4, <2>5 DEF KeyInv
  <2>7. KeyInv'
    <3>1. \A i, j \in 1..Len(typed'): i < j => Before(typed'[i], typed'[j])
      BY <2>1 DEF KeyInv
    <3>2. Arrived' \subseteq Owed' /\ \A e \in Owed', f \in Arrived': Before(e, f) => e \in Arrived'
      BY <2>4 DEF KeyInv
    <3> QED BY <2>6, <3>1, <3>2 DEF KeyInv, Before
  <2> QED BY <2>2, <2>3, <2>7
<1> QED BY <1>3, <1>4

(* The steps of forceRepaint, between which the pump may resize. *)
LEMMA RepaintKeeps ==
  ASSUME InputInv, RepaintRead \/ RepaintShrink \/ RepaintRestore
  PROVE  InputInv'
<1> USE DEF InputInv
<1>1. UNCHANGED <<rows, pump, message, piece, sent, handled, typed, alive, ctxDone>>
  BY DEF RepaintRead, RepaintShrink, RepaintRestore
<1>2. /\ rows \in 1..MaxDimension /\ snapshot \in 1..MaxDimension /\ pty \in 1..MaxDimension
      /\ MaxDimension \in Nat
  BY Dimensions DEF InputTypeOK
<1>3. PumpInv'
  BY <1>1 DEF PumpInv
<1>4. KeyInv'
  BY <1>1, KeysStay
<1>5. Latest' = Latest
  BY <1>1 DEF Latest
<1>6. CASE RepaintRead
  <2>1. /\ starter = "asked" /\ snapshot' = rows /\ UNCHANGED pty
        /\ starter' = IF rows < 2 THEN "done" ELSE "shrink"
    BY <1>6 DEF RepaintRead
  <2>2. /\ overtaken' \in BOOLEAN
        /\ pump = "resized" /\ rows >= 2 => overtaken'
    <3>1. overtaken' = (pump = "resized" /\ rows >= 2)
      BY <1>6, Zenon DEF RepaintRead
    <3> QED BY <3>1, Zenon
  <2>3. InputTypeOK'
    BY <1>1, <2>1, <2>2 DEF InputTypeOK
  <2>4. starter' = "shrink" /\ snapshot' # Latest' => overtaken'
    BY <1>1, <1>2, <1>5, <2>1, <2>2 DEF Latest
  <2>5. RepaintInv'
    BY <1>1, <1>2, <1>5, <2>1, <2>4 DEF RepaintInv
  <2> QED BY <1>3, <1>4, <2>3, <2>5
<1>7. CASE RepaintShrink
  <2>1. /\ starter = "shrink" /\ starter' = "restore" /\ UNCHANGED <<snapshot, overtaken>>
        /\ SetPty(snapshot - 1)
    BY <1>7 DEF RepaintShrink
  <2>2. snapshot - 1 \in 1..MaxDimension
    BY <1>2, <2>1 DEF RepaintInv
  <2>3. pty' \in 1..MaxDimension
    BY <1>2, <2>1, <2>2 DEF SetPty
  <2>4. InputTypeOK'
    BY <1>1, <2>1, <2>3 DEF InputTypeOK
  <2>5. RepaintInv'
    BY <1>1, <1>5, <2>1 DEF RepaintInv
  <2> QED BY <1>3, <1>4, <2>4, <2>5
<1>8. CASE RepaintRestore
  <2>1. /\ starter = "restore" /\ starter' = "done" /\ UNCHANGED <<snapshot, overtaken>>
        /\ SetPty(snapshot)
    BY <1>8 DEF RepaintRestore
  <2>2. pty' \in 1..MaxDimension /\ (alive => pty' = snapshot)
    BY <1>2, <2>1 DEF SetPty
  <2>3. InputTypeOK'
    BY <1>1, <2>1, <2>2 DEF InputTypeOK
  <2>4. RepaintInv'
    BY <1>1, <1>5, <2>1, <2>2 DEF RepaintInv
  <2> QED BY <1>3, <1>4, <2>3, <2>4
<1> QED BY <1>6, <1>7, <1>8

(* The end of applyResize, and the ways the attachment ends. *)
LEMMA OtherInputInv ==
  ASSUME InputInv,
         RecordSize \/ InputEnds \/ ProcessCloses \/ ContextCancelled \/ UNCHANGED inputVars
  PROVE  InputInv'
<1> USE DEF InputInv
<1>1. /\ UNCHANGED <<pty, starter, snapshot, overtaken, piece, sent, handled, typed>>
      /\ alive' => alive
      /\ ~ctxDone' => ~ctxDone
  BY DEF RecordSize, InputEnds, ProcessCloses, ContextCancelled, inputVars
<1>2. (pump # "write" /\ pump' # "write") \/ UNCHANGED <<pump, piece>>
  BY DEF RecordSize, InputEnds, ProcessCloses, ContextCancelled, inputVars
<1>3. KeyInv'
  BY <1>1, <1>2, KeysStay
<1>4. CASE RecordSize
  <2>1. /\ pump = "resized" /\ rows' = message.size /\ message' = Nothing /\ pump' = "read"
        /\ UNCHANGED <<alive, ctxDone>>
    BY <1>4 DEF RecordSize
  <2>2. InputTypeOK'
    BY <1>1, <2>1 DEF InputTypeOK, PumpInv, Valid
  <2>3. PumpInv'
    BY <2>1 DEF PumpInv
  <2>4. Latest' = Latest
    BY <2>1 DEF Latest
  <2>5. RepaintInv'
    BY <1>1, <2>1, <2>4 DEF RepaintInv
  <2> QED BY <1>3, <2>2, <2>3, <2>5
<1>5. CASE InputEnds
  <2>1. /\ pump = "read" /\ pump' = "done" /\ alive' = FALSE
        /\ UNCHANGED <<rows, message, ctxDone>>
    BY <1>5 DEF InputEnds
  <2>2. InputTypeOK'
    BY <1>1, <2>1 DEF InputTypeOK
  <2>3. PumpInv' /\ RepaintInv'
    BY <1>1, <2>1 DEF PumpInv, RepaintInv, Latest
  <2> QED BY <1>3, <2>2, <2>3
<1>6. CASE ProcessCloses \/ ContextCancelled \/ UNCHANGED inputVars
  <2>1. /\ UNCHANGED <<pump, rows, message>>
        /\ {alive', ctxDone'} \subseteq BOOLEAN
    BY <1>6 DEF ProcessCloses, ContextCancelled, inputVars, InputTypeOK
  <2>2. InputTypeOK'
    BY <1>1, <2>1 DEF InputTypeOK
  <2>3. PumpInv'
    BY <1>1, <2>1 DEF PumpInv
  <2>4. RepaintInv'
    BY <1>1, <2>1 DEF RepaintInv, Latest
  <2> QED BY <1>3, <2>2, <2>3, <2>4
<1> QED BY <1>4, <1>5, <1>6

(* What every reachable state of the way back satisfies: the process has     *)
(* what the input pump (writeInput) got to of the keystrokes, and its size   *)
(* is known but between the two resizes of forceRepaint.                     *)
THEOREM InputInvariant == InputSpec => []InputInv
<1>1. InputInit => InputInv
  <2> SUFFICES ASSUME InputInit PROVE InputInv
    OBVIOUS
  <2>1. /\ rows \in 1..MaxDimension /\ pty = rows /\ starter = "asked" /\ snapshot = rows
        /\ pump = "read" /\ message = Nothing /\ piece = 0 /\ sent = <<>> /\ handled = 0
        /\ typed = <<>> /\ alive = TRUE /\ ctxDone = FALSE /\ overtaken = FALSE
    BY DEF InputInit
  <2>2. InputTypeOK
    <3>1. {rows, snapshot, pty} \subseteq 1..MaxDimension
      BY <2>1
    <3>2. sent \in Seq(Messages) /\ handled \in 0..Len(sent) /\ typed \in Seq(Nat \X Nat)
      BY <2>1
    <3>3. message \in Messages \union {Nothing} /\ {alive, ctxDone, overtaken} \subseteq BOOLEAN
      BY <2>1
    <3>4. piece \in 0..Pieces
      BY <2>1, DimensionAssumption
    <3> QED BY <2>1, <3>1, <3>2, <3>3, <3>4 DEF InputTypeOK
  <2>3. PumpInv /\ RepaintInv
    BY <2>1 DEF PumpInv, RepaintInv, Latest
  <2>4. Owed = {} /\ Arrived = {}
    <3>1. 1..handled = {} /\ 1..Len(typed) = {}
      BY <2>1
    <3> QED BY <3>1 DEF Owed, Arrived
  <2>5. KeyInv
    <3>1. 1..Len(typed) = {}
      BY <2>1
    <3> QED BY <2>4, <3>1 DEF KeyInv
  <2> QED BY <2>2, <2>3, <2>5 DEF InputInv
<1>2. InputInv /\ [InputNext]_inputVars => InputInv'
  BY ClientSendsInv, ReadMessageInv, WriteInputInv, RepaintKeeps, OtherInputInv DEF InputNext
<1> QED BY <1>1, <1>2, PTL DEF InputSpec

(* No sequence of valid and invalid resize requests and repaints gives the   *)
(* process an empty or oversized terminal (applyResize, forceRepaint).       *)
THEOREM InputTypes == InputSpec => []InputTypeOK
<1>1. InputInv => InputTypeOK
  BY DEF InputInv
<1> QED BY <1>1, InputInvariant, PTL

(* The process receives the keystrokes in the order typed, each once, and    *)
(* none is missing before one that arrived, however long the messages and    *)
(* whenever the attachment ends (inputPump, writeInput).                     *)
THEOREM KeystrokesArriveInOrder == InputSpec => []InputInOrder
<1>1. InputInv => InputInOrder
  <2> SUFFICES ASSUME InputInv PROVE InputInOrder
    OBVIOUS
  <2>1. pump = "read" => \A e \in Owed: Turned(e)
    BY DEF Turned
  <2>2. alive /\ ~ctxDone /\ pump = "read" => Arrived = Owed
    BY <2>1 DEF InputInv, KeyInv
  <2> QED BY <2>2 DEF InputInv, KeyInv, InputInOrder
<1> QED BY <1>1, InputInvariant, PTL

(* Once both goroutines are idle, the process has the size the client asked  *)
(* for last (applyResize).  Only a size asked for between the read and the   *)
(* restore of forceRepaint may have been undone by the restore; and the      *)
(* shrunken size never stays.                                                *)
THEOREM TheSizeSettles == InputSpec => []SettlesOnAskedSize
<1>1. InputInv => SettlesOnAskedSize
  BY DEF InputInv, RepaintInv, SettlesOnAskedSize, Idle, Latest
<1> QED BY <1>1, InputInvariant, PTL
=============================================================================
