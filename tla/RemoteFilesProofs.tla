-------------------------- MODULE RemoteFilesProofs --------------------------
(***************************************************************************)
(* Proofs about changing remote files, for any requests, names, size of    *)
(* the table of records, changes from outside and stops of the hub.  The   *)
(* invariant says of each request what its place in the code means for its *)
(* staging file, its record and what the server still may do for it; and   *)
(* of two requests that hold locks, that their names are apart.            *)
(***************************************************************************)
EXTENDS RemoteFiles, FiniteSetTheorems, TLAPS

(* Before the record of the staging file, and before anything is sent. *)
Unrecorded(o) == ops[o].pc \in {"idle", "lock", "inspect", "stage", "track", "record"}
Unsent(o) == Unrecorded(o) \/ ops[o].pc \in {"transfer", "verify", "replace"}

(* A staging file the write still needs. *)
InUse(o) == ops[o].pc \in {"transfer", "verify", "replace"}

(* A record is made after the file is noted as active; what the cleaner may  *)
(* remove was recorded when it listed, and not active afterwards.            *)
Recorded(o) ==
  /\ Unrecorded(o) => ~ops[o].recorded /\ o \notin records /\ o \notin cleaner.todo
  /\ InUse(o) \/ At(o, "record") => o \in active
  /\ cleaner.pc = "clean" /\ o \in cleaner.todo => ~InUse(o)

(* What the server was sent is what the request asks; nobody waits for it    *)
(* unless at "await", and a request that was sent and is not awaited is lost.*)
Sent(o) ==
  /\ At(o, "idle") => ~ops[o].lost
  /\ Unsent(o) => request[o] = NoRequest /\ reply[o] = "none" /\ ~ops[o].took
  /\ request[o] # NoRequest =>
       /\ request[o].kind = ops[o].kind
       /\ ops[o].result # "failed" \/ ops[o].kind # "write"
       /\ reply[o] = "none"
       /\ request[o].kind # "none" /\ NamesOf(request[o]) \subseteq Names
       /\ IF At(o, "await") THEN request[o].name = ops[o].name /\ request[o].to = ops[o].to
          ELSE ops[o].lost
  /\ reply[o] # "none" => At(o, "await")

(* The outcome a request knows is what the server did. *)
Outcome(o) ==
  /\ Unsent(o) \/ At(o, "await") => ops[o].result = "none"
  /\ At(o, "await") => (ops[o].took <=> reply[o] = "ok")
  /\ ops[o].kind = "write" /\ (reply[o] = "ok" \/ (At(o, "cleanup") /\ ops[o].result = "ok")) =>
       stage[o] = "none"
  /\ At(o, "unrecord") => stage[o] = "none"
  /\ ops[o].pc \in {"stage", "track", "record", "transfer", "verify", "replace",
                    "cleanup", "unstage", "unrecord"} => ops[o].kind = "write"
  /\ ops[o].pc \notin {"idle", "done", "dead"} => NamesOf(ops[o]) \subseteq Names
  /\ ops[o].kind # "rename" => ops[o].to = ops[o].name
  /\ ops[o].kind = "write" /\ ops[o].result = "failed" =>
       ~ops[o].took /\ request[o] = NoRequest

Staged(o) ==
  /\ ops[o].pc \in {"track", "record", "transfer"} => stage[o] = "part"
  /\ ops[o].pc \in {"verify", "replace"} => stage[o] = "whole"
  /\ stage[o] # "none" /\ ops[o].recorded => o \in records

OpInv(o) == Recorded(o) /\ Sent(o) /\ Outcome(o) /\ Staged(o)

(* Requests that hold locks have no name in common. *)
LocksApart ==
  \A o, p \in Ops:
    o # p /\ ~Waits(o) /\ ~Waits(p) => NamesOf(ops[o]) \intersect NamesOf(ops[p]) = {}

(* What a save that looked again may replace. *)
MayReplace(o) == Target(o) = ops[o].origin \/ BeyondTheHub(o)

Looked(o) == ops[o].kind = "write" /\ ops[o].expected # Unchecked /\ ~ops[o].took

(* A save that expects something found what it expects when it looked first, *)
(* and the same when it looked again.                                        *)
SaveLooks(o) ==
  /\ Looked(o) /\ ops[o].pc \in {"stage", "track", "record", "transfer", "verify",
                                "replace", "await"} =>
       ops[o].existed /\ Matches(o, ops[o].origin)
  /\ Looked(o) /\ ops[o].pc \in {"replace", "await"} => MayReplace(o)

SavesLook == \A o \in Ops: SaveLooks(o)

TypeInv == TypeOK /\ IsFiniteSet(records) /\ edits \in Nat /\ edits <= MaxEdits

IInv ==
  /\ TypeInv
  /\ \A o \in Ops: OpInv(o)
  /\ LocksApart /\ SavesLook

-----------------------------------------------------------------------------
(* Types. *)

(* What a request starts as, what is left of one, and what one asks. *)
LEMMA NewOpFacts ==
  /\ NewOp \in Op
  /\ NewOp.kind = "write" /\ NewOp.name = None /\ NewOp.to = None
  /\ NewOp.expected = Unchecked /\ ~NewOp.digest /\ NewOp.origin = None
  /\ NewOp.result = "none" /\ NewOp.pc = "idle" /\ ~NewOp.cut /\ ~NewOp.existed
  /\ ~NewOp.lost /\ ~NewOp.took /\ ~NewOp.recorded
  BY DEF NewOp, Op

LEMMA EndedFacts ==
  ASSUME NEW op \in Op, NEW pc \in {"done", "dead"},
         NEW result \in {"none", "ok", "failed", "unknown"}
  PROVE  LET r == Ended(op, pc, result)
         IN /\ r \in Op /\ r.pc = pc /\ r.result = result
            /\ r.kind = op.kind /\ r.name = None /\ r.to = None /\ r.expected = Unchecked
            /\ r.lost = op.lost /\ r.took = op.took /\ r.recorded = op.recorded
<1>1. PICK r: r = Ended(op, pc, result)
  OBVIOUS
<1>2. r \in Op
  BY <1>1, NewOpFacts, ZenonT(60) DEF Ended, Op
<1>3. /\ r.pc = pc /\ r.result = result /\ r.kind = op.kind /\ r.name = None /\ r.to = None
      /\ r.expected = Unchecked /\ r.lost = op.lost /\ r.took = op.took
      /\ r.recorded = op.recorded
  BY <1>1, NewOpFacts, SMTT(30) DEF Ended, Op
<1> QED
  BY <1>1, <1>2, <1>3

LEMMA Marked ==
  \A op \in Op: [op EXCEPT !.took = TRUE] \in Op /\ [op EXCEPT !.lost = TRUE] \in Op
<1>1. \A op \in Op: [op EXCEPT !.took = TRUE] \in Op
  BY ZenonT(60) DEF Op
<1>2. \A op \in Op: [op EXCEPT !.lost = TRUE] \in Op
  BY ZenonT(60) DEF Op
<1> QED
  BY <1>1, <1>2, Zenon

LEMMA Flagged ==
  ASSUME NEW op \in Op, NEW b \in BOOLEAN
  PROVE  /\ [op EXCEPT !.recorded = b] \in Op
         /\ \A c \in Contents \union {None}:
              [op EXCEPT !.pc = "stage", !.existed = b, !.origin = c] \in Op
<1>1. [op EXCEPT !.recorded = b] \in Op
  BY ZenonT(60) DEF Op
<1>2. ASSUME NEW c \in Contents \union {None}
      PROVE  [op EXCEPT !.pc = "stage", !.existed = b, !.origin = c] \in Op
  BY ZenonT(60) DEF Op
<1> QED
  BY <1>1, <1>2

LEMMA Forgotten ==
  ASSUME NEW op \in Op, NEW pc \in {"unstage", "unrecord"}
  PROVE  Forgetting(op, pc) \in Op
  BY ZenonT(60) DEF Forgetting, Op

LEMMA Moved ==
  ASSUME NEW op \in Op
  PROVE  /\ [op EXCEPT !.pc = "inspect"] \in Op
         /\ [op EXCEPT !.pc = "unlock", !.result = "failed"] \in Op
<1>1. [op EXCEPT !.pc = "inspect"] \in Op
  BY ZenonT(60) DEF Op
<1>2. [op EXCEPT !.pc = "unlock", !.result = "failed"] \in Op
  BY ZenonT(60) DEF Op
<1> QED
  BY <1>1, <1>2

LEMMA BeginFacts ==
  ASSUME TypeOK, NEW o \in Ops, Begin(o)
  PROVE  \E r \in Op:
           /\ ops' = [ops EXCEPT ![o] = r]
           /\ r.pc = "lock" /\ r.name \in Names /\ r.to \in Names /\ r.result = "none"
           /\ r.kind # "rename" => r.to = r.name
           /\ ~r.lost /\ ~r.took /\ ~r.recorded
<1>1. PICK kind \in {"write", "create", "rename", "delete"}, n \in Names, m \in Names:
        \E e \in {Unchecked, file[n]} \ {None}, digest \in BOOLEAN:
          /\ kind = "rename" <=> n # m
          /\ kind # "write" => e = Unchecked
          /\ digest => e # Unchecked
          /\ ops' = [ops EXCEPT ![o] = [NewOp EXCEPT
               !.pc = "lock", !.kind = kind, !.name = n, !.to = m,
               !.expected = e, !.digest = digest]]
  BY Zenon DEF Begin
<1>2. PICK e \in {Unchecked, file[n]} \ {None}, digest \in BOOLEAN:
        /\ kind = "rename" <=> n # m
        /\ ops' = [ops EXCEPT ![o] = [NewOp EXCEPT
             !.pc = "lock", !.kind = kind, !.name = n, !.to = m,
             !.expected = e, !.digest = digest]]
  BY <1>1, Zenon
<1>3. PICK r: r = [NewOp EXCEPT
             !.pc = "lock", !.kind = kind, !.name = n, !.to = m,
             !.expected = e, !.digest = digest]
  OBVIOUS
<1>4. e \in Contents \union {Unchecked}
  BY <1>2 DEF TypeOK
<1>5. r \in Op
  BY <1>3, <1>4, NewOpFacts, ZenonT(60) DEF Op
<1>6. /\ r.pc = "lock" /\ r.kind = kind /\ r.name = n /\ r.to = m /\ r.expected = e
      /\ r.result = "none" /\ ~r.lost /\ ~r.took /\ ~r.recorded
  BY <1>3, NewOpFacts, SMTT(30) DEF Op
<1>7. ops' = [ops EXCEPT ![o] = r]
  BY <1>2, <1>3, Zenon
<1> QED
  BY <1>2, <1>5, <1>6, <1>7

(* The steps of a request only set fields of it to values of their types. *)
LEMMA RunTypes ==
  ASSUME TypeOK, NEW o \in Ops, OpInv(o), Run(o)
  PROVE  ops' \in [Ops -> Op] /\ request' \in [Ops -> Request]
<1>1. ops \in [Ops -> Op] /\ ops[o] \in Op /\ request \in [Ops -> Request]
  BY DEF TypeOK
<1>2. \A pc \in {"done", "dead"}, result \in {"none", "ok", "failed", "unknown"}:
        Ended(ops[o], pc, result) \in Op
  BY <1>1, EndedFacts
<1>3. CASE Begin(o)
  <2>1. PICK r \in Op: ops' = [ops EXCEPT ![o] = r]
    BY <1>3, BeginFacts
  <2>2. request' = request
    BY <1>3 DEF Begin, serverVars
  <2> QED
    BY <1>1, <2>1, <2>2
<1>4. CASE Inspect(o)
  <2>1. ASSUME Permitted(o), ops[o].kind = "write", NEW c,
               c = IF ops[o].expected = Unchecked THEN None ELSE Target(o)
        PROVE  [ops[o] EXCEPT !.pc = "stage", !.existed = Target(o) # None, !.origin = c] \in Op
    <3>1. PICK b \in BOOLEAN: b = (Target(o) # None)
      OBVIOUS
    <3>2. c \in Contents \union {None}
      BY <1>4, <2>1 DEF OpInv, Outcome, Inspect, At, NamesOf, Target, TypeOK
    <3>3. [ops[o] EXCEPT !.pc = "stage", !.existed = b, !.origin = c] \in Op
      BY <1>1, <3>2, Flagged
    <3> QED
      BY <3>1, <3>3, Zenon
  <2>2. ops' \in [Ops -> Op]
    <3>1. CASE /\ Permitted(o) /\ ops[o].kind = "write"
               /\ ops' = [ops EXCEPT ![o].pc = "stage", ![o].existed = Target(o) # None,
                    ![o].origin = IF ops[o].expected = Unchecked THEN None ELSE Target(o)]
      BY <1>1, <2>1, <3>1
    <3>2. CASE Goto(o, "await") \/ Returns(o, "unlock", "failed")
      BY <1>1, <3>2 DEF Goto, Returns, Op
    <3> QED
      BY <1>4, <3>1, <3>2 DEF Inspect
  <2>3. UNCHANGED request \/ Sends(o)
    BY <1>4 DEF Inspect
  <2> QED
    BY <1>1, <2>2, <2>3 DEF Sends, Op, Request
<1>5. CASE Record(o)
  <2>1. ASSUME NEW kept, NEW p \in Ops
        PROVE  [ops[p] EXCEPT !.recorded = @ /\ (p \in records => p \in kept)] \in Op
    <3>1. PICK b \in BOOLEAN: b = (ops[p].recorded /\ (p \in records => p \in kept))
      OBVIOUS
    <3>2. [ops[p] EXCEPT !.recorded = b] \in Op
      BY <1>1, Flagged
    <3> QED
      BY <3>1, <3>2, Zenon
  <2>2. [ops[o] EXCEPT !.pc = "transfer", !.recorded = TRUE] \in Op
    BY <1>1, ZenonT(60) DEF Op
  <2>3. ASSUME NEW kept,
               ops' = [p \in Ops |->
                 IF p = o THEN [ops[o] EXCEPT !.pc = "transfer", !.recorded = TRUE]
                 ELSE [ops[p] EXCEPT !.recorded = @ /\ (p \in records => p \in kept)]]
        PROVE  ops' \in [Ops -> Op]
    BY <2>1, <2>2, <2>3, Zenon
  <2>4. request' = request
    BY <1>5 DEF Record, serverVars
  <2>5. CASE Returns(o, "unlock", "failed")
    <3>1. [ops[o] EXCEPT !.pc = "unlock", !.result = "failed"] \in Op
      BY <1>1, Moved
    <3> QED
      BY <1>1, <2>4, <2>5, <3>1 DEF Returns
  <2>6. (\E kept \in Kept:
           ops' = [p \in Ops |->
             IF p = o THEN [ops[o] EXCEPT !.pc = "transfer", !.recorded = TRUE]
             ELSE [ops[p] EXCEPT !.recorded = @ /\ (p \in records => p \in kept)]])
        \/ Returns(o, "unlock", "failed")
    BY <1>5, Zenon DEF Record
  <2> QED
    BY <1>1, <2>3, <2>4, <2>5, <2>6, Zenon
<1>6. CASE Lock(o) \/ Unlock(o)
  <2>1. ops[o].result \in {"none", "ok", "failed", "unknown"}
    BY <1>1 DEF Op
  <2>2. [ops[o] EXCEPT !.pc = "inspect"] \in Op
    BY <1>1, Moved
  <2>3. PICK r \in Op: ops' = [ops EXCEPT ![o] = r]
    BY <1>2, <1>6, <2>1, <2>2 DEF Lock, Unlock, Goto
  <2> QED
    BY <1>1, <1>6, <2>3 DEF Lock, Unlock, serverVars
<1>7. CASE StageFile(o) \/ Track(o)
  BY <1>1, <1>7 DEF StageFile, Track, Goto, Returns, Op, serverVars
<1>8. CASE Transfer(o) \/ Verify(o)
  BY <1>1, <1>8 DEF Transfer, Verify, Goto, GivesUp, Op, serverVars
<1>9. CASE Replace(o)
  <2>1. ops' \in [Ops -> Op]
    BY <1>1, <1>9 DEF Replace, Goto, GivesUp, Op
  <2>2. UNCHANGED request \/ Sends(o)
    BY <1>9 DEF Replace
  <2> QED
    BY <1>1, <2>1, <2>2 DEF Sends, Op, Request
<1>10. CASE Answered(o) \/ Unanswered(o)
  BY <1>1, <1>10 DEF Answered, Unanswered, Returns, AfterAnswer, WithoutAnswer, Op
<1>11. CASE Unstage(o) \/ Unrecord(o)
  BY <1>1, <1>11 DEF Unstage, Unrecord, Goto, Op, serverVars
<1>12. CASE Cleanup(o)
  BY <1>1, <1>12, Forgotten DEF Cleanup, serverVars
<1> QED
  BY <1>3, <1>4, <1>5, <1>6, <1>7, <1>8, <1>9, <1>10, <1>11, <1>12 DEF Run

(* Recording keeps the table within its bound. *)
LEMMA RecordBound ==
  ASSUME IsFiniteSet(records), Cardinality(records) <= MaxRecords, NEW o \in Ops,
         NEW kept \in Kept
  PROVE  IsFiniteSet(kept \union {o}) /\ Cardinality(kept \union {o}) <= MaxRecords
<1>1. IsFiniteSet(kept) /\ Cardinality(kept) \in Nat /\ Cardinality(records) \in Nat
  BY FS_Subset, FS_CardinalityType DEF Kept
<1>2. Cardinality(kept) + 1 <= MaxRecords
  BY <1>1, RecordsAssumption DEF Kept
<1>3. /\ IsFiniteSet(kept \union {o})
      /\ \/ Cardinality(kept \union {o}) = Cardinality(kept)
         \/ Cardinality(kept \union {o}) = Cardinality(kept) + 1
  BY <1>1, FS_AddElement
<1> QED
  BY <1>1, <1>2, <1>3, RecordsAssumption

LEMMA ForgetBound ==
  ASSUME IsFiniteSet(records), Cardinality(records) <= MaxRecords, NEW o,
         records' \in {records, records \ {o}}
  PROVE  IsFiniteSet(records') /\ Cardinality(records') <= MaxRecords
<1>1. IsFiniteSet(records') /\ Cardinality(records') <= Cardinality(records)
      /\ Cardinality(records) \in Nat /\ Cardinality(records') \in Nat
  BY FS_Subset, FS_CardinalityType
<1> QED
  BY <1>1, RecordsAssumption

LEMMA RunTypeInv ==
  ASSUME TypeInv, NEW o \in Ops, OpInv(o), Run(o)
  PROVE  TypeInv'
<1>1. TypeOK
  BY DEF TypeInv
<1>2. ops' \in [Ops -> Op] /\ request' \in [Ops -> Request]
  BY <1>1, RunTypes
<1>3. IsFiniteSet(records') /\ Cardinality(records') <= MaxRecords /\ records' \subseteq Ops
  <2>1. CASE UNCHANGED records
    BY <2>1 DEF TypeInv, TypeOK
  <2>2. CASE Record(o)
    <3>1. ASSUME NEW kept \in Kept, records' = kept \union {o}
          PROVE  IsFiniteSet(records') /\ Cardinality(records') <= MaxRecords /\ records' \subseteq Ops
      BY <3>1, RecordBound DEF Kept, TypeInv, TypeOK
    <3> QED
      BY <2>1, <2>2, <3>1 DEF Record
  <2>3. CASE Unrecord(o)
    <3>1. records' \in {records, records \ {o}} /\ records \subseteq Ops
          /\ IsFiniteSet(records) /\ Cardinality(records) <= MaxRecords
      BY <2>3 DEF Unrecord, TypeInv, TypeOK
    <3> QED
      BY <3>1, ForgetBound
  <2> QED
    BY <2>1, <2>2, <2>3
    DEF Run, Begin, Lock, Inspect, StageFile, Track, Transfer, Verify, Replace, Answered,
        Unanswered, Cleanup, Unstage, Unlock
<1>4. /\ file' = file /\ by' = by /\ cleaner' = cleaner /\ edits' = edits
      /\ stage' \in [Ops -> {"none", "part", "whole"}]
      /\ reply' \in [Ops -> {"none", "ok", "bad"}]
      /\ active' \subseteq Ops
  BY <1>1
  DEF TypeOK, Run, Begin, Lock, Inspect, StageFile, Track, Record, Transfer, Verify, Replace,
      Answered, Unanswered, Cleanup, Unstage, Unrecord, Unlock, Unmake, serverVars, hubVars
<1> QED
  BY <1>1, <1>2, <1>3, <1>4 DEF TypeInv, TypeOK

LEMMA NextTypeInv ==
  ASSUME TypeInv, \A o \in Ops: OpInv(o), Next
  PROVE  TypeInv'
<1>1. ASSUME NEW o \in Ops, Perform(o) PROVE TypeInv'
  <2>1. /\ request[o] \in Request /\ ops \in [Ops -> Op] /\ file \in [Names -> Contents \union {None}]
        /\ o \in Contents /\ request[o].kind # "none" /\ NamesOf(request[o]) \subseteq Names
    BY <1>1 DEF TypeInv, TypeOK, Perform, OpInv, Sent, Contents
  <2>2. Effect(o) \in [Names -> Contents \union {None}]
    BY <2>1 DEF Effect, Request, NamesOf
  <2>3. ops' \in [Ops -> Op]
    BY <1>1, <2>1, Marked DEF Perform
  <2>4. NoRequest \in Request
    BY DEF NoRequest, Request
  <2> QED
    BY <1>1, <2>2, <2>3, <2>4 DEF Perform, Answers, TypeInv, TypeOK, hubVars
<1>2. ASSUME NEW o \in Ops, Refuse(o) PROVE TypeInv'
  <2>1. NoRequest \in Request
    BY DEF NoRequest, Request
  <2> QED
    BY <1>2, <2>1 DEF Refuse, Answers, TypeInv, TypeOK, hubVars
<1>3. ASSUME NEW o \in Ops, CleanRecord(o) PROVE TypeInv'
  <2>1. IsFiniteSet(records') /\ Cardinality(records') <= MaxRecords /\ records' \subseteq Ops
    BY <1>3, ForgetBound DEF CleanRecord, TypeInv, TypeOK
  <2> QED
    BY <1>3, <2>1 DEF CleanRecord, TypeInv, TypeOK, serverVars
<1>4. CASE ListRecords \/ SnapshotActive \/ CleanerStops
  BY <1>4 DEF ListRecords, SnapshotActive, CleanerStops, NoCleaner, TypeInv, TypeOK, serverVars
<1>5. CASE Edit
  <2>1. edits + 1 \in 1..MaxEdits /\ edits' = edits + 1
    BY <1>5, RecordsAssumption DEF Edit, TypeInv
  <2>2. Edited(edits + 1) \in Contents
    BY <2>1 DEF Contents
  <2> QED
    BY <1>5, <2>1, <2>2 DEF Edit, TypeInv, TypeOK, hubVars
<1>6. CASE Crash
  <2>1. \A o \in Ops: ops[o] \in Op /\ ops[o].result \in {"none", "ok", "failed", "unknown"}
    BY DEF TypeInv, TypeOK, Op
  <2>2. \A o \in Ops: Ended(ops[o], "dead", ops[o].result) \in Op
    BY <2>1, EndedFacts
  <2>3. \A o \in Ops: [Ended(ops[o], "dead", ops[o].result) EXCEPT !.lost = TRUE] \in Op
    BY <2>2, Marked
  <2> QED
    BY <1>6, <2>1, <2>3 DEF Crash, NoCleaner, TypeInv, TypeOK
<1> QED
  BY <1>1, <1>2, <1>3, <1>4, <1>5, <1>6, RunTypeInv DEF Next

-----------------------------------------------------------------------------
(* A step of a request keeps what is known of it. *)

(* Where a step leaves the request, and that it asks what it asked. *)
Step(o, pc, result) ==
  /\ ops'[o].pc = pc /\ ops'[o].result = result
  /\ ops'[o].kind = ops[o].kind /\ ops'[o].lost = ops[o].lost /\ ops'[o].took = ops[o].took
  /\ ops'[o].recorded = ops[o].recorded /\ ops'[o].name = ops[o].name
  /\ ops'[o].to = ops[o].to

(* What a write expects and found stays what it was. *)
Keeps(o) ==
  /\ ops'[o].existed = ops[o].existed /\ ops'[o].expected = ops[o].expected
  /\ ops'[o].digest = ops[o].digest /\ ops'[o].origin = ops[o].origin

Ends(o, result) ==
  /\ ops'[o].pc = "done" /\ ops'[o].result = result
  /\ ops'[o].kind = ops[o].kind /\ ops'[o].lost = ops[o].lost /\ ops'[o].took = ops[o].took
  /\ ops'[o].recorded = ops[o].recorded /\ ops'[o].name = None
  /\ ops'[o].to = None /\ ops'[o].expected = Unchecked

StepsOf(o) ==
  /\ \A pc: Goto(o, pc) => Step(o, pc, ops[o].result)
  /\ \A pc, result: Returns(o, pc, result) => Step(o, pc, result)
  /\ \A result: GivesUp(o, result) => Step(o, "cleanup", result)
  /\ \A result \in {"none", "ok", "failed", "unknown"}:
       ops' = [ops EXCEPT ![o] = Ended(@, "done", result)] => Ends(o, result)

LEMMA Steps ==
  ASSUME ops \in [Ops -> Op], NEW o \in Ops
  PROVE  StepsOf(o)
<1>1. ops[o] \in Op
  OBVIOUS
<1>2. ASSUME NEW pc, Goto(o, pc) PROVE Step(o, pc, ops[o].result)
  BY <1>1, <1>2 DEF Goto, Step, Op
<1>3. ASSUME NEW pc, NEW result, Returns(o, pc, result) PROVE Step(o, pc, result)
  BY <1>1, <1>3 DEF Returns, Step, Op
<1>4. ASSUME NEW result, GivesUp(o, result) PROVE Step(o, "cleanup", result)
  BY <1>1, <1>4 DEF GivesUp, Step, Op
<1>5. ASSUME NEW result \in {"none", "ok", "failed", "unknown"},
             ops' = [ops EXCEPT ![o] = Ended(@, "done", result)]
      PROVE  Ends(o, result)
  BY <1>1, <1>5, EndedFacts DEF Ends
<1> QED
  BY <1>2, <1>3, <1>4, <1>5 DEF StepsOf

(* The steps of a write that set more than its place and its result. *)
LEMMA InspectSteps ==
  ASSUME ops \in [Ops -> Op], NEW o \in Ops, Inspect(o)
  PROVE  \/ ops[o].kind = "write" /\ Step(o, "stage", ops[o].result) /\ request' = request
         \/ ops[o].kind # "write" /\ Step(o, "await", ops[o].result) /\ Sends(o)
         \/ Step(o, "unlock", "failed") /\ request' = request
<1>1. ops[o] \in Op /\ StepsOf(o)
  BY Steps
<1>2. ASSUME NEW existed, NEW origin,
             ops' = [ops EXCEPT ![o].pc = "stage", ![o].existed = existed, ![o].origin = origin]
      PROVE  Step(o, "stage", ops[o].result)
  BY <1>1, <1>2 DEF Step, Op
<1> QED
  BY <1>1, <1>2 DEF Inspect, StepsOf

LEMMA VerifySteps ==
  ASSUME ops \in [Ops -> Op], NEW o \in Ops, Verify(o)
  PROVE  Step(o, "replace", ops[o].result) \/ Step(o, "cleanup", "failed")
<1>1. ops[o] \in Op /\ StepsOf(o)
  BY Steps
<1>2. ASSUME NEW lost, ops' = [ops EXCEPT ![o].pc = "replace", ![o].cut = lost]
      PROVE  Step(o, "replace", ops[o].result)
  BY <1>1, <1>2 DEF Step, Op
<1> QED
  BY <1>1, <1>2 DEF Verify, StepsOf

LEMMA ReplaceSteps ==
  ASSUME ops \in [Ops -> Op], NEW o \in Ops, Replace(o)
  PROVE  \/ Step(o, "await", ops[o].result) /\ Sends(o)
         \/ /\ request' = request
            /\ Step(o, "cleanup", "failed") \/ Step(o, "cleanup", "unknown")
<1>1. ops[o] \in Op /\ StepsOf(o)
  BY Steps
<1>2. ASSUME ops' = [ops EXCEPT ![o].pc = "cleanup", ![o].result = "unknown", ![o].cut = TRUE]
      PROVE  Step(o, "cleanup", "unknown")
  BY <1>1, <1>2 DEF Step, Op
<1> QED
  BY <1>1, <1>2 DEF Replace, StepsOf

LEMMA CleanupSteps ==
  ASSUME ops \in [Ops -> Op], NEW o \in Ops, Cleanup(o)
  PROVE  Step(o, IF ops[o].result = "ok" THEN "unrecord" ELSE "unstage", ops[o].result)
<1>1. ops[o] \in Op
  OBVIOUS
<1>2. ASSUME NEW pc, ops' = [ops EXCEPT ![o] = Forgetting(@, pc)]
      PROVE  Step(o, pc, ops[o].result)
  BY <1>1, <1>2 DEF Forgetting, Step, Op
<1> QED
  BY <1>2 DEF Cleanup

LEMMA OwnNext ==
  ASSUME TypeInv, NEW o \in Ops, OpInv(o), Run(o)
  PROVE  OpInv(o)'
<1>1. /\ ops \in [Ops -> Op] /\ ops[o].pc \in {
           "idle", "lock", "inspect", "stage", "track", "record", "transfer", "verify",
           "replace", "await", "cleanup", "unstage", "unrecord", "unlock", "done", "dead"}
      /\ ops[o].result \in {"none", "ok", "failed", "unknown"}
      /\ request \in [Ops -> Request] /\ reply \in [Ops -> {"none", "ok", "bad"}]
      /\ stage \in [Ops -> {"none", "part", "whole"}]
      /\ NoRequest.kind = "none"
  BY DEF TypeInv, TypeOK, Op, NoRequest
<1>0. StepsOf(o)
  BY <1>1, Steps
<1>2. CASE Begin(o)
  <2>1. PICK r \in Op:
          /\ ops' = [ops EXCEPT ![o] = r]
          /\ r.pc = "lock" /\ r.name \in Names /\ r.to \in Names /\ r.result = "none"
          /\ r.kind # "rename" => r.to = r.name
          /\ ~r.lost /\ ~r.took /\ ~r.recorded
    BY <1>2, BeginFacts DEF TypeInv
  <2> QED
    BY <1>1, <1>2, <2>1
    DEF Begin, serverVars, hubVars, OpInv, Recorded, Sent, Outcome, Staged, Unrecorded, Unsent,
      InUse, At, NamesOf
<1>3. CASE Lock(o)
  BY <1>1, <1>0, <1>3
  DEF Lock, StepsOf, Step, Ends, serverVars, hubVars,
      OpInv, Recorded, Sent, Outcome, Staged, Unrecorded, Unsent,
      InUse, At, NamesOf
<1>4. CASE Inspect(o)
  <2>1. /\ At(o, "inspect") /\ reply' = reply /\ stage' = stage /\ active' = active
        /\ cleaner' = cleaner /\ records' = records
    BY <1>4 DEF Inspect, hubVars
  <2>2. \/ ops[o].kind = "write" /\ Step(o, "stage", ops[o].result) /\ request' = request
        \/ ops[o].kind # "write" /\ Step(o, "await", ops[o].result) /\ Sends(o)
        \/ Step(o, "unlock", "failed") /\ request' = request
    BY <1>1, <1>4, InspectSteps
  <2>3. Sends(o) =>
          /\ request'[o].kind = ops[o].kind /\ request'[o].name = ops[o].name
          /\ request'[o].to = ops[o].to
    BY <1>1 DEF Sends
  <2>4. ops[o].kind # "none"
    BY DEF TypeInv, TypeOK, Op
  <2> QED
    BY <1>1, <2>1, <2>2, <2>3, <2>4
    DEF Step, OpInv, Recorded, Sent, Outcome, Staged, Unrecorded, Unsent,
        InUse, At, NamesOf
<1>5. CASE StageFile(o)
  BY <1>1, <1>0, <1>5
  DEF StageFile, StepsOf, Step, Ends, serverVars, hubVars,
      OpInv, Recorded, Sent, Outcome, Staged, Unrecorded, Unsent,
      InUse, At, NamesOf
<1>6. CASE Track(o)
  <2>1. /\ At(o, "track") /\ request' = request /\ reply' = reply
        /\ cleaner' = cleaner /\ records' = records
    BY <1>6 DEF Track, serverVars
  <2>2. \/ Step(o, "record", ops[o].result) /\ o \in active' /\ stage' = stage
        \/ Step(o, "unlock", "failed")
    BY <1>0, <1>6 DEF Track, StepsOf
  <2> QED
    BY <1>1, <2>1, <2>2
    DEF Step, OpInv, Recorded, Sent, Outcome, Staged, Unrecorded, Unsent,
        InUse, At, NamesOf
<1>7. CASE Record(o)
  <2>1. At(o, "record") /\ request' = request /\ reply' = reply /\ cleaner' = cleaner
    BY <1>7 DEF Record, serverVars
  <2>2. ASSUME NEW kept \in Kept, records' = kept \union {o}, UNCHANGED <<active, stage>>,
               ops' = [p \in Ops |->
                 IF p = o THEN [ops[o] EXCEPT !.pc = "transfer", !.recorded = TRUE]
                 ELSE [ops[p] EXCEPT !.recorded = @ /\ (p \in records => p \in kept)]]
        PROVE  OpInv(o)'
    <3>1. ops'[o] = [ops[o] EXCEPT !.pc = "transfer", !.recorded = TRUE] /\ ops[o] \in Op
      BY <1>1, <2>2
    <3>2. /\ ops'[o].pc = "transfer" /\ ops'[o].recorded
          /\ ops'[o].kind = ops[o].kind /\ ops'[o].lost = ops[o].lost
          /\ ops'[o].took = ops[o].took /\ ops'[o].result = ops[o].result
          /\ ops'[o].name = ops[o].name /\ ops'[o].to = ops[o].to
          /\ ops'[o].expected = ops[o].expected
      BY <3>1 DEF Op
    <3> QED
      BY <1>1, <2>1, <2>2, <3>2
      DEF OpInv, Recorded, Sent, Outcome, Staged, Unrecorded, Unsent,
        InUse, At, NamesOf
  <2>3. CASE Returns(o, "unlock", "failed") /\ UNCHANGED records
    <3>1. Step(o, "unlock", "failed")
      BY <1>0, <2>3 DEF StepsOf
    <3> QED
      BY <1>1, <2>1, <2>3, <3>1
      DEF Step, OpInv, Recorded, Sent, Outcome, Staged, Unrecorded, Unsent,
        InUse, At, NamesOf
  <2> QED
    BY <1>7, <2>2, <2>3 DEF Record
<1>8. CASE Transfer(o)
  BY <1>1, <1>0, <1>8
  DEF Transfer, StepsOf, Step, Ends, serverVars, hubVars,
      OpInv, Recorded, Sent, Outcome, Staged, Unrecorded, Unsent,
      InUse, At, NamesOf
<1>9. CASE Verify(o)
  BY <1>1, <1>9, VerifySteps
  DEF Verify, Step, serverVars, hubVars,
      OpInv, Recorded, Sent, Outcome, Staged, Unrecorded, Unsent,
      InUse, At, NamesOf
<1>10. CASE Replace(o)
  <2>1. /\ At(o, "replace") /\ reply' = reply /\ stage' = stage /\ active' = active
        /\ cleaner' = cleaner /\ records' = records
    BY <1>10 DEF Replace, hubVars
  <2>2. \/ Step(o, "await", ops[o].result) /\ Sends(o)
        \/ /\ request' = request
           /\ Step(o, "cleanup", "failed") \/ Step(o, "cleanup", "unknown")
    BY <1>1, <1>10, ReplaceSteps
  <2>3. Sends(o) =>
          /\ request'[o].kind = ops[o].kind /\ request'[o].name = ops[o].name
          /\ request'[o].to = ops[o].to
    BY <1>1 DEF Sends
  <2>4. ops[o].kind # "none"
    BY DEF TypeInv, TypeOK, Op
  <2> QED
    BY <1>1, <2>1, <2>2, <2>3, <2>4
    DEF Step, OpInv, Recorded, Sent, Outcome, Staged, Unrecorded, Unsent,
        InUse, At, NamesOf
<1>11. CASE Answered(o)
  BY <1>1, <1>0, <1>11
  DEF Answered, StepsOf, Step, Ends, AfterAnswer, hubVars,
      OpInv, Recorded, Sent, Outcome, Staged, Unrecorded, Unsent,
      InUse, At, NamesOf
<1>12. CASE Unanswered(o)
  <2>1. ops[o] \in Op
    BY <1>1
  <2>2. /\ ops'[o].pc = AfterAnswer(o) /\ ops'[o].result = WithoutAnswer(o) /\ ops'[o].lost
        /\ ops'[o].kind = ops[o].kind /\ ops'[o].took = ops[o].took
        /\ ops'[o].recorded = ops[o].recorded /\ ops'[o].name = ops[o].name
        /\ ops'[o].to = ops[o].to /\ ops'[o].expected = ops[o].expected
    BY <1>1, <1>12, <2>1 DEF Unanswered, Op
  <2> QED
    BY <1>1, <1>12, <2>2
    DEF Unanswered, AfterAnswer, WithoutAnswer, hubVars, OpInv, Recorded, Sent, Outcome, Staged, Unrecorded, Unsent,
        InUse, At, NamesOf
<1>13. CASE Cleanup(o)
  <2>1. /\ At(o, "cleanup") /\ request' = request /\ reply' = reply /\ stage' = stage
        /\ active' = active \ {o} /\ cleaner' = cleaner /\ records' = records
    BY <1>13 DEF Cleanup, serverVars
  <2>2. \/ Step(o, "unrecord", ops[o].result) /\ ops[o].result = "ok"
        \/ Step(o, "unstage", ops[o].result)
    BY <1>1, <1>13, CleanupSteps
  <2> QED
    BY <1>1, <2>1, <2>2
    DEF Step, OpInv, Recorded, Sent, Outcome, Staged, Unrecorded, Unsent,
        InUse, At, NamesOf
<1>14. CASE Unstage(o)
  BY <1>1, <1>0, <1>14
  DEF Unstage, StepsOf, Step, Ends, serverVars, hubVars,
      OpInv, Recorded, Sent, Outcome, Staged, Unrecorded, Unsent,
      InUse, At, NamesOf
<1>15. CASE Unrecord(o)
  <2>1. Step(o, "unlock", ops[o].result)
    BY <1>0, <1>15 DEF Unrecord, StepsOf
  <2>2. /\ At(o, "unrecord") /\ request' = request /\ reply' = reply /\ stage' = stage
        /\ active' = active /\ cleaner' = cleaner
    BY <1>15 DEF Unrecord, serverVars, hubVars
  <2> QED
    BY <1>1, <2>1, <2>2
    DEF Step, OpInv, Recorded, Sent, Outcome, Staged, Unrecorded, Unsent, InUse, At, NamesOf
<1>16. CASE Unlock(o)
  BY <1>1, <1>0, <1>16
  DEF Unlock, StepsOf, Step, Ends, serverVars, hubVars,
      OpInv, Recorded, Sent, Outcome, Staged, Unrecorded, Unsent,
      InUse, At, NamesOf
<1> QED
  BY <1>2, <1>3, <1>4, <1>5, <1>6, <1>7, <1>8, <1>9, <1>10, <1>11, <1>12, <1>13, <1>14, <1>15, <1>16 DEF Run


(* What a step of one request means for another one: at most a full table    *)
(* gave up its record.                                                       *)
OpKept(p) ==
  /\ ops'[p].pc = ops[p].pc /\ ops'[p].result = ops[p].result
  /\ ops'[p].kind = ops[p].kind /\ ops'[p].lost = ops[p].lost /\ ops'[p].took = ops[p].took
  /\ ops'[p].name = ops[p].name /\ ops'[p].to = ops[p].to
  /\ ops'[p].expected = ops[p].expected /\ ops'[p].existed = ops[p].existed
  /\ ops'[p].digest = ops[p].digest /\ ops'[p].origin = ops[p].origin
  /\ ops'[p].recorded => ops[p].recorded /\ (p \in records => p \in records')

Elsewhere(p) ==
  /\ OpKept(p)
  /\ request'[p] = request[p] /\ reply'[p] = reply[p] /\ stage'[p] = stage[p]
  /\ p \in active' <=> p \in active
  /\ p \in records' => p \in records

LEMMA RunElsewhere ==
  ASSUME TypeInv, NEW o \in Ops, Run(o), NEW p \in Ops, p # o
  PROVE  Elsewhere(p) /\ cleaner' = cleaner
<1>1. /\ ops \in [Ops -> Op] /\ request \in [Ops -> Request]
      /\ reply \in [Ops -> {"none", "ok", "bad"}] /\ stage \in [Ops -> {"none", "part", "whole"}]
  BY DEF TypeInv, TypeOK
<1>2. cleaner' = cleaner /\ request'[p] = request[p] /\ reply'[p] = reply[p]
  BY <1>1
  DEF Run, Begin, Lock, Inspect, StageFile, Track, Record, Transfer, Verify, Replace, Answered,
      Unanswered, Cleanup, Unstage, Unrecord, Unlock, Sends, serverVars, hubVars
<1>3. stage'[p] = stage[p]
  BY <1>1
  DEF Run, Begin, Lock, Inspect, StageFile, Track, Record, Transfer, Verify, Replace, Answered,
      Unanswered, Cleanup, Unstage, Unrecord, Unlock, Unmake
<1>4. p \in active' <=> p \in active
  BY DEF Run, Begin, Lock, Inspect, StageFile, Track, Record, Transfer, Verify, Replace, Answered,
      Unanswered, Cleanup, Unstage, Unrecord, Unlock, hubVars
<1>5. p \in records' => p \in records
  BY DEF Run, Begin, Lock, Inspect, StageFile, Track, Record, Transfer, Verify, Replace, Answered,
      Unanswered, Cleanup, Unstage, Unrecord, Unlock, Kept
<1>6. OpKept(p)
  <2>1. CASE Record(o)
    <3>1. ASSUME NEW kept \in Kept, records' = kept \union {o},
                 ops' = [q \in Ops |->
                   IF q = o THEN [ops[o] EXCEPT !.pc = "transfer", !.recorded = TRUE]
                   ELSE [ops[q] EXCEPT !.recorded = @ /\ (q \in records => q \in kept)]]
          PROVE  OpKept(p)
      <4>1. ops'[p] = [ops[p] EXCEPT !.recorded = @ /\ (p \in records => p \in kept)]
        BY <3>1
      <4>2. ops[p] \in Op
        BY <1>1
      <4>3. ops'[p].recorded <=> ops[p].recorded /\ (p \in records => p \in kept)
        BY <4>1, <4>2, Zenon DEF Op
      <4> QED
        BY <3>1, <4>1, <4>2, <4>3 DEF OpKept, Op
    <3>2. CASE Returns(o, "unlock", "failed") /\ UNCHANGED records
      BY <1>1, <3>2 DEF Returns, OpKept
    <3> QED
      BY <2>1, <3>1, <3>2 DEF Record
  <2>2. CASE ops'[p] = ops[p] /\ (p \in records => p \in records')
    BY <2>2 DEF OpKept
  <2>3. ASSUME ~Record(o) PROVE ops'[p] = ops[p]
    <3>1. \A pc, result: Goto(o, pc) \/ Returns(o, pc, result) \/ GivesUp(o, result) =>
            ops'[p] = ops[p]
      BY <1>1 DEF Goto, Returns, GivesUp
    <3>2. CASE Begin(o)
      BY <1>1, <3>2, BeginFacts DEF TypeInv
    <3>3. CASE Lock(o) \/ Inspect(o) \/ Unlock(o)
      BY <1>1, <3>1, <3>3 DEF Lock, Inspect, Unlock
    <3>4. CASE StageFile(o) \/ Track(o) \/ Transfer(o) \/ Cleanup(o) \/ Unstage(o) \/ Unrecord(o)
      BY <1>1, <3>1, <3>4 DEF StageFile, Track, Transfer, Cleanup, Unstage, Unrecord
    <3>5. CASE Verify(o) \/ Replace(o) \/ Answered(o) \/ Unanswered(o)
      BY <1>1, <3>1, <3>5 DEF Verify, Replace, Answered, Unanswered
    <3> QED
      BY <2>3, <3>2, <3>3, <3>4, <3>5 DEF Run
  <2>4. ASSUME ~Record(o) PROVE p \in records => p \in records'
    BY <2>4
    DEF Run, Begin, Lock, Inspect, StageFile, Track, Transfer, Verify, Replace, Answered,
        Unanswered, Cleanup, Unstage, Unrecord, Unlock
  <2> QED
    BY <2>1, <2>2, <2>3, <2>4
<1> QED
  BY <1>2, <1>3, <1>4, <1>5, <1>6 DEF Elsewhere

(* What the cleaner is about to remove stays what it was about to remove. *)
CleanerNarrows(p) ==
  /\ p \in cleaner'.todo => p \in cleaner.todo
  /\ cleaner'.pc = "clean" => cleaner.pc = "clean" \/ p \notin cleaner'.todo

LEMMA ElsewhereKept ==
  ASSUME NEW p \in Ops, OpInv(p), Elsewhere(p), CleanerNarrows(p)
  PROVE  OpInv(p)'
<1>1. Recorded(p)'
  BY DEF OpInv, Elsewhere, OpKept, CleanerNarrows, Recorded, Unrecorded, InUse, At
<1>2. Sent(p)'
  BY DEF OpInv, Elsewhere, OpKept, Sent, Unsent, Unrecorded, At, NamesOf
<1>3. Outcome(p)'
  BY DEF OpInv, Elsewhere, OpKept, Outcome, Unsent, Unrecorded, At, NamesOf
<1>4. Staged(p)'
  BY DEF OpInv, Elsewhere, OpKept, Staged
<1> QED
  BY <1>1, <1>2, <1>3, <1>4 DEF OpInv

(* The server, the cleaner, the outside and a stop of the hub. *)
LEMMA OpsNext ==
  ASSUME TypeInv, \A o \in Ops: OpInv(o), Next, NEW p \in Ops
  PROVE  OpInv(p)'
<1>1. /\ ops \in [Ops -> Op] /\ request \in [Ops -> Request]
      /\ reply \in [Ops -> {"none", "ok", "bad"}] /\ stage \in [Ops -> {"none", "part", "whole"}]
      /\ NoRequest.kind = "none" /\ OpInv(p)
  BY DEF TypeInv, TypeOK, NoRequest
<1>2. ASSUME NEW o \in Ops, Run(o) PROVE OpInv(p)'
  <2>1. CASE p = o
    BY <1>1, <1>2, <2>1, OwnNext
  <2>2. CASE p # o
    <3>1. Elsewhere(p) /\ CleanerNarrows(p)
      BY <1>2, <2>2, RunElsewhere DEF CleanerNarrows
    <3> QED
      BY <1>1, <3>1, ElsewhereKept
  <2> QED
    BY <2>1, <2>2
<1>3. ASSUME NEW o \in Ops, Perform(o) PROVE OpInv(p)'
  <2>1. /\ request[o] # NoRequest /\ request[o].kind # "none"
        /\ request[o].kind = ops[o].kind /\ OpInv(o) /\ ops[o] \in Op
    BY <1>1, <1>3 DEF Perform, OpInv, Sent
  <2>2. CASE p = o
    <3>1. /\ ops'[o].took
          /\ ops'[o].pc = ops[o].pc /\ ops'[o].result = ops[o].result
          /\ ops'[o].kind = ops[o].kind /\ ops'[o].lost = ops[o].lost
          /\ ops'[o].recorded = ops[o].recorded /\ ops'[o].name = ops[o].name
          /\ ops'[o].to = ops[o].to /\ ops'[o].expected = ops[o].expected
      BY <1>1, <1>3, <2>1 DEF Perform, Op
    <3>2. /\ request'[o] = NoRequest /\ active' = active /\ cleaner' = cleaner
          /\ records' = records /\ stage'[o] = IF ops[o].kind = "write" THEN "none" ELSE stage[o]
          /\ reply'[o] = IF At(o, "await") THEN "ok" ELSE reply[o]
      BY <1>1, <1>3, <2>1 DEF Perform, Answers, hubVars
    <3> QED
      BY <1>1, <2>1, <2>2, <3>1, <3>2
      DEF OpInv, Recorded, Sent, Outcome, Staged, Unrecorded, Unsent, InUse, At, NamesOf
  <2>3. CASE p # o
    <3>1. Elsewhere(p) /\ CleanerNarrows(p)
      BY <1>1, <1>3, <2>3 DEF Perform, Answers, Elsewhere, OpKept, CleanerNarrows, hubVars
    <3> QED
      BY <1>1, <3>1, ElsewhereKept
  <2> QED
    BY <2>2, <2>3
<1>4. ASSUME NEW o \in Ops, Refuse(o) PROVE OpInv(p)'
  <2>1. CASE p = o
    <3>1. /\ request'[o] = NoRequest /\ active' = active /\ cleaner' = cleaner
          /\ records' = records /\ stage' = stage /\ ops' = ops /\ request[o] # NoRequest
          /\ reply'[o] = IF At(o, "await") THEN "bad" ELSE reply[o]
      BY <1>1, <1>4 DEF Refuse, Answers, hubVars
    <3> QED
      BY <1>1, <2>1, <3>1
      DEF OpInv, Recorded, Sent, Outcome, Staged, Unrecorded, Unsent, InUse, At, NamesOf
  <2>2. CASE p # o
    <3>1. Elsewhere(p) /\ CleanerNarrows(p)
      BY <1>1, <1>4, <2>2 DEF Refuse, Answers, Elsewhere, OpKept, CleanerNarrows, hubVars
    <3> QED
      BY <1>1, <3>1, ElsewhereKept
  <2> QED
    BY <2>1, <2>2
<1>5. ASSUME NEW o \in Ops, CleanRecord(o) PROVE OpInv(p)'
  <2>1. /\ cleaner.pc = "clean" /\ o \in cleaner.todo
        /\ cleaner'.pc = "clean" /\ cleaner'.todo = cleaner.todo \ {o}
        /\ request' = request /\ reply' = reply /\ ops' = ops /\ active' = active
        /\ records' \in {records, records \ {o}}
        /\ stage' = stage \/ stage' = [stage EXCEPT ![o] = "none"]
        /\ records' = records \/ stage' = [stage EXCEPT ![o] = "none"]
    BY <1>5 DEF CleanRecord, TypeInv, TypeOK, serverVars
  <2>2. CASE p = o
    BY <1>1, <2>1, <2>2
    DEF OpInv, Recorded, Sent, Outcome, Staged, Unrecorded, Unsent, InUse, At, NamesOf
  <2>3. CASE p # o
    <3>1. Elsewhere(p) /\ CleanerNarrows(p)
      BY <1>1, <2>1, <2>3 DEF Elsewhere, OpKept, CleanerNarrows
    <3> QED
      BY <1>1, <3>1, ElsewhereKept
  <2> QED
    BY <2>2, <2>3
<1>6. CASE ListRecords \/ SnapshotActive \/ CleanerStops
  <2>1. /\ ops' = ops /\ request' = request /\ reply' = reply /\ stage' = stage
        /\ active' = active /\ records' = records
    BY <1>6 DEF ListRecords, SnapshotActive, CleanerStops, serverVars
  <2>2. \/ cleaner'.pc = "snapshot" /\ cleaner'.todo = records
        \/ cleaner'.pc = "clean" /\ cleaner'.todo = cleaner.todo \ active
        \/ cleaner'.pc = "idle" /\ cleaner'.todo = {}
    BY <1>6 DEF ListRecords, SnapshotActive, CleanerStops, NoCleaner
  <2>3. Recorded(p)'
    BY <1>1, <2>1, <2>2 DEF OpInv, Recorded, Unrecorded, InUse, At
  <2>4. Sent(p)' /\ Outcome(p)' /\ Staged(p)'
    BY <1>1, <2>1 DEF OpInv, Sent, Outcome, Staged, Unsent, Unrecorded, At, NamesOf
  <2> QED
    BY <2>3, <2>4 DEF OpInv
<1>7. CASE Edit
  <2>1. Elsewhere(p) /\ CleanerNarrows(p)
    BY <1>1, <1>7 DEF Edit, Elsewhere, OpKept, CleanerNarrows, hubVars
  <2> QED
    BY <1>1, <2>1, ElsewhereKept
<1>8. CASE Crash
  <2>1. /\ request' = request /\ reply'[p] = "none" /\ stage' = stage /\ records' = records
        /\ active' = {} /\ cleaner'.pc = "idle" /\ cleaner'.todo = {}
        /\ ops'[p] = IF At(p, "idle") \/ Over(p) THEN ops[p]
                     ELSE [Ended(ops[p], "dead", ops[p].result) EXCEPT !.lost = TRUE]
    BY <1>8 DEF Crash, NoCleaner
  <2>2. /\ ops[p] \in Op /\ ops[p].result \in {"none", "ok", "failed", "unknown"}
        /\ ops[p].pc \in {
             "idle", "lock", "inspect", "stage", "track", "record", "transfer", "verify",
             "replace", "await", "cleanup", "unstage", "unrecord", "unlock", "done", "dead"}
    BY <1>1 DEF Op
  <2>3. CASE ops'[p] = ops[p] /\ (At(p, "idle") \/ Over(p))
    BY <1>1, <2>1, <2>3
    DEF OpInv, Recorded, Sent, Outcome, Staged, Unrecorded, Unsent, InUse, At, NamesOf, Over
  <2>4. CASE ops'[p] = [Ended(ops[p], "dead", ops[p].result) EXCEPT !.lost = TRUE]
    <3>1. /\ ops'[p].pc = "dead" /\ ops'[p].result = ops[p].result
          /\ ops'[p].kind = ops[p].kind /\ ops'[p].lost /\ ops'[p].took = ops[p].took
          /\ ops'[p].recorded = ops[p].recorded /\ ops'[p].name = None
          /\ ops'[p].to = None /\ ops'[p].expected = Unchecked
      BY <2>2, <2>4, EndedFacts DEF Op
    <3> QED
      BY <1>1, <2>1, <2>2, <3>1
      DEF OpInv, Recorded, Sent, Outcome, Staged, Unrecorded, Unsent, InUse, At, NamesOf
  <2> QED
    BY <2>1, <2>3, <2>4
<1> QED
  BY <1>2, <1>3, <1>4, <1>5, <1>6, <1>7, <1>8 DEF Next

-----------------------------------------------------------------------------
(* Locks: only Lock makes a request hold its names, and it looks at the      *)
(* others first.                                                             *)
SameNames(p) == ops'[p].pc = ops[p].pc /\ ops'[p].name = ops[p].name /\ ops'[p].to = ops[p].to

Apart(o, p) == NamesOf(ops[o]) \intersect NamesOf(ops[p]) = {}

LEMMA RunLocks ==
  ASSUME TypeInv, NEW o \in Ops, Run(o)
  PROVE  \/ Waits(o)'
         \/ /\ ops'[o].name = ops[o].name /\ ops'[o].to = ops[o].to
            /\ Waits(o) => \A p \in Ops \ {o}: Waits(p) \/ Apart(o, p)
<1>1. ops \in [Ops -> Op] /\ StepsOf(o)
  BY Steps DEF TypeInv, TypeOK
<1>2. CASE Begin(o)
  <2>1. ops'[o].pc = "lock"
    BY <1>1, <1>2, BeginFacts DEF TypeInv
  <2> QED
    BY <2>1 DEF Waits
<1>3. CASE Lock(o)
  BY <1>1, <1>3 DEF Lock, StepsOf, Step, Ends, Waits, Apart
<1>4. CASE Inspect(o) \/ StageFile(o) \/ Track(o)
  BY <1>1, <1>4, InspectSteps DEF Inspect, StageFile, Track, StepsOf, Step, Waits, At
<1>5. CASE Record(o)
  <2>1. CASE Returns(o, "unlock", "failed")
    BY <1>1, <1>5, <2>1 DEF Record, StepsOf, Step, Waits, At
  <2>2. ASSUME NEW kept \in Kept,
               ops' = [p \in Ops |->
                 IF p = o THEN [ops[o] EXCEPT !.pc = "transfer", !.recorded = TRUE]
                 ELSE [ops[p] EXCEPT !.recorded = @ /\ (p \in records => p \in kept)]]
        PROVE  ops'[o].name = ops[o].name /\ ops'[o].to = ops[o].to
    <3>1. ops'[o] = [ops[o] EXCEPT !.pc = "transfer", !.recorded = TRUE] /\ ops[o] \in Op
      BY <1>1, <2>2
    <3> QED
      BY <3>1 DEF Op
  <2> QED
    BY <1>5, <2>1, <2>2 DEF Record, Waits, At
<1>6. CASE Transfer(o) \/ Verify(o) \/ Replace(o)
  BY <1>1, <1>6, VerifySteps, ReplaceSteps
  DEF Transfer, Verify, Replace, StepsOf, Step, Waits, At
<1>7. CASE Answered(o) \/ Cleanup(o) \/ Unstage(o) \/ Unrecord(o)
  BY <1>1, <1>7, CleanupSteps
  DEF Answered, Cleanup, Unstage, Unrecord, StepsOf, Step, Waits, At
<1>8. CASE Unanswered(o)
  <2>1. ops'[o].name = ops[o].name /\ ops'[o].to = ops[o].to
    BY <1>1, <1>8 DEF Unanswered, Op
  <2> QED
    BY <1>8, <2>1 DEF Unanswered, Waits, At
<1>9. CASE Unlock(o)
  <2>1. ops[o].result \in {"none", "ok", "failed", "unknown"}
    BY <1>1 DEF Op
  <2> QED
    BY <1>1, <1>9, <2>1 DEF Unlock, StepsOf, Ends, Waits
<1> QED
  BY <1>2, <1>3, <1>4, <1>5, <1>6, <1>7, <1>8, <1>9 DEF Run

(* Requests other than o keep their names and their places or wait. *)
LEMMA LocksKept ==
  ASSUME LocksApart, \A p \in Ops: SameNames(p) \/ Waits(p)'
  PROVE  LocksApart'
  BY DEF LocksApart, SameNames, Waits, NamesOf

LEMMA OthersKeepNames ==
  ASSUME TypeInv, Next, \A o \in Ops: ~Run(o), NEW p \in Ops
  PROVE  SameNames(p) \/ Waits(p)'
<1>1. ops \in [Ops -> Op]
  BY DEF TypeInv, TypeOK
<1>2. ASSUME NEW o \in Ops, Perform(o) PROVE SameNames(p)
  BY <1>1, <1>2 DEF Perform, SameNames
<1>3. CASE UNCHANGED ops
  BY <1>3 DEF SameNames
<1>4. CASE Crash
  <2>1. /\ ops[p] \in Op /\ ops[p].result \in {"none", "ok", "failed", "unknown"}
        /\ ops'[p] = IF At(p, "idle") \/ Over(p) THEN ops[p]
                     ELSE [Ended(ops[p], "dead", ops[p].result) EXCEPT !.lost = TRUE]
    BY <1>1, <1>4 DEF Crash, Op
  <2>2. CASE ops'[p] = ops[p]
    BY <2>2 DEF SameNames
  <2>3. CASE ops'[p] = [Ended(ops[p], "dead", ops[p].result) EXCEPT !.lost = TRUE]
    BY <2>1, <2>3, EndedFacts DEF Waits, Op
  <2> QED
    BY <2>1, <2>2, <2>3
<1> QED
  BY <1>2, <1>3, <1>4
  DEF Next, Refuse, CleanRecord, ListRecords, SnapshotActive, CleanerStops, Edit

LEMMA LocksNext ==
  ASSUME TypeInv, LocksApart, Next
  PROVE  LocksApart'
<1>1. ASSUME NEW o \in Ops, Run(o) PROVE LocksApart'
  <2>1. \A p \in Ops \ {o}: SameNames(p)
    BY <1>1, RunElsewhere DEF Elsewhere, OpKept, SameNames
  <2>2. \/ Waits(o)'
        \/ /\ ops'[o].name = ops[o].name /\ ops'[o].to = ops[o].to
           /\ Waits(o) => \A p \in Ops \ {o}: Waits(p) \/ Apart(o, p)
    BY <1>1, RunLocks
  <2>3. CASE Waits(o)'
    BY <2>1, <2>3, LocksKept
  <2>4. CASE /\ ops'[o].name = ops[o].name /\ ops'[o].to = ops[o].to
             /\ \A p \in Ops \ {o}: Waits(p) \/ Apart(o, p)
    BY <2>1, <2>4 DEF LocksApart, SameNames, Waits, NamesOf, Apart
  <2>5. \A p \in Ops \ {o}: ~Waits(o) => Waits(p) \/ Apart(o, p)
    BY DEF LocksApart, Apart
  <2> QED
    BY <2>2, <2>3, <2>4, <2>5
<1> QED
  BY <1>1, OthersKeepNames, LocksKept

-----------------------------------------------------------------------------
(* Saves: a step that changes no file keeps what a save may replace, because *)
(* a request of which the hub did not learn the outcome stays one.           *)
LostGrows == \A p \in Ops: ops[p].lost => ops'[p].lost

LEMMA RunLost ==
  ASSUME TypeInv, NEW o \in Ops, OpInv(o), Run(o)
  PROVE  LostGrows
<1>1. ops \in [Ops -> Op] /\ StepsOf(o)
  BY Steps DEF TypeInv, TypeOK
<1>2. \A p \in Ops \ {o}: ops[p].lost => ops'[p].lost
  BY RunElsewhere DEF Elsewhere, OpKept
<1>3. ops[o].lost => ops'[o].lost
  <2>1. CASE Begin(o)
    BY <2>1 DEF Begin, OpInv, Sent
  <2>2. CASE Lock(o) \/ Inspect(o) \/ StageFile(o) \/ Track(o)
    BY <1>1, <2>2, InspectSteps DEF Lock, StageFile, Track, StepsOf, Step, Ends
  <2>3. CASE Record(o)
    <3>1. CASE Returns(o, "unlock", "failed")
      BY <1>1, <3>1 DEF StepsOf, Step
    <3>2. ASSUME NEW kept \in Kept,
                 ops' = [p \in Ops |->
                   IF p = o THEN [ops[o] EXCEPT !.pc = "transfer", !.recorded = TRUE]
                   ELSE [ops[p] EXCEPT !.recorded = @ /\ (p \in records => p \in kept)]]
          PROVE  ops'[o].lost = ops[o].lost
      <4>1. ops'[o] = [ops[o] EXCEPT !.pc = "transfer", !.recorded = TRUE] /\ ops[o] \in Op
        BY <1>1, <3>2
      <4> QED
        BY <4>1 DEF Op
    <3> QED
      BY <2>3, <3>1, <3>2 DEF Record
  <2>4. CASE Transfer(o) \/ Verify(o) \/ Replace(o)
    BY <1>1, <2>4, VerifySteps, ReplaceSteps DEF Transfer, StepsOf, Step
  <2>5. CASE Answered(o) \/ Cleanup(o) \/ Unstage(o) \/ Unrecord(o)
    BY <1>1, <2>5, CleanupSteps DEF Answered, Unstage, Unrecord, StepsOf, Step
  <2>6. CASE Unanswered(o)
    BY <1>1, <2>6 DEF Unanswered, Op
  <2>7. CASE Unlock(o)
    <3>1. ops[o].result \in {"none", "ok", "failed", "unknown"}
      BY <1>1 DEF Op
    <3> QED
      BY <1>1, <2>7, <3>1 DEF Unlock, StepsOf, Ends
  <2> QED
    BY <2>1, <2>2, <2>3, <2>4, <2>5, <2>6, <2>7 DEF Run
<1> QED
  BY <1>2, <1>3 DEF LostGrows

LEMMA MayReplaceKept ==
  ASSUME TypeInv, NEW p \in Ops, ops[p].name \in Names, MayReplace(p), LostGrows,
         ops'[p].name = ops[p].name, ops'[p].origin = ops[p].origin,
         file'[ops[p].name] = file[ops[p].name], by'[ops[p].name] = by[ops[p].name]
  PROVE  MayReplace(p)'
<1>1. by[ops[p].name] \in Ops \union {Outside}
  BY DEF TypeInv, TypeOK
<1> QED
  BY <1>1 DEF MayReplace, BeyondTheHub, Target, LostGrows

(* A request at the same place in its code, with the same data. *)
SameSave(p) ==
  /\ ops'[p].pc = ops[p].pc /\ ops'[p].kind = ops[p].kind /\ ops'[p].took = ops[p].took
  /\ ops'[p].name = ops[p].name /\ ops'[p].expected = ops[p].expected
  /\ ops'[p].existed = ops[p].existed
  /\ ops'[p].digest = ops[p].digest /\ ops'[p].origin = ops[p].origin

LEMMA SaveKept ==
  ASSUME TypeInv, NEW p \in Ops, OpInv(p), SaveLooks(p), SameSave(p), LostGrows,
         file' = file, by' = by
  PROVE  SaveLooks(p)'
<1>1. ops[p].pc \in {"replace", "await"} => ops[p].name \in Names
  BY DEF OpInv, Outcome, NamesOf
<1>2. Looked(p)' => Looked(p)
  BY DEF Looked, SameSave
<1>3. ASSUME Looked(p)', ops'[p].pc \in {"replace", "await"} PROVE MayReplace(p)'
  BY <1>1, <1>2, <1>3, MayReplaceKept DEF SaveLooks, SameSave
<1> QED
  BY <1>2, <1>3 DEF SaveLooks, SameSave, Matches

(* The steps of the save itself: it looks before it stages and again before  *)
(* it replaces.                                                              *)
LEMMA OwnSave ==
  ASSUME TypeInv, NEW o \in Ops, OpInv(o), SaveLooks(o), Run(o)
  PROVE  SaveLooks(o)'
<1>1. ops \in [Ops -> Op] /\ ops[o] \in Op /\ StepsOf(o)
  BY Steps DEF TypeInv, TypeOK
<1>2. LostGrows /\ file' = file /\ by' = by
  BY RunLost
  DEF Run, Begin, Lock, Inspect, StageFile, Track, Record, Transfer, Verify, Replace, Answered,
      Unanswered, Cleanup, Unstage, Unrecord, Unlock, serverVars
<1>3. \A pc: Goto(o, pc) => Keeps(o)
  BY <1>1 DEF Goto, Keeps, Op
<1>4. CASE ops'[o].pc \notin {"stage", "track", "record", "transfer", "verify", "replace", "await"}
  BY <1>4 DEF SaveLooks
<1>5. CASE Begin(o)
  <2>1. ops'[o].pc = "lock"
    BY <1>1, <1>5, BeginFacts DEF TypeInv
  <2> QED
    BY <1>4, <2>1
<1>6. CASE Lock(o) \/ Unlock(o)
  <2>1. ops[o].result \in {"none", "ok", "failed", "unknown"}
    BY <1>1 DEF Op
  <2>2. ops'[o].pc \in {"inspect", "done"}
    BY <1>1, <1>6, <2>1 DEF Lock, Unlock, StepsOf, Step, Ends
  <2> QED
    BY <1>4, <2>2
<1>7. CASE Inspect(o)
  <2>1. ASSUME ops[o].kind = "write", Permitted(o), NEW c,
               c = IF ops[o].expected = Unchecked THEN None ELSE Target(o),
               ops' = [ops EXCEPT ![o].pc = "stage", ![o].existed = Target(o) # None,
                                  ![o].origin = c]
        PROVE  SaveLooks(o)'
    <3>1. ops[o].expected # Unchecked => c # None /\ Matches(o, c)
      BY <2>1 DEF Permitted, WritePermitted, Matches
    <3>2. ops'[o].kind = ops[o].kind /\ ops'[o].took = ops[o].took /\ ops'[o].pc = "stage"
      BY <1>1, <2>1 DEF Op
    <3>3. ops'[o].existed <=> Target(o) # None
      BY <1>1, <2>1, Zenon DEF Op
    <3>4. /\ ops'[o].origin = c /\ ops'[o].expected = ops[o].expected
          /\ ops'[o].digest = ops[o].digest
      BY <1>1, <2>1 DEF Op
    <3> QED
      BY <2>1, <3>1, <3>2, <3>3, <3>4 DEF SaveLooks, Looked, Matches
  <2>2. CASE Step(o, "await", ops[o].result) /\ ops[o].kind # "write"
    BY <2>2 DEF SaveLooks, Looked, Step
  <2>3. CASE Step(o, "unlock", "failed")
    BY <1>4, <2>3 DEF Step
  <2> QED
    BY <1>1, <1>7, <2>1, <2>2, <2>3 DEF Inspect, StepsOf
<1>8. CASE StageFile(o) \/ Track(o) \/ Transfer(o)
  <2>1. \/ ops[o].pc = "stage" /\ Goto(o, "track")
        \/ ops[o].pc = "track" /\ Goto(o, "record")
        \/ ops[o].pc = "transfer" /\ Goto(o, "verify")
        \/ Returns(o, "unlock", "failed") \/ GivesUp(o, "failed")
    BY <1>8 DEF StageFile, Track, Transfer, At
  <2>2. ASSUME NEW pc \in {"track", "record", "verify"}, Goto(o, pc),
               ops[o].pc \in {"stage", "track", "transfer"}
        PROVE  SaveLooks(o)'
    <3>1. Step(o, pc, ops[o].result) /\ Keeps(o)
      BY <1>1, <1>3, <2>2 DEF StepsOf
    <3>2. Looked(o)' => Looked(o)
      BY <3>1 DEF Looked, Step, Keeps
    <3>3. Looked(o)' => ops'[o].existed /\ Matches(o, ops[o].origin)'
      BY <2>2, <3>1, <3>2 DEF SaveLooks, Keeps, Matches
    <3> QED
      BY <2>2, <3>1, <3>3 DEF SaveLooks, Step
  <2>3. CASE Returns(o, "unlock", "failed") \/ GivesUp(o, "failed")
    <3>1. ops'[o].pc \in {"unlock", "cleanup"}
      BY <1>1, <2>3 DEF StepsOf, Step
    <3> QED
      BY <1>4, <3>1
  <2> QED
    BY <2>1, <2>2, <2>3
<1>9. CASE Record(o)
  <2>1. CASE Returns(o, "unlock", "failed")
    BY <1>1, <1>4, <2>1 DEF StepsOf, Step
  <2>2. ASSUME NEW kept \in Kept,
               ops' = [p \in Ops |->
                 IF p = o THEN [ops[o] EXCEPT !.pc = "transfer", !.recorded = TRUE]
                 ELSE [ops[p] EXCEPT !.recorded = @ /\ (p \in records => p \in kept)]]
        PROVE  SaveLooks(o)'
    <3>1. ops'[o] = [ops[o] EXCEPT !.pc = "transfer", !.recorded = TRUE]
      BY <1>1, <2>2
    <3>2. /\ ops'[o].pc = "transfer" /\ ops'[o].existed = ops[o].existed
          /\ ops'[o].kind = ops[o].kind /\ ops'[o].took = ops[o].took
          /\ ops'[o].expected = ops[o].expected /\ ops'[o].digest = ops[o].digest
          /\ ops'[o].origin = ops[o].origin
      BY <1>1, <3>1 DEF Op
    <3> QED
      BY <1>9, <3>2 DEF Record, SaveLooks, Looked, Matches, At
  <2> QED
    BY <1>9, <2>1, <2>2 DEF Record
<1>10. CASE Verify(o)
  <2>1. ops[o].pc = "verify" /\ (Looked(o) => ops[o].existed /\ Matches(o, ops[o].origin))
    BY <1>10 DEF Verify, At, SaveLooks
  <2>2. CASE Unchanged(o) /\ Goto(o, "replace")
    <3>1. Step(o, "replace", ops[o].result)
      BY <1>1, <2>2 DEF StepsOf
    <3>2. Looked(o) => Target(o) = ops[o].origin
      BY <2>1, <2>2 DEF Unchanged, Looked, Matches
    <3>3. Keeps(o)
      BY <1>3, <2>2
    <3>4. Looked(o)' => Looked(o)
      BY <3>1, <3>3 DEF Looked, Step, Keeps
    <3>5. Looked(o)' => ops'[o].existed /\ Matches(o, ops[o].origin)'
      BY <2>1, <3>3, <3>4 DEF Keeps, Matches
    <3>6. Looked(o)' => MayReplace(o)'
      BY <1>2, <3>1, <3>2, <3>3, <3>4 DEF MayReplace, Target, Step, Keeps
    <3> QED
      BY <3>1, <3>5, <3>6 DEF SaveLooks, Step
  <2>3. ASSUME NEW lost \in BOOLEAN, ~ops[o].existed,
               ops' = [ops EXCEPT ![o].pc = "replace", ![o].cut = lost]
        PROVE  SaveLooks(o)'
    <3>1. Looked(o)' => Looked(o)
      BY <1>1, <2>3 DEF Looked, Op
    <3> QED
      BY <2>1, <2>3, <3>1 DEF SaveLooks
  <2>4. CASE GivesUp(o, "failed")
    <3>1. ops'[o].pc = "cleanup"
      BY <1>1, <2>4 DEF StepsOf, Step
    <3> QED
      BY <1>4, <3>1
  <2> QED
    BY <1>10, <2>2, <2>3, <2>4 DEF Verify
<1>11. CASE Replace(o)
  <2>1. CASE Goto(o, "await")
    <3>1. /\ ops[o].name \in Names
          /\ Looked(o) => MayReplace(o) /\ ops[o].existed /\ Matches(o, ops[o].origin)
      BY <1>11 DEF Replace, At, OpInv, Outcome, NamesOf, SaveLooks
    <3>2. Step(o, "await", ops[o].result) /\ Keeps(o)
      BY <1>1, <1>3, <2>1 DEF StepsOf
    <3>3. Looked(o)' => Looked(o)
      BY <3>2 DEF Looked, Step, Keeps
    <3>4. Looked(o) => MayReplace(o)'
      BY <1>2, <3>1, <3>2, MayReplaceKept DEF Step, Keeps
    <3>5. Looked(o)' => ops'[o].existed /\ Matches(o, ops[o].origin)'
      BY <3>1, <3>2, <3>3 DEF Keeps, Matches
    <3> QED
      BY <3>2, <3>3, <3>4, <3>5 DEF SaveLooks, Step
  <2>2. ops'[o].pc = "cleanup" => SaveLooks(o)'
    BY <1>4
  <2>3. CASE GivesUp(o, "failed")
    BY <1>1, <2>2, <2>3 DEF StepsOf, Step
  <2>4. CASE ops' = [ops EXCEPT ![o].pc = "cleanup", ![o].result = "unknown", ![o].cut = TRUE]
    BY <1>1, <2>2, <2>4 DEF Op
  <2> QED
    BY <1>11, <2>1, <2>3, <2>4 DEF Replace
<1>12. CASE Answered(o)
  <2>1. ops'[o].pc \in {"cleanup", "unlock"}
    BY <1>1, <1>12 DEF Answered, AfterAnswer, StepsOf, Step
  <2> QED
    BY <1>4, <2>1
<1>13. CASE Unanswered(o)
  <2>1. ops'[o].pc \in {"cleanup", "unlock"}
    BY <1>1, <1>13 DEF Unanswered, AfterAnswer
  <2> QED
    BY <1>4, <2>1
<1>14. CASE Cleanup(o) \/ Unstage(o) \/ Unrecord(o)
  <2>1. ops'[o].pc \in {"unstage", "unrecord", "unlock"}
    BY <1>1, <1>14, CleanupSteps DEF Unstage, Unrecord, StepsOf, Step
  <2> QED
    BY <1>4, <2>1
<1> QED
  BY <1>5, <1>6, <1>7, <1>8, <1>9, <1>10, <1>11, <1>12, <1>13, <1>14 DEF Run

(* The server, and whoever changes files without the hub.  A request the     *)
(* server performs on a name somebody holds a lock on is that request's own, *)
(* or one the hub does not wait for any more.                                *)
LEMMA OtherSave ==
  ASSUME TypeInv, \A o \in Ops: OpInv(o), LocksApart, NEW q \in Ops, Perform(q),
         NEW p \in Ops, SaveLooks(p)
  PROVE  SaveLooks(p)'
<1>1. /\ ops \in [Ops -> Op] /\ ops[q] \in Op /\ file \in [Names -> Contents \union {None}]
      /\ request[q] # NoRequest
      /\ OpInv(p) /\ OpInv(q)
  BY DEF TypeInv, TypeOK, Perform
<1>2. CASE p = q
  <2>1. ops'[q].took
    BY <1>1 DEF Perform, Op
  <2> QED
    BY <1>2, <2>1 DEF SaveLooks, Looked
<1>3. CASE p # q
  <2>1. ops'[p] = ops[p]
    BY <1>1, <1>3 DEF Perform
  <2>2. LostGrows
    BY <1>1 DEF Perform, LostGrows, Op
  <2>3. ASSUME Looked(p), ops[p].pc \in {"replace", "await"} PROVE MayReplace(p)'
    <3>1. MayReplace(p) /\ ops[p].name \in Names
      BY <1>1, <2>3 DEF SaveLooks, OpInv, Outcome, NamesOf
    <3>2. CASE ops[p].name \notin NamesOf(request[q])
      <4>1. by'[ops[p].name] = by[ops[p].name]
        BY <3>1, <3>2 DEF Perform
      <4>2. request[q].kind \in {"write", "create", "rename", "delete"}
        BY <1>1 DEF OpInv, Sent, TypeInv, TypeOK, Request
      <4>3. Effect(q)[ops[p].name] = file[ops[p].name]
        BY <1>1, <3>1, <3>2, <4>2 DEF Effect, NamesOf
      <4>4. file'[ops[p].name] = file[ops[p].name]
        BY <4>3 DEF Perform
      <4> QED
        BY <2>1, <2>2, <3>1, <4>1, <4>4, MayReplaceKept
    <3>3. CASE ops[p].name \in NamesOf(request[q])
      <4>1. by'[ops[p].name] = q
        BY <3>1, <3>3 DEF Perform
      <4>2. ~At(q, "await")
        BY <1>1, <1>3, <2>3, <3>3 DEF OpInv, Sent, NamesOf, LocksApart, Waits, At
      <4>3. ops[q].lost
        BY <1>1, <4>2 DEF OpInv, Sent
      <4> QED
        BY <2>1, <2>2, <4>1, <4>3 DEF MayReplace, BeyondTheHub, LostGrows
    <3> QED
      BY <3>2, <3>3
  <2> QED
    BY <2>1, <2>3 DEF SaveLooks, Looked, Matches
<1> QED
  BY <1>2, <1>3

LEMMA SavesNext ==
  ASSUME TypeInv, \A o \in Ops: OpInv(o), LocksApart, SavesLook, Next, NEW p \in Ops
  PROVE  SaveLooks(p)'
<1>1. /\ ops \in [Ops -> Op] /\ file \in [Names -> Contents \union {None}]
      /\ by \in [Names -> Ops \union {Outside}]
      /\ OpInv(p) /\ SaveLooks(p)
  BY DEF TypeInv, TypeOK, SavesLook
<1>2. ASSUME NEW o \in Ops, Run(o) PROVE SaveLooks(p)'
  <2>1. CASE p = o
    BY <1>1, <1>2, <2>1, OwnSave
  <2>2. CASE p # o
    <3>1. SameSave(p)
      BY <1>2, <2>2, RunElsewhere DEF Elsewhere, OpKept, SameSave
    <3>2. LostGrows
      BY <1>2, RunLost
    <3>3. file' = file /\ by' = by
      BY <1>2
      DEF Run, Begin, Lock, Inspect, StageFile, Track, Record, Transfer, Verify, Replace,
          Answered, Unanswered, Cleanup, Unstage, Unrecord, Unlock, serverVars
    <3> QED
      BY <1>1, <3>1, <3>2, <3>3, SaveKept
  <2> QED
    BY <2>1, <2>2
<1>3. ASSUME NEW o \in Ops, Perform(o) PROVE SaveLooks(p)'
  BY <1>1, <1>3, OtherSave
<1>4. CASE UNCHANGED <<ops, file, by>>
  BY <1>1, <1>4, SaveKept DEF SameSave, LostGrows
<1>5. CASE Edit
  <2>1. PICK n \in Names, c \in {None, Edited(edits + 1)}:
          file' = [file EXCEPT ![n] = c] /\ by' = [by EXCEPT ![n] = Outside]
    BY <1>5, Zenon DEF Edit
  <2>2. ops' = ops
    BY <1>5 DEF Edit
  <2>3. ASSUME Looked(p), ops[p].pc \in {"replace", "await"} PROVE MayReplace(p)'
    <3>1. MayReplace(p) /\ ops[p].name \in Names
      BY <1>1, <2>3 DEF SaveLooks, OpInv, Outcome, NamesOf
    <3>2. CASE ops[p].name = n
      BY <1>1, <2>1, <2>2, <3>2 DEF MayReplace, BeyondTheHub
    <3>3. CASE ops[p].name # n
      BY <1>1, <2>1, <2>2, <3>1, <3>3, MayReplaceKept DEF LostGrows
    <3> QED
      BY <3>2, <3>3
  <2> QED
    BY <1>1, <2>2, <2>3 DEF SaveLooks, Looked, Matches
<1>6. CASE Crash
  <2>1. /\ ops[p] \in Op /\ ops[p].result \in {"none", "ok", "failed", "unknown"}
        /\ ops'[p] = IF At(p, "idle") \/ Over(p) THEN ops[p]
                     ELSE [Ended(ops[p], "dead", ops[p].result) EXCEPT !.lost = TRUE]
    BY <1>1, <1>6 DEF Crash, Op
  <2>2. ops'[p].pc \in {"idle", "done", "dead"}
    BY <2>1, EndedFacts DEF At, Over, Op
  <2> QED
    BY <2>2 DEF SaveLooks
<1> QED
  BY <1>2, <1>3, <1>4, <1>5, <1>6
  DEF Next, Refuse, CleanRecord, ListRecords, SnapshotActive, CleanerStops, serverVars

-----------------------------------------------------------------------------
(* The theorems. *)

LEMMA InitInv == Init => IInv
<1> SUFFICES ASSUME Init PROVE IInv
  OBVIOUS
<1>1. TypeInv
  BY NewOpFacts, FS_EmptySet, RecordsAssumption
  DEF Init, TypeInv, TypeOK, Contents, NoCleaner, NoRequest, Request
<1>2. \A o \in Ops: OpInv(o)
  BY NewOpFacts
  DEF Init, OpInv, Recorded, Sent, Outcome, Staged, Unrecorded, Unsent, InUse, At, NamesOf,
      NoCleaner, NoRequest
<1>3. LocksApart /\ SavesLook
  BY NewOpFacts DEF Init, LocksApart, SavesLook, SaveLooks, Waits
<1> QED
  BY <1>1, <1>2, <1>3 DEF IInv

LEMMA NextInv == IInv /\ [Next]_vars => IInv'
<1> SUFFICES ASSUME IInv, [Next]_vars PROVE IInv'
  OBVIOUS
<1>1. CASE Next
  BY <1>1, NextTypeInv, OpsNext, LocksNext, SavesNext DEF IInv, SavesLook
<1>2. CASE UNCHANGED vars
  BY <1>2
  DEF vars, serverVars, hubVars, IInv, TypeInv, TypeOK, OpInv, Recorded, Sent, Outcome, Staged,
      Unrecorded, Unsent, InUse, At, LocksApart, Waits, SavesLook, SaveLooks, Looked,
      MayReplace, BeyondTheHub, Matches, Target
<1> QED
  BY <1>1, <1>2

(* In every state of changing files on a host, a request's place in the code *)
(* agrees with its staging file, its record, what the server may still do    *)
(* for it and the lock it holds (Write, Create, Rename and Delete of         *)
(* remote_files.go).                                                         *)
THEOREM FilesInvariant == Spec => []IInv
  BY InitInv, NextInv, PTL DEF Spec

(* The variables keep their types, and AddPendingCleanup keeps at most       *)
(* MaxPendingCleanupsPerHost records of a host.                              *)
THEOREM FilesTypes == Spec => []TypeOK
<1>1. IInv => TypeOK
  BY DEF IInv, TypeInv
<1> QED
  BY <1>1, FilesInvariant, PTL

(* RunPendingCleanups never removes the staging file of a write that is      *)
(* under way, however its steps fall between those of createStagingFile and  *)
(* whatever fails.                                                           *)
THEOREM LiveStagesAreKept == Spec => []LiveStageKept
<1>1. IInv => LiveStageKept
  BY DEF IInv, OpInv, Staged, LiveStageKept
<1> QED
  BY <1>1, FilesInvariant, PTL

(* A write the caller was told has failed, and not that its outcome is       *)
(* unknown, never becomes the content of its target (replaceRemoteFile,      *)
(* Write).                                                                   *)
THEOREM FailuresHaveNoEffect == Spec => []WriteFailureHasNoEffect
<1>1. IInv => WriteFailureHasNoEffect
  BY DEF IInv, OpInv, Outcome, WriteFailureHasNoEffect
<1> QED
  BY <1>1, FilesInvariant, PTL

(* Every staging file whose record was committed and not given up to a full  *)
(* table is still recorded while it exists, across stops of the hub.         *)
THEOREM LeftoversAreRecorded == Spec => []LeftoverIsRecorded
<1>1. IInv => LeftoverIsRecorded
  BY DEF IInv, OpInv, Staged, LeftoverIsRecorded
<1> QED
  BY <1>1, FilesInvariant, PTL

(* No request of the hub comes between the first look of a save and its      *)
(* replacement: whatever else happens, it replaces the very content it found *)
(* when it looked first (inspectExistingTarget), of the second its caller    *)
(* named and with the bytes its caller named, if it did, unless the last     *)
(* change came from outside or from a request whose outcome the hub did not  *)
(* learn (verifyTargetBeforeReplace under PathLock).  Whether that is what   *)
(* the caller had seen is not for the hub to know from a time.               *)
THEOREM SavesReplaceWhatTheyFound == Spec => SaveReplacesWhatItFound
<1>1. IInv => [\A o \in Ops:
                 Replaces(o) =>
                   \/ Target(o) = ops[o].origin /\ Matches(o, Target(o))
                   \/ BeyondTheHub(o)]_vars
  BY DEF IInv, SavesLook, SaveLooks, Looked, MayReplace, Replaces, At
<1> QED
  BY <1>1, FilesInvariant, PTL DEF SaveReplacesWhatItFound

(* With a digest the caller's own words decide, whatever the clock of the    *)
(* host tells apart: a save given one replaces only the bytes its caller had *)
(* seen, unless the last change came from beyond the hub.  Only for saves    *)
(* without one does SaveReplacesWhatItsCallerSaw fail.                       *)
THEOREM DigestsDecide ==
  Spec => [][\A o \in Ops: Replaces(o) /\ ops[o].digest =>
               Target(o) = ops[o].expected \/ BeyondTheHub(o)]_vars
<1>1. [\A o \in Ops:
         Replaces(o) =>
           \/ Target(o) = ops[o].origin /\ Matches(o, Target(o))
           \/ BeyondTheHub(o)]_vars
      => [\A o \in Ops: Replaces(o) /\ ops[o].digest =>
            Target(o) = ops[o].expected \/ BeyondTheHub(o)]_vars
  BY DEF Matches
<1> QED
  BY <1>1, SavesReplaceWhatTheyFound, PTL DEF SaveReplacesWhatItFound

=============================================================================
