----------------------------- MODULE RemoteFiles -----------------------------
(***************************************************************************)
(* Changing files on an SSH host (host/remote_files.go): staged writes,    *)
(* creations, renames and deletions by concurrent requests, the server     *)
(* that performs what it was sent although the answer is lost, programs    *)
(* outside the hub, a stop and restart of the hub, and the deferred        *)
(* cleanup of staging files it left behind.                                *)
(*                                                                         *)
(* A request is a goroutine with a connection of its own; a step is what   *)
(* it asks the server in one go, does in one transaction or under one      *)
(* lock.  The end of a request's context closes its connection, so it is a *)
(* lost connection.  A content is named by what produced it, so two        *)
(* contents are equal exactly if their digests are; the modification time  *)
(* of a content is the whole second it was produced in, all that SFTP      *)
(* tells.  Names are resolved: links are the subject of PathCoordinator,   *)
(* whose Serialized is the lock used here.                                 *)
(***************************************************************************)
EXTENDS Naturals, FiniteSets

CONSTANTS
  Ops,         \* requests, each made once
  Names,       \* paths of one host
  Initial,     \* the content a file has at first
  None,        \* no file
  Unchecked,   \* a write that expects nothing in particular
  Second(_),   \* the second a content was produced in
  Outside,     \* whoever changes files without the hub
  MaxRecords,  \* MaxPendingCleanupsPerHost
  MaxEdits,    \* changes from outside (a bound)
  MaxCrashes   \* stops of the hub (a bound)

ASSUME RecordsAssumption == MaxRecords \in Nat \ {0} /\ MaxEdits \in Nat /\ MaxCrashes \in Nat

VARIABLES
  file,     \* what each name holds
  by,       \* history: who changed a name last
  stage,    \* the staging file of a write: "none", "part" or "whole"
  request,  \* what the server was sent and has not performed
  reply,    \* what it answered
  ops,      \* the local variables of the requests
  active,   \* activeStaging
  records,  \* pending_cleanups, in the database
  cleaner,  \* RunPendingCleanups
  edits, crashes

serverVars == <<file, by, request, reply>>
hubVars    == <<active, cleaner>>
vars == <<serverVars, stage, ops, hubVars, records, edits, crashes>>

Edited(k) == <<"edit", k>>
Contents == {Initial} \union Ops \union {Edited(k): k \in 1..MaxEdits}

Op ==
  [kind: {"write", "create", "rename", "delete"}, name: Names \union {None},
   to: Names \union {None},
   expected: Contents \union {Unchecked}, \* the content whose time it is given
   digest: BOOLEAN,                       \* it is given the digest of it, too
   origin: Contents \union {None},        \* originDigest
   pc: {"idle", "lock", "inspect", "stage", "track", "record", "transfer", "verify",
        "replace", "await", "cleanup", "unstage", "unrecord", "unlock", "done", "dead"},
   cut: BOOLEAN, existed: BOOLEAN, lost: BOOLEAN, took: BOOLEAN, recorded: BOOLEAN,
   result: {"none", "ok", "failed", "unknown"}]

NewOp ==
  [kind |-> "write", name |-> None, to |-> None, expected |-> Unchecked, digest |-> FALSE,
   origin |-> None, pc |-> "idle", cut |-> FALSE, existed |-> FALSE, lost |-> FALSE,
   took |-> FALSE, recorded |-> FALSE, result |-> "none"]

(* What the server is asked to do: a rename of the staging file, too.        *)
Request == [kind: {"none", "write", "create", "rename", "delete"},
            name: Names \union {None}, to: Names \union {None}]
NoRequest == [kind |-> "none", name |-> None, to |-> None]

NoCleaner == [pc |-> "idle", todo |-> {}]

Init ==
  /\ file \in [Names -> {Initial, None}]
  /\ by = [n \in Names |-> Outside]
  /\ stage = [o \in Ops |-> "none"]
  /\ request = [o \in Ops |-> NoRequest] /\ reply = [o \in Ops |-> "none"]
  /\ ops = [o \in Ops |-> NewOp]
  /\ active = {} /\ records = {} /\ cleaner = NoCleaner
  /\ edits = 0 /\ crashes = 0

-----------------------------------------------------------------------------
At(o, pc) == ops[o].pc = pc
Waits(o)  == ops[o].pc \in {"idle", "lock", "done", "dead"}
Over(o)   == ops[o].pc \in {"done", "dead"}

Goto(o, pc) == ops' = [ops EXCEPT ![o].pc = pc]

(* Something the write needs fails, possibly with the connection, which the  *)
(* cleanup will miss.                                                        *)
GivesUp(o, result) ==
  \E lost \in BOOLEAN:
    ops' = [ops EXCEPT ![o].pc = "cleanup", ![o].result = result, ![o].cut = lost]

(* The request goes on at pc and will return this result. *)
Returns(o, pc, result) == ops' = [ops EXCEPT ![o].pc = pc, ![o].result = result]

(* What a request that is over leaves to speak of. *)
Ended(op, pc, result) ==
  [NewOp EXCEPT !.pc = pc, !.kind = op.kind, !.lost = op.lost, !.took = op.took,
                !.recorded = op.recorded, !.result = result]

NamesOf(r) == {r.name, r.to}
Target(o) == file[ops[o].name]

Sends(o) == request' = [request EXCEPT ![o] =
              [kind |-> ops[o].kind, name |-> ops[o].name, to |-> ops[o].to]]

-----------------------------------------------------------------------------
(* The caller may expect the content it sees now.  It tells its time; the    *)
(* routes accept a digest with it, which the browser never sends.            *)
Begin(o) ==
  /\ At(o, "idle")
  /\ \E kind \in {"write", "create", "rename", "delete"}, n \in Names, m \in Names:
     \E e \in {Unchecked, file[n]} \ {None}, digest \in BOOLEAN:
       /\ kind = "rename" <=> n # m
       /\ kind # "write" => e = Unchecked
       /\ digest => e # Unchecked
       /\ ops' = [ops EXCEPT ![o] = [NewOp EXCEPT
            !.pc = "lock", !.kind = kind, !.name = n, !.to = m,
            !.expected = e, !.digest = digest]]
  /\ UNCHANGED <<serverVars, stage, hubVars, records, edits, crashes>>

(* Mutant of Lock: nobody else is looked at. *)
LockAnyway(o) ==
  /\ At(o, "lock")
  /\ Goto(o, "inspect")
  /\ UNCHANGED <<serverVars, stage, hubVars, records, edits, crashes>>

(* The request locks its names and opens a connection, if both succeed.      *)
Lock(o) ==
  /\ At(o, "lock")
  /\ \/ /\ \A p \in Ops \ {o}: Waits(p) \/ NamesOf(ops[o]) \intersect NamesOf(ops[p]) = {}
        /\ Goto(o, "inspect")
     \/ ops' = [ops EXCEPT ![o] = Ended(@, "done", "failed")]
  /\ UNCHANGED <<serverVars, stage, hubVars, records, edits, crashes>>

(* A content is as expected: of that second, and those bytes if told.        *)
Matches(o, c) ==
  /\ c # None /\ Second(c) = Second(ops[o].expected)
  /\ ops[o].digest => c = ops[o].expected

(* What each operation requires before it changes anything.                  *)
WritePermitted(o)  == ops[o].expected = Unchecked \/ Matches(o, Target(o))
CreatePermitted(o) == Target(o) = None
RenamePermitted(o) == Target(o) # None /\ file[ops[o].to] = None
DeletePermitted(o) == Target(o) # None

Permitted(o) ==
  CASE ops[o].kind = "write"  -> WritePermitted(o)
    [] ops[o].kind = "create" -> CreatePermitted(o)
    [] ops[o].kind = "rename" -> RenamePermitted(o)
    [] ops[o].kind = "delete" -> DeletePermitted(o)

(* Resolve and inspect the target; a save that expects something remembers   *)
(* the digest of what it finds.  Permissions, links with other names, a      *)
(* target that is no regular file or a lost connection refuse it, too.       *)
Inspect(o) ==
  /\ At(o, "inspect")
  /\ \/ /\ Permitted(o)
        /\ IF ops[o].kind = "write"
           THEN /\ ops' = [ops EXCEPT ![o].pc = "stage", ![o].existed = Target(o) # None,
                     ![o].origin = IF ops[o].expected = Unchecked THEN None ELSE Target(o)]
                /\ UNCHANGED request
           ELSE /\ Goto(o, "await")
                /\ Sends(o)
     \/ Returns(o, "unlock", "failed") /\ UNCHANGED request
  /\ UNCHANGED <<file, by, reply, stage, hubVars, records, edits, crashes>>

-----------------------------------------------------------------------------
(* createStagingFile *)

(* The server may have made the file although the connection is lost.        *)
StageFile(o) ==
  /\ At(o, "stage")
  /\ \/ /\ stage' = [stage EXCEPT ![o] = "part"]
        /\ Goto(o, "track")
     \/ /\ stage' \in {stage, [stage EXCEPT ![o] = "part"]}
        /\ Returns(o, "unlock", "failed")
  /\ UNCHANGED <<serverVars, hubVars, records, edits, crashes>>

(* A staging file that cannot be secured or recorded is removed at once, if  *)
(* the server still does that.                                               *)
Unmake(o) == stage' \in {stage, [stage EXCEPT ![o] = "none"]}

(* Mutant of Track: the file is not noted as active. *)
TrackNot(o) ==
  /\ At(o, "track")
  /\ Goto(o, "record")
  /\ UNCHANGED <<serverVars, stage, active, cleaner, records, edits, crashes>>

Track(o) ==
  /\ At(o, "track")
  /\ \/ /\ active' = active \union {o}
        /\ Goto(o, "record")
        /\ UNCHANGED stage
     \/ /\ Unmake(o)
        /\ Returns(o, "unlock", "failed")
        /\ UNCHANGED active
  /\ UNCHANGED <<serverVars, cleaner, records, edits, crashes>>

(* What AddPendingCleanup may keep: a full table gives a record up.          *)
Kept == {kept \in SUBSET records:
           Cardinality(kept) = IF Cardinality(records) < MaxRecords
                               THEN Cardinality(records) ELSE MaxRecords - 1}

Record(o) ==
  /\ At(o, "record")
  /\ \/ /\ \E kept \in Kept:
             /\ records' = kept \union {o}
             /\ ops' = [p \in Ops |->
                  IF p = o THEN [ops[o] EXCEPT !.pc = "transfer", !.recorded = TRUE]
                  ELSE [ops[p] EXCEPT !.recorded = @ /\ (p \in records => p \in kept)]]
        /\ UNCHANGED <<active, stage>>
     \/ /\ active' = active \ {o}
        /\ Unmake(o)
        /\ Returns(o, "unlock", "failed")
        /\ UNCHANGED records
  /\ UNCHANGED <<serverVars, cleaner, edits, crashes>>

-----------------------------------------------------------------------------
(* The rest of Write *)

(* The whole body arrives, or the write is given up.                         *)
Transfer(o) ==
  /\ At(o, "transfer")
  /\ \/ /\ stage' = [stage EXCEPT ![o] = "whole"]
        /\ Goto(o, "verify")
     \/ GivesUp(o, "failed") /\ UNCHANGED stage
  /\ UNCHANGED <<serverVars, hubVars, records, edits, crashes>>

(* verifyTargetDigest: without a digest from the caller, the bytes found at  *)
(* first decide.                                                             *)
Unchanged(o) ==
  IF ops[o].existed
  THEN /\ Target(o) # None
       /\ ops[o].expected # Unchecked =>
            Matches(o, Target(o)) /\ (~ops[o].digest => Target(o) = ops[o].origin)
  ELSE Target(o) = None

(* verifyTargetBeforeReplace.  That the target of a new file cannot be       *)
(* looked at, for whatever reason, is taken for its absence.                 *)
Verify(o) ==
  /\ At(o, "verify")
  /\ \/ Unchanged(o) /\ Goto(o, "replace")
     \/ /\ ~ops[o].existed
        /\ \E lost \in BOOLEAN: ops' = [ops EXCEPT ![o].pc = "replace", ![o].cut = lost]
     \/ GivesUp(o, "failed")
  /\ UNCHANGED <<serverVars, stage, hubVars, records, edits, crashes>>

(* replaceRemoteFile up to the rename: ownership and permissions of an       *)
(* existing file are set on the staging file first.                          *)
Replace(o) ==
  /\ At(o, "replace")
  /\ \/ ~ops[o].cut /\ Goto(o, "await") /\ Sends(o)
     \/ GivesUp(o, "failed") /\ ops[o].existed /\ UNCHANGED request
     \/ /\ ops' = [ops EXCEPT ![o].pc = "cleanup", ![o].result = "unknown", ![o].cut = TRUE]
        /\ UNCHANGED request
  /\ UNCHANGED <<file, by, reply, stage, hubVars, records, edits, crashes>>

AfterAnswer(o) == IF ops[o].kind = "write" THEN "cleanup" ELSE "unlock"

Answered(o) ==
  /\ At(o, "await") /\ reply[o] # "none"
  /\ Returns(o, AfterAnswer(o), IF reply[o] = "ok" THEN "ok" ELSE "failed")
  /\ reply' = [reply EXCEPT ![o] = "none"]
  /\ UNCHANGED <<file, by, request, stage, hubVars, records, edits, crashes>>

(* Mutant of WithoutAnswer: the lost connection is an ordinary failure. *)
OrdinaryFailure(o) == "failed"

(* Without an answer a write does not know whether it happened; the other    *)
(* operations report a failure.                                              *)
WithoutAnswer(o) == IF ops[o].kind = "write" THEN "unknown" ELSE "failed"

(* The connection is lost before the answer arrives, or the request's        *)
(* context ends.                                                             *)
Unanswered(o) ==
  /\ At(o, "await")
  /\ ops' = [ops EXCEPT ![o].pc = AfterAnswer(o), ![o].result = WithoutAnswer(o),
                        ![o].lost = TRUE, ![o].cut = TRUE]
  /\ reply' = [reply EXCEPT ![o] = "none"]
  /\ UNCHANGED <<file, by, request, stage, hubVars, records, edits, crashes>>

(* What a write expected and found is of no more use to it. *)
Forgetting(op, pc) ==
  [op EXCEPT !.pc = pc, !.expected = Unchecked, !.digest = FALSE, !.origin = None,
             !.existed = FALSE]

(* The deferred cleanup: the file is no longer active ...                    *)
Cleanup(o) ==
  /\ At(o, "cleanup")
  /\ active' = active \ {o}
  /\ ops' = [ops EXCEPT ![o] =
       Forgetting(@, IF ops[o].result = "ok" THEN "unrecord" ELSE "unstage")]
  /\ UNCHANGED <<serverVars, stage, cleaner, records, edits, crashes>>

(* Mutant of Unstage: the record goes whether the file did or not. *)
UnstageForgetting(o) ==
  /\ At(o, "unstage")
  /\ Unmake(o)
  /\ Goto(o, "unrecord")
  /\ UNCHANGED <<serverVars, hubVars, records, edits, crashes>>

(* ... it is removed unless it became the target, which may fail, and        *)
(* without the hub learning that it did not ...                              *)
Unstage(o) ==
  /\ At(o, "unstage")
  /\ \/ /\ ~ops[o].cut /\ stage[o] # "none"
        /\ stage' = [stage EXCEPT ![o] = "none"]
        /\ Goto(o, "unrecord")
     \/ /\ stage' \in {stage, [stage EXCEPT ![o] = "none"]}
        /\ Goto(o, "unlock")
  /\ UNCHANGED <<serverVars, hubVars, records, edits, crashes>>

(* ... and then forgotten. *)
Unrecord(o) ==
  /\ At(o, "unrecord")
  /\ records' \in {records, records \ {o}}
  /\ Goto(o, "unlock")
  /\ UNCHANGED <<serverVars, stage, hubVars, edits, crashes>>

Unlock(o) ==
  /\ At(o, "unlock")
  /\ ops' = [ops EXCEPT ![o] = Ended(@, "done", @.result)]
  /\ UNCHANGED <<serverVars, stage, hubVars, records, edits, crashes>>

Run(o) ==
  \/ Begin(o) \/ Lock(o) \/ Inspect(o)
  \/ StageFile(o) \/ Track(o) \/ Record(o) \/ Transfer(o) \/ Verify(o) \/ Replace(o)
  \/ Answered(o) \/ Unanswered(o)
  \/ Cleanup(o) \/ Unstage(o) \/ Unrecord(o) \/ Unlock(o)

-----------------------------------------------------------------------------
(* The server *)

Possible(o) ==
  LET r == request[o] IN
  CASE r.kind = "write"  -> stage[o] = "whole"
    [] r.kind = "create" -> file[r.name] = None
    [] r.kind = "rename" -> file[r.name] # None /\ file[r.to] = None
    [] r.kind = "delete" -> file[r.name] # None

Effect(o) ==
  LET r == request[o] IN
  CASE r.kind \in {"write", "create"} -> [file EXCEPT ![r.name] = o]
    [] r.kind = "rename" -> [file EXCEPT ![r.to] = file[r.name], ![r.name] = None]
    [] r.kind = "delete" -> [file EXCEPT ![r.name] = None]

Answers(o, answer) ==
  /\ request' = [request EXCEPT ![o] = NoRequest]
  /\ reply' = IF At(o, "await") THEN [reply EXCEPT ![o] = answer] ELSE reply

(* It performs a request even if nobody waits for the answer any more.       *)
Perform(o) ==
  /\ request[o] # NoRequest /\ Possible(o)
  /\ file' = Effect(o)
  /\ by' = [n \in Names |-> IF n \in NamesOf(request[o]) THEN o ELSE by[n]]
  /\ stage' = IF request[o].kind = "write" THEN [stage EXCEPT ![o] = "none"] ELSE stage
  /\ ops' = [ops EXCEPT ![o].took = TRUE]
  /\ Answers(o, "ok")
  /\ UNCHANGED <<hubVars, records, edits, crashes>>

Refuse(o) ==
  /\ request[o] # NoRequest
  /\ Answers(o, "bad")
  /\ UNCHANGED <<file, by, stage, ops, hubVars, records, edits, crashes>>

Edit ==
  /\ edits < MaxEdits
  /\ edits' = edits + 1
  /\ \E n \in Names, c \in {None, Edited(edits + 1)}: file' = [file EXCEPT ![n] = c]
                                                   /\ by' = [by EXCEPT ![n] = Outside]
  /\ UNCHANGED <<request, reply, stage, ops, hubVars, records, crashes>>

-----------------------------------------------------------------------------
(* RunPendingCleanups, started when a control connection was made *)

ListRecords ==
  /\ cleaner.pc = "idle" /\ records # {}
  /\ cleaner' = [pc |-> "snapshot", todo |-> records]
  /\ UNCHANGED <<serverVars, stage, ops, active, records, edits, crashes>>

SnapshotActive ==
  /\ cleaner.pc = "snapshot"
  /\ cleaner' = [pc |-> "clean", todo |-> cleaner.todo \ active]
  /\ UNCHANGED <<serverVars, stage, ops, active, records, edits, crashes>>

(* cleanupSingleRecord *)
CleanRecord(o) ==
  /\ cleaner.pc = "clean" /\ o \in cleaner.todo
  /\ cleaner' = [cleaner EXCEPT !.todo = @ \ {o}]
  /\ \/ /\ stage' = [stage EXCEPT ![o] = "none"]
        /\ records' \in {records, records \ {o}}
     \/ UNCHANGED <<stage, records>>
  /\ UNCHANGED <<serverVars, ops, active, edits, crashes>>

CleanerStops ==
  /\ cleaner.pc # "idle"
  /\ cleaner' = NoCleaner
  /\ UNCHANGED <<serverVars, stage, ops, active, records, edits, crashes>>

-----------------------------------------------------------------------------
(* The hub stops and starts again: the database and the server remain.       *)
Crash ==
  /\ crashes < MaxCrashes
  /\ crashes' = crashes + 1
  /\ ops' = [o \in Ops |->
       IF At(o, "idle") \/ Over(o) THEN ops[o]
       ELSE [Ended(ops[o], "dead", ops[o].result) EXCEPT !.lost = TRUE]]
  /\ reply' = [o \in Ops |-> "none"]
  /\ active' = {} /\ cleaner' = NoCleaner
  /\ UNCHANGED <<file, by, request, stage, records, edits>>

Next ==
  \/ \E o \in Ops: Run(o) \/ Perform(o) \/ Refuse(o) \/ CleanRecord(o)
  \/ ListRecords \/ SnapshotActive \/ CleanerStops
  \/ Edit \/ Crash

Spec == Init /\ [][Next]_vars
-----------------------------------------------------------------------------
(* Type invariant. *)
TypeOK ==
  /\ file \in [Names -> Contents \union {None}]
  /\ by \in [Names -> Ops \union {Outside}]
  /\ stage \in [Ops -> {"none", "part", "whole"}]
  /\ request \in [Ops -> Request]
  /\ reply \in [Ops -> {"none", "ok", "bad"}]
  /\ ops \in [Ops -> Op]
  /\ active \subseteq Ops /\ records \subseteq Ops
  /\ Cardinality(records) <= MaxRecords
  /\ cleaner \in [pc: {"idle", "snapshot", "clean"}, todo: SUBSET Ops]

(* RunPendingCleanups never removes the staging file of a write that is      *)
(* still under way: createStagingFile notes the file as active before it     *)
(* records it, and the cleanup reads the records before it looks at what is  *)
(* active.                                                                   *)
LiveStageKept ==
  \A o \in Ops:
    /\ ops[o].pc \in {"record", "transfer"} => stage[o] = "part"
    /\ ops[o].pc \in {"verify", "replace"} => stage[o] = "whole"

(* A write that was answered with a plain failure has not become the         *)
(* content of its target and never will, also not through a rename the       *)
(* server performs late.                                                     *)
WriteFailureHasNoEffect ==
  \A o \in Ops: ops[o].kind = "write" /\ ops[o].result = "failed" =>
    ~ops[o].took /\ request[o] = NoRequest

(* What a save with an expectation replaces, and when.                       *)
Replaces(o) ==
  /\ At(o, "await") /\ ops[o].kind = "write" /\ ops[o].expected # Unchecked
  /\ ops'[o].took /\ ~ops[o].took

(* The last change of its target came from outside the hub, or from a        *)
(* request of which the hub did not learn the outcome.                       *)
BeyondTheHub(o) ==
  by[ops[o].name] = Outside \/ ops[by[ops[o].name]].lost

(* No other request of the hub comes between the look of a save and its      *)
(* replacement: what it replaces is the very content it found when it first  *)
(* looked (inspectExistingTarget), of the second its caller named and with   *)
(* the bytes its caller named, if it did; unless the last change came from   *)
(* beyond the hub.  It is not what the caller had seen: see                  *)
(* SaveReplacesWhatItsCallerSaw.                                             *)
SaveReplacesWhatItFound ==
  [][\A o \in Ops:
       Replaces(o) =>
         \/ Target(o) = ops[o].origin /\ Matches(o, Target(o))
         \/ BeyondTheHub(o)]_vars

(* A normal save replaces only the content its caller had seen, unless the   *)
(* last change came from beyond the hub: the requests of the hub detect each *)
(* other's work "even when size and reported timestamp are unchanged"        *)
(* (openspec/specs/file-manager/spec.md:699, :703-705).  It does not hold    *)
(* for the saves of the browser, which tell a time only                      *)
(* (verifyTargetDigest).                                                     *)
SaveReplacesWhatItsCallerSaw ==
  [][\A o \in Ops: Replaces(o) => Target(o) = ops[o].expected \/ BeyondTheHub(o)]_vars

(* A staging file that a write leaves behind is recorded for cleanup, even   *)
(* if the hub stops at any point, as soon as AddPendingCleanup has committed *)
(* and until a full table gives its record up.                               *)
LeftoverIsRecorded ==
  \A o \in Ops: stage[o] # "none" /\ ops[o].recorded => o \in records
=============================================================================
