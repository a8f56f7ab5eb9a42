--------------------------- MODULE PathCoordinator ---------------------------
(***************************************************************************)
(* The path locks of one SSH host (host/remote_files.go): every write,     *)
(* creation, removal and rename locks the names it was asked for, resolves *)
(* the links on the way to them, locks what they resolve to, and works.    *)
(* Locks are taken one after the other, so operations may wait for each    *)
(* other in a circle; whoever would close it is refused.                   *)
(*                                                                         *)
(* An owner is a LockHandle.  Every operation makes its own, and handles   *)
(* are never used again.  A path is the sequence of the names on it.       *)
(***************************************************************************)
EXTENDS Naturals, Sequences

CONSTANTS
  Owners,    \* lock handles, one for each operation
  NoOwner,   \* 0, which is no handle's id
  Paths,
  Targets,   \* what a path may resolve to; links can change meanwhile
  Requests   \* <<path>> for Write, Create and Delete, <<old, new>> for Rename

ASSUME CoordinatorAssumption ==
  /\ NoOwner \notin Owners
  /\ Targets \in [Paths -> SUBSET Paths]
  /\ Requests \subseteq Seq(Paths) \ {<<>>}

VARIABLES
  op,       \* where each operation is, and what it locks
  held,     \* pathCoordinator.active, grouped by handle and call of Lock
  waiting   \* pathCoordinator.waiting, NoOwner where the map has no entry

vars == <<op, held, waiting>>

Elements(s) == {s[i]: i \in DOMAIN s}

PathsOf(o) == UNION Elements(held[o])

Operation ==
  [pc: {"idle", "lock", "wait", "woken", "resolve", "work", "leave", "done"},
   paths: Seq(Paths), targets: Seq(Paths), want: SUBSET Paths]

Init ==
  /\ op = [o \in Owners |-> [pc |-> "idle", paths |-> <<>>, targets |-> <<>>, want |-> {}]]
  /\ held = [o \in Owners |-> <<>>]
  /\ waiting = [o \in Owners |-> NoOwner]

At(o, pc) == op[o].pc = pc

Under(p, q) == Len(q) <= Len(p) /\ SubSeq(p, 1, Len(q)) = q

PathsConflict(p, q) == Under(p, q) \/ Under(q, p)

(* findConflictLocked returns one of these, or finds none. *)
Conflicting(o) ==
  {q \in Owners \ {o}: \E p \in op[o].want, r \in PathsOf(q): PathsConflict(p, r)}

(* Mutant of LeadsTo: only the first step is looked at. *)
LeadsToAtOnce(q, o) == waiting[q] = o

(* checkDeadlockLocked: following waiting from q leads to o.  Every set that *)
(* holds q and is left only at o or where nobody is waited for, holds o.     *)
LeadsTo(q, o) ==
  \A S \in SUBSET Owners:
    (q \in S /\ \A x \in S \ {o}: waiting[x] \in S \union {NoOwner}) => o \in S

-----------------------------------------------------------------------------
(* An operation *)

Begin(o) ==
  /\ At(o, "idle")
  /\ \E r \in Requests:
       op' = [op EXCEPT ![o] = [pc |-> "lock", paths |-> r, targets |-> <<>>,
                                want |-> Elements(r)]]
  /\ UNCHANGED <<held, waiting>>

(* LockHandle.Lock, first or after it was woken. *)
Attempting(o) == At(o, "lock") \/ At(o, "woken")

AfterLock(targets, paths) == IF Len(targets) = Len(paths) THEN "work" ELSE "resolve"

Acquire(o) ==
  /\ Attempting(o) /\ Conflicting(o) = {}
  /\ held' = [held EXCEPT ![o] = Append(@, op[o].want)]
  /\ waiting' = [waiting EXCEPT ![o] = NoOwner]
  /\ op' = [op EXCEPT ![o].pc = IF op[o].targets = <<>> THEN "resolve"
                                ELSE AfterLock(op[o].targets, op[o].paths)]

(* A refused handle keeps the entry it may have in waiting. *)
Refuse(o) ==
  /\ Attempting(o)
  /\ \E q \in Conflicting(o): LeadsTo(q, o)
  /\ op' = [op EXCEPT ![o].pc = "leave"]
  /\ UNCHANGED <<held, waiting>>

Wait(o) ==
  /\ Attempting(o)
  /\ \E q \in Conflicting(o):
       /\ ~LeadsTo(q, o)
       /\ waiting' = [waiting EXCEPT ![o] = q]
  /\ op' = [op EXCEPT ![o].pc = "wait"]
  /\ UNCHANGED held

(* The deadline of the operation; a handle that was woken may see it first. *)
TimeOut(o) ==
  /\ At(o, "wait") \/ At(o, "woken")
  /\ waiting' = [waiting EXCEPT ![o] = NoOwner]
  /\ op' = [op EXCEPT ![o].pc = "leave"]
  /\ UNCHANGED held

(* Mutant of Resolve: what a path resolves to is not locked. *)
ResolveUnlocked(o) ==
  /\ At(o, "resolve")
  /\ \E t \in Targets[op[o].paths[Len(op[o].targets) + 1]]:
       LET found == Append(op[o].targets, t)
       IN op' = [op EXCEPT ![o].targets = found, ![o].pc = AfterLock(found, op[o].paths)]
  /\ UNCHANGED <<held, waiting>>

(* resolveTargetInParent, of the source of a rename before its destination. *)
Resolve(o) ==
  /\ At(o, "resolve")
  /\ LET path == op[o].paths[Len(op[o].targets) + 1]
     IN \E t \in Targets[path]:
          LET found == Append(op[o].targets, t)
          IN op' = [op EXCEPT ![o] =
               [pc |-> IF t = path THEN AfterLock(found, @.paths) ELSE "lock",
                paths |-> @.paths, targets |-> found, want |-> {t}]]
  /\ UNCHANGED <<held, waiting>>

(* No session, no such directory, a blocked path; or the work is over. *)
Finish(o) ==
  /\ At(o, "resolve") \/ At(o, "work")
  /\ op' = [op EXCEPT ![o].pc = "leave"]
  /\ UNCHANGED <<held, waiting>>

Woken == [o \in Owners |-> IF At(o, "wait") THEN [op[o] EXCEPT !.pc = "woken"] ELSE op[o]]

(* Mutant of Unlock: notify is not closed. *)
UnlockSilently(o) ==
  /\ At(o, "leave") /\ held[o] # <<>>
  /\ held' = [held EXCEPT ![o] = SubSeq(@, 1, Len(@) - 1)]
  /\ UNCHANGED <<op, waiting>>

(* The deferred unlocks run in the reverse order of the locks. *)
Unlock(o) ==
  /\ At(o, "leave") /\ held[o] # <<>>
  /\ held' = [held EXCEPT ![o] = SubSeq(@, 1, Len(@) - 1)]
  /\ op' = Woken
  /\ UNCHANGED waiting

Return(o) ==
  /\ At(o, "leave") /\ held[o] = <<>>
  /\ op' = [op EXCEPT ![o].pc = "done"]
  /\ UNCHANGED <<held, waiting>>

Lock(o) == Acquire(o) \/ Refuse(o) \/ Wait(o)

Work(o) == Lock(o) \/ Resolve(o) \/ Finish(o) \/ Unlock(o) \/ Return(o)

Next == \E o \in Owners: Begin(o) \/ Work(o) \/ TimeOut(o)

Spec == Init /\ [][Next]_vars

(* Operations run on and work ends; no deadline has to pass. *)
FairSpec == Spec /\ \A o \in Owners: WF_vars(Work(o))

-----------------------------------------------------------------------------
(* Type invariant: one call of Lock for the names and one for each target.   *)
TypeOK ==
  /\ op \in [Owners -> Operation]
  /\ held \in [Owners -> Seq(SUBSET Paths)]
  /\ waiting \in [Owners -> Owners \union {NoOwner}]
  /\ \A o \in Owners: Len(op[o].targets) <= Len(op[o].paths)

(* Of two operations that work at the same time, neither works on a path     *)
(* above, below or equal to one of the other's, whatever links they came by. *)
Serialized ==
  \A a, b \in Owners:
    a # b /\ At(a, "work") /\ At(b, "work") =>
      \A p \in Elements(op[a].targets), q \in Elements(op[b].targets):
        ~PathsConflict(p, q)

(* waiting never leads in a circle, so checkDeadlockLocked, which follows it *)
(* with the mutex held and looks for one handle only, always comes to an     *)
(* end: also through the entries of handles that were refused.               *)
NoCircle ==
  \A S \in SUBSET Owners: S # {} => \E o \in S: waiting[o] \notin S

(* An operation that has begun returns, even if no deadline ever passes.     *)
EventuallyReturns == \A o \in Owners: At(o, "lock") ~> At(o, "done")
=============================================================================
