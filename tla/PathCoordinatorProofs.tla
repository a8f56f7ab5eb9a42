------------------------ MODULE PathCoordinatorProofs ------------------------
(***************************************************************************)
(* Proofs about PathCoordinator for any number of operations, any tree of  *)
(* paths and any links: conflicting work is serialized, and the chain that *)
(* checkDeadlockLocked follows has an end.                                 *)
(***************************************************************************)
EXTENDS PathCoordinator, TLAPS

Waits(o) == op[o].pc \in {"lock", "wait", "woken"}

(* Handles hold no conflicting paths. *)
Exclusive ==
  \A a, b \in Owners: a # b =>
    \A p \in PathsOf(a), q \in PathsOf(b): ~PathsConflict(p, q)

(* What an operation was asked for and what it found is locked, or is about  *)
(* to be.                                                                    *)
Covered ==
  \A o \in Owners:
    LET names == Elements(op[o].paths) \union Elements(op[o].targets)
    IN /\ At(o, "resolve") \/ At(o, "work") => names \subseteq PathsOf(o)
       /\ Waits(o) => names \subseteq PathsOf(o) \union op[o].want

(* An operation that resolves has a path left to resolve. *)
Unresolved ==
  \A o \in Owners:
    /\ op[o].pc # "idle" => op[o].paths # <<>>
    /\ At(o, "resolve") => Len(op[o].targets) < Len(op[o].paths)

(* The inductive invariant. *)
PInv == TypeOK /\ Exclusive /\ Covered /\ Unresolved /\ NoCircle

-----------------------------------------------------------------------------
(* Appending to a sequence adds one element. *)
LEMMA ElementsAppend ==
  ASSUME NEW S, NEW s \in Seq(S), NEW e \in S
  PROVE  /\ Append(s, e) \in Seq(S)
         /\ Elements(Append(s, e)) = Elements(s) \union {e}
<1>1. Append(s, e) \in Seq(S) /\ DOMAIN Append(s, e) = 1..Len(s) + 1 /\ DOMAIN s = 1..Len(s)
  OBVIOUS
<1>2. \A i \in DOMAIN s: Append(s, e)[i] = s[i]
  OBVIOUS
<1>3. Append(s, e)[Len(s) + 1] = e /\ Len(s) \in Nat
  OBVIOUS
<1> QED
  BY <1>1, <1>2, <1>3 DEF Elements

(* The front of a sequence has no other elements. *)
LEMMA ElementsFront ==
  ASSUME NEW S, NEW s \in Seq(S), s # <<>>
  PROVE  /\ SubSeq(s, 1, Len(s) - 1) \in Seq(S)
         /\ Elements(SubSeq(s, 1, Len(s) - 1)) \subseteq Elements(s)
<1>1. Len(s) \in Nat \ {0}
  OBVIOUS
<1>2. /\ SubSeq(s, 1, Len(s) - 1) \in Seq(S)
      /\ DOMAIN SubSeq(s, 1, Len(s) - 1) = 1..Len(s) - 1
      /\ \A i \in 1..Len(s) - 1: SubSeq(s, 1, Len(s) - 1)[i] = s[i]
  BY <1>1
<1> QED
  BY <1>1, <1>2 DEF Elements

(* Recording that o waits for q closes no circle unless q leads to o. *)
LEMMA NoNewCircle ==
  ASSUME TypeOK, NoCircle, NEW o \in Owners, NEW q \in Owners, ~LeadsTo(q, o),
         waiting' = [waiting EXCEPT ![o] = q]
  PROVE  NoCircle'
<1> SUFFICES ASSUME NEW S \in SUBSET Owners, S # {}, \A x \in S: waiting'[x] \in S
             PROVE  FALSE
  BY DEF NoCircle
<1>1. PICK T \in SUBSET Owners:
        q \in T /\ (\A x \in T \ {o}: waiting[x] \in T \union {NoOwner}) /\ o \notin T
  BY DEF LeadsTo
<1>2. \A x \in Owners \ {o}: waiting'[x] = waiting[x]
  BY DEF TypeOK
<1>3. o \in S
  BY <1>2 DEF NoCircle
<1>4. waiting'[o] = q
  BY DEF TypeOK
<1>5. q \in S \intersect T
  BY <1>1, <1>3, <1>4
<1>6. NoOwner \notin S
  BY CoordinatorAssumption
<1>7. \A x \in S \intersect T: waiting[x] \in S \intersect T
  BY <1>1, <1>2, <1>6
<1> QED
  BY <1>5, <1>7 DEF NoCircle

(* Forgetting whom a handle waits for closes no circle. *)
LEMMA FewerEdges ==
  ASSUME TypeOK, NoCircle, NEW o \in Owners,
         waiting' = [waiting EXCEPT ![o] = NoOwner]
  PROVE  NoCircle'
<1> SUFFICES ASSUME NEW S \in SUBSET Owners, S # {}, \A x \in S: waiting'[x] \in S
             PROVE  FALSE
  BY DEF NoCircle
<1>1. o \notin S
  BY CoordinatorAssumption DEF TypeOK
<1>2. \A x \in S: waiting'[x] = waiting[x]
  BY <1>1 DEF TypeOK
<1> QED
  BY <1>2 DEF NoCircle

-----------------------------------------------------------------------------
(* What each step does to the parts of the invariant. *)

(* Nothing is locked at first. *)
LEMMA InitPInv == Init => PInv
<1> SUFFICES ASSUME Init PROVE PInv
  OBVIOUS
<1>1. TypeOK
  BY DEF Init, TypeOK, Operation
<1>2. \A o \in Owners: PathsOf(o) = {}
  <2>1. Elements(<<>>) = {}
    BY DEF Elements
  <2>2. \A o \in Owners: held[o] = <<>>
    BY DEF Init
  <2> QED
    BY <2>1, <2>2 DEF PathsOf
<1>3. Exclusive
  BY <1>2 DEF Exclusive
<1>4. Covered /\ Unresolved
  BY DEF Init, Covered, Unresolved, Waits, At
<1>5. NoCircle
  BY CoordinatorAssumption DEF Init, NoCircle
<1> QED
  BY <1>1, <1>3, <1>4, <1>5 DEF PInv

(* A step that leaves the locks alone, moves one operation and keeps what is *)
(* locked for it.                                                            *)
LEMMA SameLocks ==
  ASSUME PInv, NEW o \in Owners, NEW r \in Operation,
         op' = [op EXCEPT ![o] = r], UNCHANGED held,
         TypeOK', NoCircle',
         r.pc # "idle" => r.paths # <<>>,
         r.pc = "resolve" => Len(r.targets) < Len(r.paths),
         r.pc \in {"resolve", "work"} =>
           Elements(r.paths) \union Elements(r.targets) \subseteq PathsOf(o),
         r.pc \in {"lock", "wait", "woken"} =>
           Elements(r.paths) \union Elements(r.targets) \subseteq PathsOf(o) \union r.want
  PROVE  PInv'
<1>1. \A x \in Owners: PathsOf(x)' = PathsOf(x)
  BY DEF PathsOf, Elements
<1>2. op'[o] = r /\ \A x \in Owners \ {o}: op'[x] = op[x]
  BY DEF PInv, TypeOK
<1>3. Exclusive'
  BY <1>1 DEF PInv, Exclusive
<1>4. Covered'
  <2> SUFFICES ASSUME NEW x \in Owners
               PROVE  LET names == Elements(op'[x].paths) \union Elements(op'[x].targets)
                      IN /\ op'[x].pc \in {"resolve", "work"} => names \subseteq PathsOf(x)'
                         /\ op'[x].pc \in {"lock", "wait", "woken"} =>
                              names \subseteq PathsOf(x)' \union op'[x].want
    BY DEF Covered, At, Waits
  <2>1. CASE x = o
    BY <2>1, <1>1, <1>2
  <2>2. CASE x # o
    BY <2>2, <1>1, <1>2 DEF PInv, Covered, At, Waits
  <2> QED
    BY <2>1, <2>2
<1>5. Unresolved'
  BY <1>2 DEF PInv, Unresolved, At
<1> QED
  BY <1>3, <1>4, <1>5 DEF PInv

(* An operation that begins has nothing locked yet. *)
LEMMA BeginKeeps == ASSUME PInv, NEW o \in Owners, Begin(o) PROVE PInv'
<1>1. PICK r \in Requests:
        op' = [op EXCEPT ![o] = [pc |-> "lock", paths |-> r, targets |-> <<>>,
                                 want |-> Elements(r)]]
  BY DEF Begin
<1> DEFINE to == [pc |-> "lock", paths |-> r, targets |-> <<>>, want |-> Elements(r)]
<1>2. r \in Seq(Paths) /\ r # <<>>
  BY CoordinatorAssumption
<1>3. Elements(r) \subseteq Paths /\ Elements(<<>>) = {}
  BY <1>2 DEF Elements
<1>4. to \in Operation
  BY <1>2, <1>3 DEF Operation
<1>5. Len(to.targets) <= Len(to.paths)
  BY <1>2
<1>6. TypeOK'
  BY <1>1, <1>4, <1>5 DEF PInv, TypeOK, Begin
<1>7. NoCircle'
  BY DEF PInv, NoCircle, Begin
<1> QED
  BY <1>1, <1>2, <1>3, <1>4, <1>6, <1>7, SameLocks DEF Begin

(* Refuse, Finish and Return only move the operation on. *)
LEMMA MovesKeep ==
  ASSUME PInv, NEW o \in Owners, Refuse(o) \/ Finish(o) \/ Return(o) PROVE PInv'
<1>1. PICK pc \in {"leave", "done"}: op' = [op EXCEPT ![o].pc = pc]
  BY DEF Refuse, Finish, Return
<1> DEFINE to == [op[o] EXCEPT !.pc = pc]
<1>2. op[o] \in Operation /\ op[o].pc # "idle"
  BY DEF PInv, TypeOK, Refuse, Finish, Return, Attempting, At
<1>3. /\ to \in Operation /\ to.pc = pc
      /\ to.paths = op[o].paths /\ to.targets = op[o].targets
  BY <1>2 DEF Operation
<1>4. op' = [op EXCEPT ![o] = to] /\ UNCHANGED <<held, waiting>>
  BY <1>1 DEF PInv, TypeOK, Refuse, Finish, Return
<1>5. TypeOK'
  BY <1>3, <1>4 DEF PInv, TypeOK
<1>6. NoCircle'
  BY <1>4 DEF PInv, NoCircle
<1>7. to.paths # <<>>
  BY <1>2, <1>3 DEF PInv, Unresolved
<1> HIDE DEF to
<1> QED
  BY <1>3, <1>4, <1>5, <1>6, <1>7, SameLocks

(* A handle waits only for one that does not wait for it. *)
LEMMA WaitKeeps == ASSUME PInv, NEW o \in Owners, Wait(o) PROVE PInv'
<1>1. PICK q \in Conflicting(o):
        ~LeadsTo(q, o) /\ waiting' = [waiting EXCEPT ![o] = q]
  BY DEF Wait
<1>2. q \in Owners
  BY DEF Conflicting
<1> DEFINE to == [op[o] EXCEPT !.pc = "wait"]
<1>3. op[o] \in Operation /\ op[o].pc \in {"lock", "woken"}
  BY DEF PInv, TypeOK, Wait, Attempting, At
<1>4. /\ to \in Operation /\ to.pc = "wait" /\ to.want = op[o].want
      /\ to.paths = op[o].paths /\ to.targets = op[o].targets
  BY <1>3 DEF Operation
<1>5. op' = [op EXCEPT ![o] = to] /\ UNCHANGED held
  BY DEF PInv, TypeOK, Wait
<1>6. TypeOK'
  BY <1>1, <1>2, <1>4, <1>5 DEF PInv, TypeOK
<1>7. NoCircle'
  BY <1>1, <1>2, NoNewCircle DEF PInv
<1>8. to.paths # <<>> /\ Elements(to.paths) \union Elements(to.targets)
                            \subseteq PathsOf(o) \union to.want
  BY <1>3, <1>4 DEF PInv, Unresolved, Covered, Waits
<1> HIDE DEF to
<1> QED
  BY <1>4, <1>5, <1>6, <1>7, <1>8, SameLocks

(* A handle whose deadline passes waits for nobody. *)
LEMMA TimeOutKeeps == ASSUME PInv, NEW o \in Owners, TimeOut(o) PROVE PInv'
<1> DEFINE to == [op[o] EXCEPT !.pc = "leave"]
<1>1. op[o] \in Operation /\ op[o].pc \in {"wait", "woken"}
  BY DEF PInv, TypeOK, TimeOut, At
<1>2. /\ to \in Operation /\ to.pc = "leave"
      /\ to.paths = op[o].paths /\ to.targets = op[o].targets
  BY <1>1 DEF Operation
<1>3. op' = [op EXCEPT ![o] = to] /\ UNCHANGED held
  BY DEF PInv, TypeOK, TimeOut
<1>4. TypeOK'
  BY <1>2, <1>3 DEF PInv, TypeOK, TimeOut
<1>5. NoCircle'
  BY FewerEdges DEF PInv, TimeOut
<1>6. to.paths # <<>>
  BY <1>1, <1>2 DEF PInv, Unresolved
<1> HIDE DEF to
<1> QED
  BY <1>2, <1>3, <1>4, <1>5, <1>6, SameLocks
(* A path that resolves to itself was locked with the request. *)
LEMMA ResolveKeeps == ASSUME PInv, NEW o \in Owners, Resolve(o) PROVE PInv'
<1> DEFINE path == op[o].paths[Len(op[o].targets) + 1]
<1>1. PICK t \in Targets[path]:
        LET found == Append(op[o].targets, t)
        IN op' = [op EXCEPT ![o] =
             [pc |-> IF t = path THEN AfterLock(found, op[o].paths) ELSE "lock",
              paths |-> op[o].paths, targets |-> found, want |-> {t}]]
  BY DEF Resolve, PInv, TypeOK
<1> DEFINE found == Append(op[o].targets, t)
           to == [pc |-> IF t = path THEN AfterLock(found, op[o].paths) ELSE "lock",
                  paths |-> op[o].paths, targets |-> found, want |-> {t}]
<1>2. /\ op[o] \in Operation /\ op[o].pc = "resolve"
      /\ op[o].paths \in Seq(Paths) /\ op[o].targets \in Seq(Paths)
      /\ Len(op[o].targets) < Len(op[o].paths)
  BY DEF PInv, TypeOK, Unresolved, Resolve, At, Operation
<1>3. path \in Paths /\ path \in Elements(op[o].paths)
  BY <1>2 DEF Elements
<1>4. t \in Paths
  BY <1>3, CoordinatorAssumption
<1>5. /\ found \in Seq(Paths) /\ Elements(found) = Elements(op[o].targets) \union {t}
      /\ Len(found) = Len(op[o].targets) + 1
  BY <1>2, <1>4, ElementsAppend
<1>6. to \in Operation
  BY <1>2, <1>4, <1>5 DEF Operation, AfterLock
<1>7. op' = [op EXCEPT ![o] = to]
  BY <1>1
<1>8. Len(to.targets) <= Len(to.paths)
  BY <1>2, <1>5
<1>9. TypeOK'
  BY <1>6, <1>7, <1>8 DEF PInv, TypeOK, Resolve
<1>10. NoCircle' /\ UNCHANGED held
  BY DEF PInv, NoCircle, Resolve
<1>11. Elements(op[o].paths) \union Elements(op[o].targets) \subseteq PathsOf(o)
  BY <1>2 DEF PInv, Covered, At
<1>12. to.pc = "resolve" => Len(to.targets) < Len(to.paths)
  BY <1>2, <1>5 DEF AfterLock
<1>13. to.pc \in {"resolve", "work"} =>
         Elements(to.paths) \union Elements(to.targets) \subseteq PathsOf(o)
  BY <1>3, <1>5, <1>11
<1>14. to.paths # <<>>
       /\ Elements(to.paths) \union Elements(to.targets) \subseteq PathsOf(o) \union to.want
  BY <1>2, <1>5, <1>11
<1> HIDE DEF to
<1> QED
  BY <1>6, <1>7, <1>9, <1>10, <1>12, <1>13, <1>14, SameLocks

(* What Lock takes conflicts with nothing another handle has. *)
LEMMA AcquireKeeps == ASSUME PInv, NEW o \in Owners, Acquire(o) PROVE PInv'
<1>1. /\ op[o] \in Operation /\ op[o].pc \in {"lock", "woken"}
      /\ op[o].want \subseteq Paths
      /\ op[o].paths # <<>> /\ Len(op[o].targets) <= Len(op[o].paths)
      /\ op[o].paths \in Seq(Paths) /\ op[o].targets \in Seq(Paths)
      /\ held[o] \in Seq(SUBSET Paths)
  BY DEF PInv, TypeOK, Unresolved, Acquire, Attempting, At, Operation
<1> DEFINE pc == IF op[o].targets = <<>> THEN "resolve"
                 ELSE AfterLock(op[o].targets, op[o].paths)
<1>2. pc \in {"resolve", "work"}
  BY DEF AfterLock
<1>3. pc = "resolve" => Len(op[o].targets) < Len(op[o].paths)
  BY <1>1 DEF AfterLock
<1>4. op' = [op EXCEPT ![o].pc = pc]
  BY DEF Acquire
<1> HIDE DEF pc
<1>5. /\ op'[o].pc = pc /\ op'[o].paths = op[o].paths
      /\ op'[o].targets = op[o].targets
      /\ op'[o] \in Operation /\ op' \in [Owners -> Operation]
      /\ \A x \in Owners \ {o}: op'[x] = op[x]
  BY <1>1, <1>2, <1>4 DEF PInv, TypeOK, Operation
<1>6. /\ Append(held[o], op[o].want) \in Seq(SUBSET Paths)
      /\ Elements(Append(held[o], op[o].want)) = Elements(held[o]) \union {op[o].want}
  BY <1>1, ElementsAppend
<1>7. /\ held' \in [Owners -> Seq(SUBSET Paths)]
      /\ held'[o] = Append(held[o], op[o].want)
      /\ \A x \in Owners \ {o}: held'[x] = held[x]
  BY <1>6 DEF PInv, TypeOK, Acquire
<1>8. /\ PathsOf(o)' = PathsOf(o) \union op[o].want
      /\ \A x \in Owners \ {o}: PathsOf(x)' = PathsOf(x)
  <2>1. PathsOf(o)' = UNION (Elements(held[o]) \union {op[o].want})
    BY <1>6, <1>7 DEF PathsOf
  <2>2. \A x \in Owners \ {o}: PathsOf(x)' = PathsOf(x)
    BY <1>7 DEF PathsOf
  <2> QED
    BY <2>1, <2>2 DEF PathsOf
<1>9. TypeOK'
  BY <1>1, <1>5, <1>7 DEF PInv, TypeOK, Acquire
<1>10. NoCircle'
  BY FewerEdges DEF PInv, Acquire
<1>11. \A q \in Owners \ {o}: \A p \in op[o].want, r \in PathsOf(q): ~PathsConflict(p, r)
  BY DEF Acquire, Conflicting
<1>12. \A p, r: PathsConflict(p, r) <=> PathsConflict(r, p)
  BY DEF PathsConflict
<1>13. Exclusive'
  <2> SUFFICES ASSUME NEW a \in Owners, NEW b \in Owners, a # b,
                      NEW p \in PathsOf(a)', NEW q \in PathsOf(b)'
               PROVE  ~PathsConflict(p, q)
    BY DEF Exclusive, PathsConflict, Under
  <2>1. CASE a = o
    BY <2>1, <1>8, <1>11 DEF PInv, Exclusive
  <2>2. CASE b = o
    BY <2>2, <1>8, <1>11, <1>12 DEF PInv, Exclusive
  <2>3. CASE a # o /\ b # o
    BY <2>3, <1>8 DEF PInv, Exclusive
  <2> QED
    BY <2>1, <2>2, <2>3
<1>14. Elements(op[o].paths) \union Elements(op[o].targets) \subseteq PathsOf(o) \union op[o].want
  BY <1>1 DEF PInv, Covered, Waits
<1>15. Covered'
  <2> SUFFICES ASSUME NEW x \in Owners
               PROVE  LET names == Elements(op'[x].paths) \union Elements(op'[x].targets)
                      IN /\ op'[x].pc \in {"resolve", "work"} => names \subseteq PathsOf(x)'
                         /\ op'[x].pc \in {"lock", "wait", "woken"} =>
                              names \subseteq PathsOf(x)' \union op'[x].want
    BY DEF Covered, At, Waits
  <2>1. CASE x = o
    BY <2>1, <1>2, <1>5, <1>8, <1>14
  <2>2. CASE x # o
    BY <2>2, <1>5, <1>8 DEF PInv, Covered, At, Waits
  <2> QED
    BY <2>1, <2>2
<1>16. Unresolved'
  BY <1>1, <1>3, <1>5 DEF PInv, Unresolved, At
<1> QED
  BY <1>9, <1>10, <1>13, <1>15, <1>16 DEF PInv
(* An operation that unlocks has stopped working. *)
LEMMA UnlockKeeps == ASSUME PInv, NEW o \in Owners, Unlock(o) PROVE PInv'
<1>1. /\ held[o] \in Seq(SUBSET Paths) /\ held[o] # <<>>
      /\ op[o] \in Operation /\ op[o].pc = "leave"
  BY DEF PInv, TypeOK, Unlock, At
<1>2. /\ SubSeq(held[o], 1, Len(held[o]) - 1) \in Seq(SUBSET Paths)
      /\ Elements(SubSeq(held[o], 1, Len(held[o]) - 1)) \subseteq Elements(held[o])
  BY <1>1, ElementsFront
<1>3. /\ held' \in [Owners -> Seq(SUBSET Paths)]
      /\ held'[o] = SubSeq(held[o], 1, Len(held[o]) - 1)
      /\ \A x \in Owners \ {o}: held'[x] = held[x]
  BY <1>2 DEF PInv, TypeOK, Unlock
<1>4. /\ \A x \in Owners: PathsOf(x)' \subseteq PathsOf(x)
      /\ \A x \in Owners \ {o}: PathsOf(x)' = PathsOf(x)
  BY <1>2, <1>3 DEF PathsOf
<1>5. \A x \in Owners:
        /\ op'[x] \in Operation
        /\ op'[x].paths = op[x].paths /\ op'[x].targets = op[x].targets
        /\ op'[x].want = op[x].want
        /\ op'[x].pc = IF op[x].pc = "wait" THEN "woken" ELSE op[x].pc
  BY DEF PInv, TypeOK, Unlock, Woken, At, Operation
<1>6. op' \in [Owners -> Operation]
  BY <1>5 DEF Unlock, Woken
<1>7. TypeOK'
  BY <1>3, <1>5, <1>6 DEF PInv, TypeOK, Unlock
<1>8. Exclusive'
  BY <1>4 DEF PInv, Exclusive
<1>9. Covered'
  <2> SUFFICES ASSUME NEW x \in Owners
               PROVE  LET names == Elements(op'[x].paths) \union Elements(op'[x].targets)
                      IN /\ op'[x].pc \in {"resolve", "work"} => names \subseteq PathsOf(x)'
                         /\ op'[x].pc \in {"lock", "wait", "woken"} =>
                              names \subseteq PathsOf(x)' \union op'[x].want
    BY DEF Covered, At, Waits
  <2>1. CASE x = o
    BY <2>1, <1>1, <1>5
  <2>2. CASE x # o
    BY <2>2, <1>4, <1>5 DEF PInv, Covered, At, Waits
  <2> QED
    BY <2>1, <2>2
<1>10. Unresolved'
  BY <1>5 DEF PInv, Unresolved, At
<1>11. NoCircle'
  BY DEF PInv, NoCircle, Unlock
<1> QED
  BY <1>7, <1>8, <1>9, <1>10, <1>11 DEF PInv

(* Stuttering changes nothing. *)
LEMMA StutterKeeps == ASSUME PInv, UNCHANGED vars PROVE PInv'
<1>1. TypeOK' /\ NoCircle'
  BY DEF PInv, TypeOK, NoCircle, vars
<1>2. \A x \in Owners: PathsOf(x)' = PathsOf(x)
  BY DEF PathsOf, vars
<1>3. Exclusive'
  BY <1>2 DEF PInv, Exclusive
<1>4. Covered' /\ Unresolved'
  BY <1>2 DEF PInv, Covered, Unresolved, Waits, At, vars
<1> QED
  BY <1>1, <1>3, <1>4 DEF PInv

-----------------------------------------------------------------------------
(* The invariant is one: locks are exclusive, every operation that works has *)
(* locked what it was asked for and what that resolved to, and the chain of  *)
(* waiting handles has no circle.                                            *)
THEOREM CoordinatorInvariant == Spec => []PInv
<1>1. PInv /\ [Next]_vars => PInv'
  <2> SUFFICES ASSUME PInv, [Next]_vars PROVE PInv'
    OBVIOUS
  <2>1. ASSUME NEW o \in Owners, Begin(o) PROVE PInv'
    BY <2>1, BeginKeeps
  <2>2. ASSUME NEW o \in Owners, Acquire(o) PROVE PInv'
    BY <2>2, AcquireKeeps
  <2>3. ASSUME NEW o \in Owners, Refuse(o) \/ Finish(o) \/ Return(o) PROVE PInv'
    BY <2>3, MovesKeep
  <2>4. ASSUME NEW o \in Owners, Wait(o) PROVE PInv'
    BY <2>4, WaitKeeps
  <2>5. ASSUME NEW o \in Owners, TimeOut(o) PROVE PInv'
    BY <2>5, TimeOutKeeps
  <2>6. ASSUME NEW o \in Owners, Resolve(o) PROVE PInv'
    BY <2>6, ResolveKeeps
  <2>7. ASSUME NEW o \in Owners, Unlock(o) PROVE PInv'
    BY <2>7, UnlockKeeps
  <2>8. ASSUME UNCHANGED vars PROVE PInv'
    BY <2>8, StutterKeeps
  <2> QED
    BY <2>1, <2>2, <2>3, <2>4, <2>5, <2>6, <2>7, <2>8 DEF Next, Work, Lock
<1> QED
  BY <1>1, InitPInv, PTL DEF Spec

(* Every operation and every lock has its type (Lock, resolveTargetInParent). *)
THEOREM CoordinatorTypes == Spec => []TypeOK
<1>1. PInv => TypeOK
  BY DEF PInv
<1> QED
  BY <1>1, CoordinatorInvariant, PTL

(* Conflicting writes, creations, removals and renames of one host never     *)
(* work at the same time, whatever links their paths went through.           *)
THEOREM ConflictingWorkIsSerialized == Spec => []Serialized
<1>1. PInv => Serialized
  BY DEF PInv, Exclusive, Covered, Serialized, At
<1> QED
  BY <1>1, CoordinatorInvariant, PTL

(* The loop of checkDeadlockLocked ends, whoever runs it. *)
THEOREM WaitingHasNoCircle == Spec => []NoCircle
<1>1. PInv => NoCircle
  BY DEF PInv
<1> QED
  BY <1>1, CoordinatorInvariant, PTL
=============================================================================
