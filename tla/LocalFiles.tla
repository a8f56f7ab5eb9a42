------------------------------ MODULE LocalFiles ------------------------------
(***************************************************************************)
(* The file service of the host the hub runs on (files/service.go), with   *)
(* the roots that confine it (files/guard.go, files/confine.go) and the    *)
(* pinned descriptor of a write (files/metadata.go), while programs the    *)
(* hub knows nothing of use the same file system and the hub may stop.     *)
(*                                                                         *)
(* A request is authorized on a path and acts afterwards, in system calls  *)
(* that walk that path again; whatever happens in between is the subject.  *)
(* A place is the path of a directory, known by the directory that was     *)
(* there first; where[p] is the directory it leads to now.  A name in a    *)
(* directory refers to an inode, which is a file, a directory, or a link   *)
(* to a name elsewhere.  Inode numbers are used again as soon as nothing   *)
(* refers to them, as file systems do.  A modification time stands for the *)
(* version of a file: no two changes have the same.                        *)
(***************************************************************************)
EXTENDS Naturals, FiniteSets

CONSTANTS
  Reqs,        \* requests; a name of each is that of its staging file
  Names,       \* names callers and other programs use
  Dirs,        \* directories
  First,       \* the name of the file each directory holds at first
  Roots,       \* configured roots
  NoRoot,      \* no root, or no directory
  Boundaries,  \* which root contains which directory: the configurations looked at
  Unchecked,         \* no observed time: a forced write
  Budget,      \* requests and changes by other programs, together (a bound)
  MaxInodes    \* inodes of the file system (a bound)

ASSUME LocalFilesAssumption ==
  /\ Names \intersect Reqs = {} /\ First \in Names
  /\ NoRoot \notin Roots \union Dirs \union Reqs
  /\ IsFiniteSet(Dirs) /\ Cardinality(Dirs) <= MaxInodes
  /\ IsFiniteSet(Reqs)
  /\ Boundaries \subseteq [Dirs -> Roots \union {NoRoot}]
  /\ Budget \in Nat /\ MaxInodes \in Nat

VARIABLES
  boundary,  \* RootSet.roots, as the root that contains each directory
  closed,    \* RootSet.closed
  where,     \* the directory each place leads to
  entry,     \* the inode of each name of each directory, 0 for none
  inode,
  staging,   \* Service.staging
  req,       \* the local variables of the requests
  edits      \* changes by other programs so far

fs   == <<where, entry, inode>>
vars == <<boundary, closed, fs, staging, req, edits>>

Entries == Names \union Reqs
Locations == Dirs \X Entries
Ids == 1..MaxInodes
Nowhere == <<NoRoot, First>>

(* born is what made the inode, and so says which one it is even if its      *)
(* number is used again; whole is FALSE for a staging file that has not got  *)
(* its whole body; a directory is empty or full.                             *)
NoInode == [kind |-> "none", born |-> NoRoot, changes |-> 0, whole |-> FALSE, to |-> Nowhere]
NewInode(kind, maker) == [NoInode EXCEPT !.kind = kind, !.born = maker, !.whole = TRUE]
NoTime == <<NoRoot, 0>>

NewReq ==
  [kind |-> "none", pc |-> "idle", loc |-> Nowhere, to |-> Nowhere, expected |-> Unchecked,
   may |-> FALSE, origin |-> 0, born |-> NoRoot, stage |-> 0, in |-> NoRoot,
   quiet |-> FALSE, file |-> 0, told |-> NoTime, served |-> NoTime, shown |-> {}]

(* Every directory holds a file, or nothing yet. *)
Number(d) == (CHOOSE number \in [Dirs -> 1..Cardinality(Dirs)]:
                \A e, g \in Dirs: e # g => number[e] # number[g])[d]

Init ==
  /\ boundary \in Boundaries /\ closed = FALSE
  /\ where = [p \in Dirs |-> p]
  /\ \E filled \in SUBSET Dirs:
       /\ entry = [d \in Dirs |-> [n \in Entries |->
                     IF n = First /\ d \in filled THEN Number(d) ELSE 0]]
       /\ inode = [i \in Ids |->
                     IF \E d \in filled: i = Number(d)
                     THEN NewInode("file", <<"initial", i>>) ELSE NoInode]
  /\ staging = {} /\ edits = 0
  /\ req = [r \in Reqs |-> NewReq]

-----------------------------------------------------------------------------
(* The file system. *)

IdOf(l) == entry[l[1]][l[2]]
Inode(i) == IF i = 0 THEN NoInode ELSE inode[i]
Kind(i) == Inode(i).kind
Born(i) == Inode(i).born
TimeOf(i) == <<Inode(i).born, Inode(i).changes>>
IsLink(l) == Kind(IdOf(l)) = "link"
Leads(l) == LET t == inode[IdOf(l)].to IN <<where[t[1]], t[2]>>

NamesOf(i) == {l \in Locations: IdOf(l) = i}

(* Pinned: a descriptor keeps an inode although it has no name left. *)
Pinned(q) == {q[r].origin: r \in Reqs} \union {q[r].stage: r \in Reqs}
               \union {q[r].file: r \in Reqs}

Collected(i, e, q) ==
  LET used == {e[d][n]: d \in Dirs, n \in Entries} \union Pinned(q)
  IN [k \in Ids |-> IF k \in used THEN i[k] ELSE NoInode]

FreeIds == {i \in Ids: inode[i] = NoInode}
Full == FreeIds = {}
Fresh == CHOOSE i \in FreeIds: TRUE

Set(l, i) == [entry EXCEPT ![l[1]][l[2]] = i]

(* Somebody changes the file system: a check that another request has just   *)
(* made and is about to act on is not worth anything any more.               *)
Disturbed(q, r) == [s \in Reqs |-> IF s = r THEN q[s] ELSE [q[s] EXCEPT !.quiet = FALSE]]

(* The names are those of e, the inodes those of i, the requests those of q. *)
Perform(e, i, q) ==
  /\ entry' = e /\ inode' = Collected(i, e, q) /\ req' = q

-----------------------------------------------------------------------------
(* The boundary. *)

Restricted == \E d \in Dirs: boundary[d] # NoRoot
Within(d) == Restricted => boundary[d] # NoRoot

(* Every syscall of a hub with roots is refused once they are closed. *)
LetGo == Restricted /\ closed

(* canonicalize: a link whose target is gone is the entry itself. *)
Canonical(p) ==
  LET l == <<where[p[1]], p[2]>>
  IN IF IsLink(l) /\ Kind(IdOf(Leads(l))) # "none" THEN Leads(l) ELSE l

(* Mutant of Reached: a syscall on the plain path. *)
ReachedPlainly(d) == IF LetGo THEN NoRoot ELSE where[d]

(* The directory a syscall on a canonical path works in: it walks the path   *)
(* again, through the handle of the root if there is one, which refuses to   *)
(* leave it; so does a link at its end.                                      *)
Reached(d) ==
  IF Restricted /\ (closed \/ boundary[where[d]] # boundary[d]) THEN NoRoot ELSE where[d]

Entry(l) == <<Reached(l[1]), l[2]>>
Lstat(l) == IF Reached(l[1]) = NoRoot THEN 0 ELSE IdOf(Entry(l))

Stat(l) ==
  IF Kind(Lstat(l)) # "link" THEN Lstat(l)
  ELSE LET t == Leads(Entry(l))
       IN IF IsLink(t) \/ (Restricted /\ boundary[t[1]] # boundary[l[1]]) THEN 0 ELSE IdOf(t)

-----------------------------------------------------------------------------
(* Requests. *)

At(r, pc) == req[r].pc = pc
Spent == Cardinality({r \in Reqs: ~At(r, "idle")}) + edits + IF closed THEN 1 ELSE 0
InBudget == Spent < Budget
Over(r) == req[r].pc = "done"

(* What a request that is over leaves to speak of. *)
Ended(q) == [NewReq EXCEPT !.pc = "done", !.shown = q.shown, !.told = q.told, !.served = q.served]

(* A step that changes nothing but the request. *)
Becomes(r, q) ==
  /\ Perform(entry, inode, [req EXCEPT ![r] = q])
  /\ UNCHANGED <<boundary, closed, where, staging, edits>>

Return(r) == Becomes(r, Ended(req[r]))

(* Resolve, then Confine. *)
Authorized(l) == Within(l[1]) /\ ~closed
Resolves(p) == Authorized(Canonical(p)) /\ ~(IsLink(Canonical(p)) /\ IsLink(Leads(Canonical(p))))

(* What a caller may name.  entryTarget resolves the directory only.  *)
Paths == Dirs \X Names
EntryTarget(p) == <<where[p[1]], p[2]>>

(* The request is authorized, or over. *)
Accept(r, kind, ok, q) ==
  Becomes(r, IF ok THEN [q EXCEPT !.kind = kind, !.pc = "begun"]
             ELSE Ended(NewReq))

BeginWrite(r) ==
  /\ At(r, "idle") /\ InBudget
  /\ \E p \in Paths, may \in BOOLEAN:
     \E seen \in {Unchecked} \union {TimeOf(i): i \in {IdOf(Canonical(p))} \ {0}}:
       Accept(r, "write", Resolves(p),
              [NewReq EXCEPT !.loc = Canonical(p), !.expected = seen, !.may = may])

BeginCreate(r) ==
  /\ At(r, "idle") /\ InBudget
  /\ \E p \in Paths, isDir \in BOOLEAN:
       Accept(r, "create", Resolves(p), [NewReq EXCEPT !.loc = Canonical(p), !.may = isDir])

BeginRename(r) ==
  /\ At(r, "idle") /\ InBudget
  /\ \E p, new \in Paths:
       Accept(r, "rename", Authorized(EntryTarget(p)) /\ Authorized(EntryTarget(new)),
              [NewReq EXCEPT !.loc = EntryTarget(p), !.to = EntryTarget(new)])

BeginDelete(r) ==
  /\ At(r, "idle") /\ InBudget
  /\ \E p \in Paths, recursive \in BOOLEAN:
       Accept(r, "delete", Authorized(EntryTarget(p)),
              [NewReq EXCEPT !.loc = EntryTarget(p), !.may = recursive])

BeginRead(r) ==
  /\ At(r, "idle") /\ InBudget
  /\ \E p \in Paths:
       Accept(r, "read", Resolves(p) /\ IdOf(Canonical(p)) # 0,
              [NewReq EXCEPT !.loc = Canonical(p)])

BeginList(r) ==
  /\ At(r, "idle") /\ InBudget
  /\ \E p \in Dirs:
       Accept(r, "list", Authorized(<<where[p], First>>),
              [NewReq EXCEPT !.loc = <<where[p], First>>])

Begun(r, kind) == At(r, "begun") /\ req[r].kind = kind

-----------------------------------------------------------------------------
(* Write. *)

(* linkedError: a replacement loses the other names. *)
HasOtherNames(r, i) == ~req[r].may /\ \E l, m \in NamesOf(i): l # m

(* writeTarget: the target is pinned, if the name is not free, and may be    *)
(* refused before a byte is transferred.                                     *)
WriteTarget(r) ==
  /\ Begun(r, "write")
  /\ LET i == Lstat(req[r].loc)
         seen == req[r].expected
     IN IF \/ LetGo \/ Kind(i) \in {"link", "dir", "full"}
           \/ i = 0 /\ seen # Unchecked
           \/ i # 0 /\ (seen \notin {Unchecked, TimeOf(i)} \/ HasOtherNames(r, i))
        THEN Return(r)
        ELSE Becomes(r, [req[r] EXCEPT !.pc = "stage", !.origin = i, !.born = Born(i)])

(* createStaged holds stagingMu while it creates the file and marks it. *)
StagingLocked == \E r \in Reqs: At(r, "mark")

CreateStaged(r) ==
  /\ At(r, "stage") /\ ~StagingLocked
  /\ LET d == Reached(req[r].loc[1])
     IN IF d = NoRoot \/ Full THEN Return(r)
        ELSE /\ Perform(Set(<<d, r>>, Fresh),
                        [inode EXCEPT ![Fresh] = [NewInode("file", r) EXCEPT !.whole = FALSE]],
                        [req EXCEPT ![r].pc = "mark", ![r].stage = Fresh, ![r].in = d])
             /\ UNCHANGED <<boundary, closed, where, staging, edits>>

MarkStaged(r) ==
  /\ At(r, "mark")
  /\ staging' = staging \union {<<req[r].loc[1], r>>}
  /\ req' = [req EXCEPT ![r].pc = "copy"]
  /\ UNCHANGED <<boundary, closed, fs, edits>>

(* The write ends without having replaced anything. *)
Abandon(r) ==
  Becomes(r, [req[r] EXCEPT !.pc = "remove", !.stage = 0, !.quiet = FALSE])

(* copyBody: the body has the declared length, or not, or the caller leaves. *)
CopyBody(r) ==
  /\ At(r, "copy")
  /\ \/ Abandon(r)
     \/ /\ inode' = [inode EXCEPT ![req[r].stage].whole = TRUE]
        /\ req' = [req EXCEPT ![r].pc = "confirm"]
        /\ UNCHANGED <<boundary, closed, where, entry, staging, edits>>

(* confirmUnchanged *)
Unchanged(r) ==
  LET l == req[r].loc
      i == Stat(l)
  IN IF req[r].origin = 0 THEN ~LetGo /\ Lstat(l) = 0
     ELSE /\ i = req[r].origin
          /\ req[r].expected \in {Unchecked, TimeOf(i)}
          /\ ~HasOtherNames(r, i)

(* The first look, then the mode, the owner, Sync and Close. *)
Confirm(r) ==
  /\ At(r, "confirm")
  /\ \/ Unchanged(r) /\ Becomes(r, [req[r] EXCEPT !.pc = "verify", !.stage = 0])
     \/ Abandon(r)

(* Mutant of Verify: the first look is believed. *)
VerifyOnce(r) ==
  /\ At(r, "verify")
  /\ Becomes(r, [req[r] EXCEPT !.pc = "commit", !.quiet = TRUE])

Verify(r) ==
  /\ At(r, "verify")
  /\ IF Unchanged(r) THEN Becomes(r, [req[r] EXCEPT !.pc = "commit", !.quiet = TRUE])
     ELSE Abandon(r)

(* renameAt of the staging file; a second name of the same file would stay.  *)
Commit(r) ==
  /\ At(r, "commit")
  /\ LET l == Entry(req[r].loc)
         s == <<l[1], r>>
     IN IF l[1] = NoRoot \/ IdOf(s) = 0 \/ Kind(IdOf(l)) \in {"dir", "full"} THEN Abandon(r)
        ELSE /\ Perform([entry EXCEPT ![l[1]][l[2]] = IdOf(s), ![l[1]][r] = 0], inode,
                        Disturbed([req EXCEPT ![r].pc = "stamp", ![r].quiet = FALSE], r))
             /\ UNCHANGED <<boundary, closed, where, staging, edits>>

(* stampOf: the time the caller will expect. *)
StampOf(r) ==
  /\ At(r, "stamp")
  /\ Becomes(r, [req[r] EXCEPT !.pc = "unmark", !.told = TimeOf(Stat(req[r].loc))])

(* Mutant of RemoveStaged: the descriptors are checked, nothing is removed. *)
RemoveNot(r) ==
  /\ At(r, "remove")
  /\ Becomes(r, [req[r] EXCEPT !.pc = "unmark"])

(* The deferred calls: the staging file goes first, then its mark.           *)
RemoveStaged(r) ==
  /\ At(r, "remove")
  /\ LET d == Reached(req[r].loc[1])
     IN /\ Perform(IF d = NoRoot THEN entry ELSE Set(<<d, r>>, 0), inode,
                   [req EXCEPT ![r].pc = "unmark"])
        /\ UNCHANGED <<boundary, closed, where, staging, edits>>

UnmarkStaging(r) ==
  /\ At(r, "unmark") /\ ~StagingLocked
  /\ staging' = staging \ {<<req[r].loc[1], r>>}
  /\ Perform(entry, inode, [req EXCEPT ![r] = Ended(@)])
  /\ UNCHANGED <<boundary, closed, where, edits>>

Write(r) ==
  \/ BeginWrite(r) \/ WriteTarget(r) \/ CreateStaged(r) \/ MarkStaged(r) \/ CopyBody(r)
  \/ Confirm(r) \/ Verify(r) \/ Commit(r) \/ StampOf(r) \/ RemoveStaged(r) \/ UnmarkStaging(r)

-----------------------------------------------------------------------------
(* Create, Rename, Delete: a look, and then the change. *)

LookBeforeCreate(r) ==
  /\ Begun(r, "create")
  /\ IF Reached(req[r].loc[1]) = NoRoot \/ Lstat(req[r].loc) # 0 THEN Return(r)
     ELSE Becomes(r, [req[r] EXCEPT !.pc = "act", !.quiet = TRUE])

(* mkdir, or O_EXCL: neither takes a name that is not free. *)
Create(r) ==
  /\ At(r, "act") /\ req[r].kind = "create"
  /\ IF Reached(req[r].loc[1]) = NoRoot \/ Lstat(req[r].loc) # 0 \/ Full THEN Return(r)
     ELSE /\ Perform(Set(Entry(req[r].loc), Fresh),
                     [inode EXCEPT ![Fresh] = NewInode(IF req[r].may THEN "dir" ELSE "file", r)],
                     Disturbed([req EXCEPT ![r] = Ended(@)], r))
          /\ UNCHANGED <<boundary, closed, where, staging, edits>>

LookBeforeRename(r) ==
  /\ Begun(r, "rename")
  /\ IF LetGo \/ Lstat(req[r].to) # 0 THEN Return(r)
     ELSE Becomes(r, [req[r] EXCEPT !.pc = "act", !.quiet = TRUE])

(* renameAt: within one root; nothing happens between two names of a file.   *)
CanMove(i, j) ==
  /\ i # 0
  /\ IF Kind(i) \in {"dir", "full"} THEN Kind(j) \in {"none", "dir"}
     ELSE Kind(j) \notin {"dir", "full"}

Rename(r) ==
  /\ At(r, "act") /\ req[r].kind = "rename"
  /\ LET l == Entry(req[r].loc)
         t == Entry(req[r].to)
         e == [entry EXCEPT ![t[1]][t[2]] = IdOf(l), ![l[1]][l[2]] = 0]
     IN IF \/ boundary[req[r].loc[1]] # boundary[req[r].to[1]]
           \/ NoRoot \in {l[1], t[1]} \/ ~CanMove(IdOf(l), IdOf(t))
        THEN Return(r)
        ELSE /\ Perform(IF IdOf(l) = IdOf(t) THEN entry ELSE e, inode,
                        Disturbed([req EXCEPT ![r] = Ended(@)], r))
             /\ UNCHANGED <<boundary, closed, where, staging, edits>>

LookBeforeDelete(r) ==
  /\ Begun(r, "delete")
  /\ LET i == Lstat(req[r].loc)
     IN IF i = 0 \/ (Kind(i) = "full" /\ ~req[r].may) THEN Return(r)
        ELSE Becomes(r, [req[r] EXCEPT !.pc = "act", !.quiet = TRUE,
                         !.may = Kind(i) \in {"dir", "full"} /\ @])

(* removeAll if the entry was a directory and may go with what it holds,     *)
(* remove otherwise, which does not take a directory that is not empty.      *)
Delete(r) ==
  /\ At(r, "act") /\ req[r].kind = "delete"
  /\ LET i == Lstat(req[r].loc)
     IN IF \/ Reached(req[r].loc[1]) = NoRoot
           \/ ~req[r].may /\ Kind(i) \in {"none", "full"}
        THEN Return(r)
        ELSE /\ Perform(Set(Entry(req[r].loc), 0), inode,
                        Disturbed([req EXCEPT ![r] = Ended(@)], r))
             /\ UNCHANGED <<boundary, closed, where, staging, edits>>

Change(r) ==
  \/ BeginCreate(r) \/ LookBeforeCreate(r) \/ Create(r)
  \/ BeginRename(r) \/ LookBeforeRename(r) \/ Rename(r)
  \/ BeginDelete(r) \/ LookBeforeDelete(r) \/ Delete(r)

-----------------------------------------------------------------------------
(* Read and List. *)

(* What is told of the file comes from the descriptor that is served.        *)
OpenFile(r) ==
  /\ Begun(r, "read")
  /\ LET i == Stat(req[r].loc)
     IN IF Kind(i) # "file" THEN Return(r)
        ELSE Becomes(r, [req[r] EXCEPT !.pc = "serve", !.file = i, !.told = TimeOf(i)])

(* Mutant of ServeContent: the time is asked for after the content was read. *)
ServeThenStat(r) ==
  /\ At(r, "serve")
  /\ Becomes(r, [Ended(req[r]) EXCEPT !.served = req[r].told, !.told = TimeOf(req[r].file)])

ServeContent(r) ==
  /\ At(r, "serve")
  /\ Becomes(r, [Ended(req[r]) EXCEPT !.served = TimeOf(req[r].file)])

(* readListing reads the names first. *)
ReadNames(r) ==
  /\ Begun(r, "list")
  /\ LET d == Reached(req[r].loc[1])
     IN IF d = NoRoot THEN Return(r)
        ELSE Becomes(r, [req[r] EXCEPT !.pc = "skip", !.in = d,
                         !.shown = {n \in Entries: IdOf(<<d, n>>) # 0}])

(* And then asks of each whether this service is writing it.                 *)
SkipStaging(r) ==
  /\ At(r, "skip") /\ ~StagingLocked
  /\ LET hidden == {n \in req[r].shown: <<req[r].loc[1], n>> \in staging}
     IN Becomes(r, [Ended(req[r]) EXCEPT !.shown = @ \ hidden])

Look(r) ==
  \/ BeginRead(r) \/ OpenFile(r) \/ ServeContent(r)
  \/ BeginList(r) \/ ReadNames(r) \/ SkipStaging(r)

-----------------------------------------------------------------------------
(* Everybody else. *)

(* RootSet.Close, when the hub shuts down with requests in flight.           *)
Close ==
  /\ ~closed /\ InBudget /\ closed' = TRUE
  /\ UNCHANGED <<boundary, fs, staging, req, edits>>

(* Another program changes names and files. *)
Edit(e, i) ==
  /\ InBudget /\ edits' = edits + 1
  /\ Perform(e, i, Disturbed(req, NoRoot))
  /\ UNCHANGED <<boundary, closed, staging>>

Spots == Dirs \X Names
Free(l) == IdOf(l) = 0

NewNow(kind) == NewInode(kind, <<"edit", edits + 1>>)

EditInPlace == \E l \in Spots:
  /\ Kind(IdOf(l)) = "file" /\ UNCHANGED where
  /\ Edit(entry, [inode EXCEPT ![IdOf(l)].changes = @ + 1])

Fill == \E l \in Spots:
  /\ Kind(IdOf(l)) = "dir" /\ UNCHANGED where
  /\ Edit(entry, [inode EXCEPT ![IdOf(l)].kind = "full"])

Put == \E l \in Spots:
  /\ Kind(IdOf(l)) \in {"none", "file", "link"} /\ ~Full /\ UNCHANGED where
  /\ Edit(Set(l, Fresh), [inode EXCEPT ![Fresh] = NewNow("file")])

Take == \E l \in Spots:
  /\ ~Free(l) /\ UNCHANGED where
  /\ Edit(Set(l, 0), inode)

Move == \E l, t \in Spots:
  /\ ~Free(l) /\ Free(t) /\ UNCHANGED where
  /\ Edit([entry EXCEPT ![t[1]][t[2]] = IdOf(l), ![l[1]][l[2]] = 0], inode)

HardLink == \E l, t \in Spots:
  /\ Kind(IdOf(l)) = "file" /\ Free(t) /\ UNCHANGED where
  /\ Edit(Set(t, IdOf(l)), inode)

(* One symbolic link at a time (a bound). *)
PlantLink == \E l, t \in Spots:
  /\ Free(l) /\ l # t /\ ~Full /\ (\A i \in Ids: Kind(i) # "link") /\ UNCHANGED where
  /\ Edit(Set(l, Fresh), [inode EXCEPT ![Fresh] = [NewNow("link") EXCEPT !.to = t]])

(* A directory is moved away, and a link to another one put in its place.    *)
SwapDirectory == \E p, d \in Dirs:
  /\ p # d /\ \A o \in Dirs: where[o] = o
  /\ where' = [where EXCEPT ![p] = d]
  /\ Edit(entry, inode)

Others ==
  \/ Close
  \/ EditInPlace \/ Fill \/ Put \/ Take \/ Move \/ HardLink
  \/ PlantLink \/ SwapDirectory

Next == (\E r \in Reqs: Write(r) \/ Change(r) \/ Look(r)) \/ Others

Spec == Init /\ [][Next]_vars

-----------------------------------------------------------------------------
Makers == {NoRoot} \union Reqs \union ({"initial", "edit"} \X Nat)
Times == Makers \X Nat
InodeType ==
  [kind: {"none", "file", "dir", "full", "link"}, born: Makers, changes: Nat, whole: BOOLEAN,
   to: Spots \union {Nowhere}]
ReqType ==
  [kind: {"none", "write", "create", "rename", "delete", "read", "list"},
   pc: {"idle", "begun", "stage", "mark", "copy", "confirm", "verify", "commit", "stamp",
        "remove", "unmark", "act", "serve", "skip", "done"},
   loc: Spots \union {Nowhere}, to: Spots \union {Nowhere},
   expected: {Unchecked} \union Times, may: BOOLEAN, origin: 0..MaxInodes, born: Makers,
   stage: 0..MaxInodes, in: Dirs \union {NoRoot}, quiet: BOOLEAN, file: 0..MaxInodes,
   told: Times, served: Times, shown: SUBSET Entries]

(* Type invariant.  What a name or a descriptor refers to is there, and a    *)
(* request that was authorized has a place: no inode number in use is given  *)
(* away, and a link leads to a name.                                         *)
TypeOK ==
  /\ boundary \in Boundaries /\ closed \in BOOLEAN
  /\ where \in [Dirs -> Dirs]
  /\ entry \in [Dirs -> [Entries -> 0..MaxInodes]]
  /\ inode \in [Ids -> InodeType] /\ req \in [Reqs -> ReqType]
  /\ staging \subseteq Locations
  /\ edits \in 0..Budget
  /\ \A i \in Ids: Kind(i) = "link" => inode[i].to \in Spots
  /\ \A l \in Locations: IdOf(l) # 0 => Kind(IdOf(l)) # "none"
  /\ \A r \in Reqs:
       /\ \A i \in {req[r].origin, req[r].stage, req[r].file} \ {0}: Kind(i) = "file"
       /\ req[r].pc \notin {"idle", "done"} => req[r].loc \in Spots
       /\ req[r].kind = "rename" => req[r].to \in Spots

(* StaysInside: however directories are replaced by links between the        *)
(* authorization of a path and the system calls on it, a hub with roots      *)
(* changes, lists and opens only what is in the root it authorized (guard.go *)
(* Resolve, confine.go Confined).                                            *)
SameRoot(r, d) == boundary[d] # NoRoot /\ boundary[req[r].loc[1]] = boundary[d]

StaysInside ==
  [][ Restricted /\ edits' = edits =>
        /\ \A d \in Dirs: entry'[d] # entry[d] => \E r \in Reqs: req'[r] # req[r] /\ SameRoot(r, d)
        /\ \A r \in Reqs:
             /\ req'[r].in \notin {NoRoot, req[r].in} => SameRoot(r, req'[r].in)
             /\ req'[r].file \notin {0, req[r].file} =>
                  \E l \in NamesOf(req'[r].file): SameRoot(r, l[1]) ]_vars

(* The file a write began with, in the version it expects and with no name   *)
(* its caller was not told of.                                               *)
IsItsFile(r, i) ==
  /\ i # 0 /\ Born(i) = req[r].born
  /\ req[r].expected \in {Unchecked, TimeOf(i)}
  /\ ~HasOtherNames(r, i)

(* What confirmUnchanged takes for it, as it follows links.                  *)
TakesLinkToIt(r, l) == IsLink(l) /\ IsItsFile(r, Stat(req[r].loc))

(* NothingTakenUnseen: whatever a step of the hub takes from a name, it is   *)
(* the request's own staging file, or what a delete or a rename was asked to *)
(* take, a full directory only recursively, or the file a write began with;  *)
(* or a symbolic link somebody else put at the name after having moved that  *)
(* file away, if it still leads there, because confirmUnchanged follows      *)
(* links.  Only what somebody did after the last look of a write, or of a    *)
(* rename at its destination, may be taken unseen (confirmUnchanged, Rename, *)
(* Delete).                                                                  *)
Takes(r, l) ==
  \/ At(r, "act") /\ req[r].kind = "delete" /\ (Kind(IdOf(l)) = "full" => req[r].may)
  \/ At(r, "act") /\ req[r].kind = "rename" /\ (l = Entry(req[r].loc) \/ ~req[r].quiet)
  \/ /\ At(r, "commit")
     /\ l[2] = r \/ (req[r].quiet => IsItsFile(r, IdOf(l)) \/ TakesLinkToIt(r, l))
  \/ At(r, "remove") /\ l[2] = r

NothingTakenUnseen ==
  [][ edits' = edits =>
        \A l \in Locations:
          ~Free(l) /\ entry'[l[1]][l[2]] # IdOf(l) =>
            \E r \in Reqs: req'[r] # req[r] /\ Takes(r, l) ]_vars

(* EntryIsTheOneBegunWith: what a write replaces, if nobody did anything     *)
(* after its last look, is the very entry it began with, which the hub       *)
(* "SHALL re-check" (openspec/specs/file-manager/spec.md:187).  It does not  *)
(* hold: the re-check looks through a link that has taken the name.          *)
EntryIsTheOneBegunWith ==
  [][ \A r \in Reqs:
        At(r, "commit") /\ req[r].quiet /\ req'[r].pc = "stamp" =>
          LET l == Entry(req[r].loc) IN Free(l) \/ IsItsFile(r, IdOf(l)) ]_vars

(* StagesStayPrivate: no name but that of a staging file ever refers to a    *)
(* file that is not whole.  Of a write that is over neither a staging file   *)
(* is left nor its mark, unless the hub closed its roots or a directory was  *)
(* replaced meanwhile, and a listing shows no staging file of a write that   *)
(* is not over (writeAtomically, createStaged, unmarkStaging, isStaging).    *)
StagesStayPrivate ==
  /\ \A l \in Spots: ~Free(l) => Inode(IdOf(l)).whole
  /\ \A r \in Reqs: req[r].pc \in {"idle", "done"} =>
       /\ \A d \in Dirs: <<d, r>> \notin staging
       /\ LetGo \/ (\E p \in Dirs: where[p] # p) \/ \A d \in Dirs: Free(<<d, r>>)
  /\ \A r, w \in Reqs:
       Over(r) /\ w \in req[r].shown => Over(w) \/ \E p \in Dirs: where[p] # p

(* TimeNotNewer: the modification time told to a reader is not newer than    *)
(* what it was served, so that its next save cannot overwrite a version it   *)
(* has not seen (Read, serveFile).                                           *)
TimeNotNewer ==
  \A r \in Reqs: req[r].served # NoTime => req[r].told[2] <= req[r].served[2]
=============================================================================
