---------------------------- MODULE LocalFilesProofs ----------------------------
(***************************************************************************)
(* Proofs about LocalFiles for any number of requests, names, directories, *)
(* inodes and roots.  What a request holds on to -- its staging file and   *)
(* the mark of it, the inodes it has pinned, what it saw when it looked    *)
(* last -- is said for each place in the code; another actor keeps it, or  *)
(* has disturbed the request.                                              *)
(***************************************************************************)
EXTENDS LocalFiles, FiniteSetTheorems, FunctionTheorems, TLAPS

(* A directory was moved away and replaced by a link. *)
Swapped == \E p \in Dirs: where[p] # p

(* Between the creation of the staging file and the last deferred call. *)
Holding == {"mark", "copy", "confirm", "verify", "commit", "stamp", "remove", "unmark"}

(* Of request r with the local variables q: its staging file is in the       *)
(* directory it was created in, with its mark under the path the write was   *)
(* authorized on.                                                            *)
StagedIn(r, q) ==
  \A d \in Dirs: entry[d][r] # 0 =>
    \/ q.pc \in Holding \ {"stamp", "unmark"} /\ d = q.in
    \/ q.pc \in {"unmark", "done"} /\ (LetGo \/ Swapped)

MarkedAs(r, q) ==
  \A d \in Dirs: <<d, r>> \in staging <=> q.pc \in Holding \ {"mark"} /\ d = q.loc[1]

InPlace(q) == q.pc \in Holding => q.in \in Dirs /\ (Swapped \/ q.in = q.loc[1])

(* It is what the body is copied to, and then it is whole. *)
StagedWhole(r, q) ==
  \A d \in Dirs: entry[d][r] # 0 =>
    /\ q.pc \in {"mark", "copy"} => entry[d][r] = q.stage
    /\ q.pc \in {"confirm", "verify", "commit"} => inode[entry[d][r]].whole

(* confirmUnchanged, as Unchanged of the model. *)
Sees(q) ==
  LET i == Stat(q.loc)
  IN IF q.origin = 0 THEN ~LetGo /\ Lstat(q.loc) = 0
     ELSE /\ i = q.origin /\ q.expected \in {Unchecked, TimeOf(i)}
          /\ q.may \/ \A l, m \in NamesOf(i): l = m

(* What a request looked at last is as it was, unless it was disturbed. *)
Looked(q) ==
  /\ q.pc \in {"stage", "mark", "copy", "confirm", "verify", "commit"} => Born(q.origin) = q.born
  /\ q.pc = "commit" /\ q.quiet => LetGo \/ Sees(q)
  /\ q.pc = "act" /\ q.kind = "rename" /\ q.quiet => LetGo \/ Lstat(q.to) = 0

(* A reader is told of what it is served, or of something older. *)
Told(q) ==
  /\ q.pc # "done" => q.served = NoTime
  /\ q.pc = "serve" => q.file # 0 /\ q.told[2] <= inode[q.file].changes
  /\ q.served # NoTime => q.told[2] <= q.served[2]

(* A request acts where the roots allow it to. *)
Confined(q) ==
  q.pc \notin {"idle", "done"} =>
    /\ Within(q.loc[1])
    /\ q.kind = "rename" => Within(q.to[1])

RequestOK(r, q) ==
  /\ StagedIn(r, q) /\ MarkedAs(r, q) /\ InPlace(q) /\ StagedWhole(r, q)
  /\ Looked(q) /\ Told(q) /\ Confined(q)

(* A staging file, of w, that a listing has found is marked by now, or was   *)
(* left behind.                                                              *)
Hidden(q, w, p) ==
  w \in q.shown =>
    /\ q.pc \in {"skip", "done"}
    /\ q.pc = "skip" =>
         Swapped \/ p.pc = "done" \/ (p.pc \in Holding /\ p.loc[1] = q.loc[1])
    /\ q.pc = "done" => Swapped \/ p.pc = "done"

(* Only a staging file is ever incomplete. *)
WholeNames == \A l \in Spots: ~Free(l) => inode[IdOf(l)].whole

(* The inductive invariant. *)
LInv ==
  /\ TypeOK /\ WholeNames
  /\ \A r \in Reqs: RequestOK(r, req[r])
  /\ \A r, w \in Reqs: Hidden(req[r], w, req[w])

-----------------------------------------------------------------------------
(* What the assumptions and the types say. *)

(* Callers do not use the names of staging files, and 0 is no inode. *)
LEMMA Constant ==
  /\ Names \intersect Reqs = {} /\ First \in Names /\ Names \subseteq Entries /\ Reqs \subseteq Entries
  /\ NoRoot \notin Roots /\ NoRoot \notin Dirs /\ NoRoot \notin Reqs
  /\ Budget \in Nat /\ MaxInodes \in Nat /\ 0 \notin Ids /\ 0..MaxInodes = Ids \union {0}
  /\ Spots \subseteq Locations /\ Nowhere \notin Locations
  /\ \A l \in Locations: l[1] \in Dirs /\ l[2] \in Entries /\ l = <<l[1], l[2]>>
  /\ \A l \in Spots: l[1] \in Dirs /\ l[2] \in Names /\ l[2] \notin Reqs
<1>1. /\ Names \intersect Reqs = {} /\ First \in Names
      /\ NoRoot \notin Roots /\ NoRoot \notin Dirs /\ NoRoot \notin Reqs
      /\ Budget \in Nat /\ MaxInodes \in Nat
  BY LocalFilesAssumption DEF LocalFilesAssumption
<1>2. Names \subseteq Entries /\ Reqs \subseteq Entries
  BY DEF Entries
<1>3. 0 \notin Ids /\ 0..MaxInodes = Ids \union {0}
  BY <1>1 DEF Ids
<1>4. Spots \subseteq Locations
  BY <1>2 DEF Spots, Locations
<1>5. Nowhere \notin Locations
  BY <1>1 DEF Nowhere, Locations
<1>6. \A l \in Locations: l[1] \in Dirs /\ l[2] \in Entries /\ l = <<l[1], l[2]>>
  BY DEF Locations
<1>7. \A l \in Spots: l[1] \in Dirs /\ l[2] \in Names /\ l[2] \notin Reqs
  BY <1>1 DEF Spots
<1> QED BY <1>1, <1>2, <1>3, <1>4, <1>5, <1>6, <1>7

(* What the type invariant says of the file system. *)
LEMMA FileTypes ==
  ASSUME TypeOK
  PROVE  /\ \A d \in Dirs: where[d] \in Dirs
         /\ \A d \in Dirs, n \in Entries: entry[d][n] \in Ids \union {0}
         /\ \A l \in Locations: IdOf(l) \in Ids \union {0}
         /\ \A i \in Ids: /\ inode[i] \in InodeType /\ inode[i].changes \in Nat
                          /\ inode[i].born \in Makers /\ inode[i].whole \in BOOLEAN
         /\ NoInode \in InodeType
<1>1. \A d \in Dirs, n \in Entries: entry[d][n] \in Ids \union {0}
  BY Constant DEF TypeOK
<1>2. \A l \in Locations: IdOf(l) \in Ids \union {0}
  BY <1>1, Constant DEF IdOf
<1>3. \A i \in Ids: /\ inode[i] \in InodeType /\ inode[i].changes \in Nat
                    /\ inode[i].born \in Makers /\ inode[i].whole \in BOOLEAN
  BY DEF TypeOK, InodeType
<1>4. NoInode \in InodeType
  BY DEF NoInode, InodeType, Makers
<1> QED BY <1>1, <1>2, <1>3, <1>4 DEF TypeOK

(* What it says of a request. *)
LEMMA RequestTypes ==
  ASSUME NEW q \in ReqType
  PROVE  /\ q.origin \in Ids \union {0} /\ q.stage \in Ids \union {0} /\ q.file \in Ids \union {0}
         /\ q.told \in Times /\ q.served \in Times /\ q.told[2] \in Nat /\ q.served[2] \in Nat
         /\ q.loc \in Spots \union {Nowhere} /\ q.to \in Spots \union {Nowhere}
         /\ q.may \in BOOLEAN /\ q.quiet \in BOOLEAN /\ q.shown \subseteq Entries
         /\ q.in \in Dirs \union {NoRoot} /\ q.born \in Makers
<1>1. /\ q.origin \in 0..MaxInodes /\ q.stage \in 0..MaxInodes /\ q.file \in 0..MaxInodes
      /\ q.told \in Times /\ q.served \in Times
      /\ q.loc \in Spots \union {Nowhere} /\ q.to \in Spots \union {Nowhere}
      /\ q.may \in BOOLEAN /\ q.quiet \in BOOLEAN /\ q.shown \subseteq Entries
      /\ q.in \in Dirs \union {NoRoot} /\ q.born \in Makers
  BY DEF ReqType
<1>2. q.told[2] \in Nat /\ q.served[2] \in Nat
  BY <1>1 DEF Times
<1> QED BY <1>1, <1>2, Constant

(* An inode that is made has its kind and is whole. *)
LEMMA NewInodeType ==
  ASSUME NEW k \in {"file", "dir", "link"}, NEW m \in Makers
  PROVE  NewInode(k, m) \in InodeType /\ NewInode(k, m).kind = k /\ NewInode(k, m).whole
<1>1. NewInode(k, m) = [NoInode EXCEPT !.kind = k, !.born = m, !.whole = TRUE]
  BY DEF NewInode
<1>2. NewInode(k, m) = [kind |-> k, born |-> m, changes |-> 0, whole |-> TRUE, to |-> Nowhere]
  BY <1>1 DEF NoInode
<1>3. k \in {"none", "file", "dir", "full", "link"}
  OBVIOUS
<1> QED BY <1>2, <1>3 DEF InodeType

(* A number that is given away is nobody's. *)
LEMMA FreshId ==
  ASSUME TypeOK, ~Full
  PROVE  /\ Fresh \in Ids /\ Fresh # 0 /\ inode[Fresh] = NoInode
         /\ \A l \in Locations: IdOf(l) # Fresh
         /\ \A d \in Dirs, n \in Entries: entry[d][n] # Fresh
         /\ \A r \in Reqs: req[r].origin # Fresh /\ req[r].stage # Fresh /\ req[r].file # Fresh
<1>1. Fresh \in Ids /\ inode[Fresh] = NoInode
  BY DEF Full, Fresh, FreeIds
<1>2. Fresh # 0
  BY <1>1, Constant
<1>3. Kind(Fresh) = "none"
  BY <1>1, <1>2 DEF Kind, Inode, NoInode
<1>4. \A l \in Locations: IdOf(l) # Fresh
  BY <1>2, <1>3 DEF TypeOK
<1>5. ASSUME NEW d \in Dirs, NEW n \in Entries PROVE entry[d][n] # Fresh
  <2>1. <<d, n>> \in Locations
    BY DEF Locations
  <2> QED BY <2>1, <1>4 DEF IdOf
<1>6. \A r \in Reqs: req[r].origin # Fresh /\ req[r].stage # Fresh /\ req[r].file # Fresh
  BY <1>2, <1>3 DEF TypeOK
<1> QED BY <1>1, <1>2, <1>4, <1>5, <1>6

(* An inode that a name or a descriptor refers to is kept as it is.          *)
LEMMA CollectedKeeps ==
  ASSUME NEW i \in [Ids -> InodeType], NEW e, NEW q
  PROVE  /\ Collected(i, e, q) \in [Ids -> InodeType]
         /\ \A k \in Ids: Collected(i, e, q)[k] = i[k] \/ Collected(i, e, q)[k] = NoInode
         /\ \A d \in Dirs, n \in Entries: e[d][n] \in Ids => Collected(i, e, q)[e[d][n]] = i[e[d][n]]
         /\ \A r \in Reqs: \A k \in {q[r].origin, q[r].stage, q[r].file}:
              k \in Ids => Collected(i, e, q)[k] = i[k]
<1> DEFINE used == {e[d][n]: d \in Dirs, n \in Entries} \union Pinned(q)
           c == [k \in Ids |-> IF k \in used THEN i[k] ELSE NoInode]
<1>1. Collected(i, e, q) = c
  BY DEF Collected
<1>2. NoInode \in InodeType
  BY DEF NoInode, InodeType, Makers
<1>3. c \in [Ids -> InodeType]
  BY <1>2
<1>4. \A k \in Ids: c[k] = i[k] \/ c[k] = NoInode
  OBVIOUS
<1>5. \A k \in Ids: k \in used => c[k] = i[k]
  OBVIOUS
<1>6. \A d \in Dirs, n \in Entries: e[d][n] \in used
  OBVIOUS
<1>7. \A r \in Reqs: {q[r].origin, q[r].stage, q[r].file} \subseteq used
  BY DEF Pinned
<1> HIDE DEF c, used
<1> QED BY <1>1, <1>3, <1>4, <1>5, <1>6, <1>7

-----------------------------------------------------------------------------
(* What an actor leaves to everybody else. *)

(* The inode of a descriptor or a staging file is changed by nobody but its  *)
(* writer, or by a program that edits the file: it gets newer.               *)
KeepsInode(i) ==
  /\ inode'[i].born = inode[i].born /\ inode'[i].changes >= inode[i].changes
  /\ inode[i].kind = "file" => inode'[i].kind = "file"
  /\ inode[i].whole => inode'[i].whole

(* Nothing a look could see is changed. *)
Calm ==
  /\ where' = where
  /\ \A l \in Spots: entry'[l[1]][l[2]] = IdOf(l)
  /\ \A l \in Spots: IdOf(l) # 0 =>
       /\ inode'[IdOf(l)].kind = inode[IdOf(l)].kind /\ inode'[IdOf(l)].born = inode[IdOf(l)].born
       /\ inode'[IdOf(l)].changes = inode[IdOf(l)].changes /\ inode'[IdOf(l)].to = inode[IdOf(l)].to
       /\ \A m \in Locations: entry'[m[1]][m[2]] = IdOf(l) => IdOf(m) = IdOf(l)

(* A request that cannot rely on its last look any more. *)
Disquieted(p) == [p EXCEPT !.quiet = FALSE]

Spares(a) ==
  \A s \in Reqs \ {a}:
    /\ req'[s] = req[s] \/ req'[s] = Disquieted(req[s])
    /\ \A d \in Dirs: entry'[d][s] = entry[d][s] /\ (<<d, s>> \in staging' <=> <<d, s>> \in staging)
    /\ \A i \in {req[s].origin, req[s].stage, req[s].file}: i # 0 => KeepsInode(i)
    /\ \A d \in Dirs: entry[d][s] # 0 => KeepsInode(entry[d][s])
    /\ req'[s].quiet => Calm

Surroundings == boundary' = boundary /\ (closed => closed') /\ (where' = where \/ Swapped')

(* A closed root set stays closed, a replaced directory replaced. *)
LEMMA Irrevocable ==
  ASSUME TypeOK, TypeOK', Surroundings
  PROVE  /\ LetGo => LetGo'
         /\ Swapped => Swapped'
         /\ \A d \in Dirs: Within(d) => Within(d)'
         /\ ~LetGo' => ~LetGo /\ (Restricted => ~closed /\ ~closed')
<1>1. LetGo => LetGo'
  BY DEF Surroundings, LetGo, Restricted
<1>2. Swapped => Swapped'
  BY DEF Surroundings, Swapped
<1>3. \A d \in Dirs: Within(d) => Within(d)'
  BY DEF Surroundings, Within, Restricted
<1>4. ~LetGo' => ~LetGo /\ (Restricted => ~closed /\ ~closed')
  BY DEF Surroundings, LetGo, Restricted
<1> QED BY <1>1, <1>2, <1>3, <1>4

(* What is looked up is in a directory, and a name or nothing. *)
LEMMA LookedUp ==
  ASSUME TypeOK, NEW l \in Spots
  PROVE  /\ Reached(l[1]) \in Dirs \union {NoRoot}
         /\ Reached(l[1]) # NoRoot => Reached(l[1]) = where[l[1]] /\ Entry(l) \in Spots
         /\ Reached(l[1]) = NoRoot => Lstat(l) = 0
         /\ Reached(l[1]) # NoRoot => Lstat(l) = IdOf(Entry(l))
         /\ Lstat(l) \in Ids \union {0}
         /\ Kind(Lstat(l)) = "link" => Entry(l) \in Spots /\ Leads(Entry(l)) \in Spots
         /\ Stat(l) \in Ids \union {0}
         /\ Stat(l) # 0 => \E m \in Spots: IdOf(m) = Stat(l)
<1>1. l[1] \in Dirs /\ l[2] \in Names /\ where[l[1]] \in Dirs
  BY Constant, FileTypes
<1>2. Reached(l[1]) \in Dirs \union {NoRoot}
  BY <1>1 DEF Reached
<1>3. ASSUME Reached(l[1]) # NoRoot PROVE Reached(l[1]) = where[l[1]] /\ Entry(l) \in Spots
  BY <1>1, <1>3 DEF Reached, Entry, Spots
<1>4. Reached(l[1]) = NoRoot => Lstat(l) = 0
  BY DEF Lstat
<1>5. Reached(l[1]) # NoRoot => Lstat(l) = IdOf(Entry(l))
  BY DEF Lstat
<1>6. Lstat(l) \in Ids \union {0}
  BY <1>3, <1>4, <1>5, FileTypes, Constant
<1>7. ASSUME Kind(Lstat(l)) = "link" PROVE Entry(l) \in Spots /\ Leads(Entry(l)) \in Spots
  <2>1. Lstat(l) # 0
    BY <1>7 DEF Kind, Inode, NoInode
  <2>2. Lstat(l) = IdOf(Entry(l)) /\ Entry(l) \in Spots /\ Lstat(l) \in Ids
    BY <2>1, <1>3, <1>4, <1>5, <1>6
  <2>3. inode[Lstat(l)].to \in Spots
    BY <1>7, <2>2 DEF TypeOK
  <2>4. where[inode[Lstat(l)].to[1]] \in Dirs /\ inode[Lstat(l)].to[2] \in Names
    BY <2>3, Constant, FileTypes
  <2> QED BY <2>2, <2>4 DEF Leads, Spots
<1>8. Stat(l) = Lstat(l) \/ Stat(l) = 0 \/ (Kind(Lstat(l)) = "link" /\ Stat(l) = IdOf(Leads(Entry(l))))
  BY DEF Stat
<1>9. Stat(l) \in Ids \union {0}
  BY <1>6, <1>7, <1>8, FileTypes, Constant
<1>10. Stat(l) # 0 => \E m \in Spots: IdOf(m) = Stat(l)
  BY <1>3, <1>4, <1>5, <1>7, <1>8
<1> QED BY <1>2, <1>3, <1>4, <1>5, <1>6, <1>7, <1>9, <1>10

(* When nothing a look could see is changed, a look sees the same as before. *)
LEMMA CalmLooks ==
  ASSUME TypeOK, TypeOK', Surroundings, Calm, ~LetGo', NEW l \in Spots
  PROVE  /\ Lstat(l)' = Lstat(l) /\ Stat(l)' = Stat(l)
         /\ Stat(l) # 0 => TimeOf(Stat(l))' = TimeOf(Stat(l)) /\ NamesOf(Stat(l))' \subseteq NamesOf(Stat(l))
<1>1. l[1] \in Dirs /\ where' = where /\ boundary' = boundary
  BY Constant DEF Calm, Surroundings
<1>2. /\ ~LetGo /\ (Restricted => ~closed /\ ~closed') /\ Restricted' = Restricted
  BY <1>1, Irrevocable DEF Restricted
<1>3. Reached(l[1])' = Reached(l[1]) /\ Entry(l)' = Entry(l)
  BY <1>1, <1>2 DEF Reached, Entry
<1>4. \A m \in Spots: IdOf(m)' = IdOf(m)
  BY DEF Calm, IdOf
<1>5. Lstat(l)' = Lstat(l)
  BY <1>3, <1>4, LookedUp DEF Lstat
<1>6. \A m \in Spots: Kind(IdOf(m))' = Kind(IdOf(m))
  <2> SUFFICES ASSUME NEW m \in Spots PROVE Kind(IdOf(m))' = Kind(IdOf(m))
    OBVIOUS
  <2>1. IdOf(m)' = IdOf(m)
    BY <1>4
  <2>2. IdOf(m) # 0 => inode'[IdOf(m)].kind = inode[IdOf(m)].kind
    BY DEF Calm
  <2> QED BY <2>1, <2>2 DEF Kind, Inode
<1>7. Kind(Lstat(l))' = Kind(Lstat(l))
  <2>1. CASE Reached(l[1]) = NoRoot
    BY <1>3, <2>1 DEF Lstat, Kind, Inode
  <2>2. CASE Reached(l[1]) # NoRoot
    <3>1. Entry(l) \in Spots
      BY <2>2, LookedUp
    <3> QED BY <1>3, <1>6, <2>2, <3>1 DEF Lstat
  <2> QED BY <2>1, <2>2
<1>8. Stat(l)' = Stat(l)
  <2>1. CASE Kind(Lstat(l)) # "link"
    BY <1>5, <1>7, <2>1 DEF Stat
  <2>2. CASE Kind(Lstat(l)) = "link"
    <3> DEFINE e == Entry(l)
               t == Leads(Entry(l))
    <3>1. e \in Spots /\ t \in Spots
      BY <2>2, LookedUp
    <3>2. IdOf(e) # 0
      BY <2>2, LookedUp DEF Kind, Inode, NoInode, Lstat
    <3>3. t' = t
      <4>1. inode'[IdOf(e)].to = inode[IdOf(e)].to
        BY <3>1, <3>2 DEF Calm
      <4>2. IdOf(e)' = IdOf(e) /\ e' = e
        BY <3>1, <1>3, <1>4
      <4> QED BY <1>1, <4>1, <4>2 DEF Leads
    <3>4. IdOf(t)' = IdOf(t) /\ Kind(IdOf(t))' = Kind(IdOf(t))
      BY <3>1, <3>3, <1>4, <1>6
    <3> QED BY <1>1, <1>2, <1>7, <2>2, <3>3, <3>4 DEF Stat, IsLink
  <2> QED BY <2>1, <2>2
<1>9. ASSUME Stat(l) # 0
      PROVE  TimeOf(Stat(l))' = TimeOf(Stat(l)) /\ NamesOf(Stat(l))' \subseteq NamesOf(Stat(l))
  <2>1. PICK m \in Spots: IdOf(m) = Stat(l)
    BY <1>9, LookedUp
  <2>2. /\ inode'[IdOf(m)].born = inode[IdOf(m)].born
        /\ inode'[IdOf(m)].changes = inode[IdOf(m)].changes
        /\ \A k \in Locations: entry'[k[1]][k[2]] = IdOf(m) => IdOf(k) = IdOf(m)
    BY <1>9, <2>1 DEF Calm
  <2>3. TimeOf(Stat(l))' = TimeOf(Stat(l))
    BY <1>8, <1>9, <2>1, <2>2 DEF TimeOf, Inode
  <2>4. NamesOf(Stat(l))' \subseteq NamesOf(Stat(l))
    BY <1>8, <2>1, <2>2 DEF NamesOf, IdOf
  <2> QED BY <2>3, <2>4
<1> QED BY <1>5, <1>8, <1>9

(* Neither does confirmUnchanged then see anything else. *)
LEMMA CalmSees ==
  ASSUME TypeOK, TypeOK', Surroundings, Calm, ~LetGo', NEW q \in ReqType, q.loc \in Spots, Sees(q)
  PROVE  Sees(q)'
<1>1. /\ Lstat(q.loc)' = Lstat(q.loc) /\ Stat(q.loc)' = Stat(q.loc)
      /\ Stat(q.loc) # 0 =>
           /\ TimeOf(Stat(q.loc))' = TimeOf(Stat(q.loc))
           /\ NamesOf(Stat(q.loc))' \subseteq NamesOf(Stat(q.loc))
  BY CalmLooks
<1>2. CASE q.origin = 0
  BY <1>1, <1>2 DEF Sees
<1>3. CASE q.origin # 0
  <2>1. /\ Stat(q.loc) = q.origin /\ q.expected \in {Unchecked, TimeOf(Stat(q.loc))}
        /\ q.may \/ \A l, m \in NamesOf(Stat(q.loc)): l = m
    BY <1>3 DEF Sees
  <2>2. q.may \/ \A l, m \in NamesOf(Stat(q.loc))': l = m
    BY <1>1, <1>3, <2>1
  <2> QED BY <1>1, <1>3, <2>1, <2>2 DEF Sees
<1> QED BY <1>2, <1>3

-----------------------------------------------------------------------------
(* Everybody else is as well off as before. *)

(* The staging file of a request and its mark survive the steps of others. *)
LEMMA OthersStaged ==
  ASSUME LInv, TypeOK', Surroundings, NEW a, Spares(a), NEW s \in Reqs \ {a}
  PROVE  /\ StagedIn(s, req[s])' /\ MarkedAs(s, req[s])' /\ InPlace(req[s])'
         /\ StagedWhole(s, req[s])'
<1>1. /\ req'[s].pc = req[s].pc /\ req'[s].in = req[s].in /\ req'[s].loc = req[s].loc
      /\ req'[s].stage = req[s].stage
  BY DEF Spares, Disquieted, LInv, TypeOK, ReqType
<1>2. /\ \A d \in Dirs: entry'[d][s] = entry[d][s] /\ (<<d, s>> \in staging' <=> <<d, s>> \in staging)
      /\ \A d \in Dirs: entry[d][s] # 0 => KeepsInode(entry[d][s])
  BY DEF Spares
<1>3. (LetGo => LetGo') /\ (Swapped => Swapped')
  BY Irrevocable DEF LInv
<1>4. RequestOK(s, req[s])
  BY DEF LInv
<1>5. StagedIn(s, req[s])'
  BY <1>1, <1>2, <1>3, <1>4 DEF RequestOK, StagedIn
<1>6. MarkedAs(s, req[s])'
  BY <1>1, <1>2, <1>4 DEF RequestOK, MarkedAs
<1>7. InPlace(req[s])'
  BY <1>1, <1>3, <1>4 DEF RequestOK, InPlace
<1>8. StagedWhole(s, req[s])'
  BY <1>1, <1>2, <1>4 DEF RequestOK, StagedWhole, KeepsInode
<1> QED BY <1>5, <1>6, <1>7, <1>8

(* So does what it looked at last, or it is not quiet any more. *)
LEMMA OthersLooked ==
  ASSUME LInv, TypeOK', Surroundings, NEW a, Spares(a), NEW s \in Reqs \ {a}
  PROVE  Looked(req[s])'
<1>1. TypeOK /\ req[s] \in ReqType /\ Looked(req[s])
  BY DEF LInv, TypeOK, RequestOK
<1>2. /\ req'[s].pc = req[s].pc /\ req'[s].kind = req[s].kind /\ req'[s].loc = req[s].loc
      /\ req'[s].to = req[s].to /\ req'[s].origin = req[s].origin /\ req'[s].born = req[s].born
  BY <1>1 DEF Spares, Disquieted, ReqType
<1>3. req'[s].quiet => req'[s] = req[s] /\ Calm
  BY <1>1 DEF Spares, Disquieted, ReqType
<1>4. /\ req[s].loc \in Spots \/ req[s].pc \in {"idle", "done"}
      /\ req[s].kind = "rename" => req[s].to \in Spots
  BY <1>1 DEF TypeOK
<1>5. Born(req[s].origin)' = Born(req[s].origin)
  <2>1. req[s].origin # 0 => KeepsInode(req[s].origin)
    BY DEF Spares
  <2> QED BY <1>2, <2>1 DEF Born, Inode, KeepsInode
<1>6. LetGo => LetGo'
  BY <1>1, Irrevocable
<1>7. ASSUME req[s].pc = "commit", req'[s].quiet, ~LetGo' PROVE Sees(req[s])'
  <2>1. Sees(req[s]) /\ req[s].loc \in Spots /\ req'[s] = req[s] /\ Calm
    BY <1>1, <1>3, <1>4, <1>6, <1>7 DEF Looked
  <2> DEFINE q == req[s]
  <2> HIDE DEF q
  <2>2. q \in ReqType /\ q.loc \in Spots /\ Sees(q) /\ q = req[s]
    BY <1>1, <2>1 DEF q
  <2>3. ASSUME NEW p \in ReqType, p.loc \in Spots, Sees(p) PROVE Sees(p)'
    BY <1>1, <1>7, <2>1, <2>3, CalmSees
  <2>4. ASSUME NEW p, p = req'[s], Sees(p)' PROVE Sees(req[s])'
    BY <2>4 DEF Sees
  <2> QED BY <1>1, <2>1, <2>3, <2>4
<1>8. ASSUME req[s].pc = "act", req[s].kind = "rename", req'[s].quiet, ~LetGo'
      PROVE  Lstat(req[s].to)' = 0
  <2>1. /\ Lstat(req[s].to) = 0 /\ req[s].to \in Spots /\ req'[s] = req[s] /\ Calm
    BY <1>1, <1>3, <1>4, <1>6, <1>8 DEF Looked
  <2>2. ASSUME NEW l \in Spots PROVE Lstat(l)' = Lstat(l)
    BY <1>1, <1>8, <2>1, CalmLooks
  <2>3. ASSUME NEW l, l = req'[s].to PROVE Lstat(l)' = Lstat(req[s].to)'
    BY <2>3 DEF Lstat, Entry
  <2> QED BY <2>1, <2>2, <2>3
<1> QED BY <1>1, <1>2, <1>5, <1>7, <1>8 DEF Looked

(* All the invariant says of a request survives the steps of others. *)
LEMMA OthersOK ==
  ASSUME LInv, TypeOK', Surroundings, NEW a, Spares(a), NEW s \in Reqs \ {a}
  PROVE  RequestOK(s, req[s])'
<1>1. TypeOK /\ req[s] \in ReqType /\ Told(req[s]) /\ Confined(req[s])
  BY DEF LInv, TypeOK, RequestOK
<1>2. /\ req'[s].pc = req[s].pc /\ req'[s].kind = req[s].kind /\ req'[s].loc = req[s].loc
      /\ req'[s].to = req[s].to /\ req'[s].file = req[s].file /\ req'[s].told = req[s].told
      /\ req'[s].served = req[s].served
  BY <1>1 DEF Spares, Disquieted, ReqType
<1>3. Told(req[s])'
  <2>1. ASSUME req[s].pc = "serve"
        PROVE  req[s].file # 0 /\ req[s].told[2] <= inode'[req[s].file].changes
    <3>1. req[s].file # 0 /\ req[s].told[2] <= inode[req[s].file].changes
      BY <1>1, <2>1 DEF Told
    <3>2. inode'[req[s].file].changes >= inode[req[s].file].changes
      BY <3>1 DEF Spares, KeepsInode
    <3>3. req[s].file \in Ids /\ req[s].told[2] \in Nat
      BY <1>1, <3>1, RequestTypes
    <3>4. inode[req[s].file].changes \in Nat /\ inode'[req[s].file].changes \in Nat
      BY <1>1, <3>3 DEF TypeOK, InodeType
    <3> QED BY <3>1, <3>2, <3>3, <3>4
  <2> QED BY <1>1, <1>2, <2>1 DEF Told
<1>4. Confined(req[s])'
  BY <1>1, <1>2 DEF Confined, Surroundings, Within, Restricted
<1> QED BY <1>3, <1>4, OthersStaged, OthersLooked DEF RequestOK

(* A request that holds a staging file goes on to be done with it. *)
Advances(p, q) ==
  /\ p.pc \in Holding => q.pc = "done" \/ (q.pc \in Holding /\ q.loc = p.loc)
  /\ p.pc = "done" => q.pc = "done"

(* A step of one request keeps the invariant if it does so for that request. *)
LEMMA StepKeeps ==
  ASSUME LInv, TypeOK', WholeNames', Surroundings, NEW a \in Reqs, Spares(a),
         RequestOK(a, req[a])', Advances(req[a], req[a]'),
         \A w \in Reqs: Hidden(req[a], w, req[w])'
  PROVE  LInv'
<1>1. \A r \in Reqs: RequestOK(r, req[r])'
  BY OthersOK
<1>2. ASSUME NEW s \in Reqs \ {a}
      PROVE  req'[s].pc = req[s].pc /\ req'[s].loc = req[s].loc /\ req'[s].shown = req[s].shown
  BY DEF Spares, Disquieted, LInv, TypeOK, ReqType
<1>3. Swapped => Swapped'
  BY Irrevocable DEF LInv
<1>4. ASSUME NEW r \in Reqs, NEW w \in Reqs PROVE Hidden(req[r], w, req[w])'
  <2>1. CASE r = a
    BY <2>1
  <2>2. CASE r # a
    <3>1. Hidden(req[r], w, req[w]) /\ r \in Reqs \ {a}
      BY <2>2 DEF LInv
    <3>2. Advances(req[w], req'[w])
      BY <1>2 DEF Advances
    <3>3. req'[r].pc = req[r].pc /\ req'[r].loc = req[r].loc /\ req'[r].shown = req[r].shown
      BY <1>2, <3>1
    <3> QED BY <1>3, <3>1, <3>2, <3>3 DEF Hidden, Advances
  <2> QED BY <2>1, <2>2
<1> QED BY <1>1, <1>4 DEF LInv

(* The same of a step that is no request's. *)
LEMMA OutsideKeeps ==
  ASSUME LInv, TypeOK', WholeNames', Surroundings, Spares(NoRoot)
  PROVE  LInv'
<1>1. NoRoot \notin Reqs
  BY Constant
<1>2. \A r \in Reqs: RequestOK(r, req[r])'
  BY <1>1, OthersOK
<1>3. ASSUME NEW s \in Reqs
      PROVE  req'[s].pc = req[s].pc /\ req'[s].loc = req[s].loc /\ req'[s].shown = req[s].shown
  BY <1>1 DEF Spares, Disquieted, LInv, TypeOK, ReqType
<1>4. Swapped => Swapped'
  BY Irrevocable DEF LInv
<1>5. ASSUME NEW r \in Reqs, NEW w \in Reqs PROVE Hidden(req[r], w, req[w])'
  BY <1>3, <1>4 DEF LInv, Hidden
<1> QED BY <1>2, <1>5 DEF LInv

-----------------------------------------------------------------------------
(* Steps that change nothing but their request. *)

(* A step that only changes the local variables keeps names and what they    *)
(* refer to.                                                                 *)
LEMMA BecomesKeeps ==
  ASSUME TypeOK, NEW r \in Reqs, NEW q \in ReqType, Becomes(r, q)
  PROVE  /\ req' = [req EXCEPT ![r] = q] /\ req' \in [Reqs -> ReqType]
         /\ UNCHANGED <<boundary, closed, where, entry, staging, edits>>
         /\ inode' \in [Ids -> InodeType]
         /\ \A k \in Ids: inode'[k] = inode[k] \/ inode'[k] = NoInode
         /\ \A l \in Locations: IdOf(l) # 0 => inode'[IdOf(l)] = inode[IdOf(l)]
         /\ \A s \in Reqs: \A k \in {req'[s].origin, req'[s].stage, req'[s].file}:
              k # 0 => inode'[k] = inode[k]
<1> DEFINE all == [req EXCEPT ![r] = q]
<1>1. /\ req' = all /\ inode' = Collected(inode, entry, all)
      /\ UNCHANGED <<boundary, closed, where, entry, staging, edits>>
  BY DEF Becomes, Perform
<1>2. req' \in [Reqs -> ReqType]
  BY <1>1 DEF TypeOK
<1> HIDE DEF all
<1>3. inode \in [Ids -> InodeType]
  BY DEF TypeOK
<1>4. /\ inode' \in [Ids -> InodeType]
      /\ \A k \in Ids: inode'[k] = inode[k] \/ inode'[k] = NoInode
      /\ \A d \in Dirs, n \in Entries: entry[d][n] \in Ids => inode'[entry[d][n]] = inode[entry[d][n]]
      /\ \A s \in Reqs: \A k \in {all[s].origin, all[s].stage, all[s].file}:
           k \in Ids => inode'[k] = inode[k]
  BY <1>1, <1>3, CollectedKeeps
<1>5. ASSUME NEW l \in Locations, IdOf(l) # 0 PROVE inode'[IdOf(l)] = inode[IdOf(l)]
  BY <1>4, <1>5, FileTypes, Constant DEF IdOf
<1>6. ASSUME NEW s \in Reqs, NEW k \in {req'[s].origin, req'[s].stage, req'[s].file}, k # 0
      PROVE  inode'[k] = inode[k]
  <2>1. req'[s] \in ReqType
    BY <1>2
  <2>2. k \in Ids
    BY <1>6, <2>1, RequestTypes
  <2> QED BY <1>1, <1>4, <1>6, <2>2
<1> QED BY <1>1, <1>2, <1>4, <1>5, <1>6 DEF all

(* It keeps the types, and spares the other requests. *)
LEMMA BecomesTypes ==
  ASSUME LInv, NEW r \in Reqs, NEW q \in ReqType, Becomes(r, q),
         \A i \in {q.origin, q.stage, q.file} \ {0}: Kind(i) = "file",
         q.pc \notin {"idle", "done"} => q.loc \in Spots,
         q.kind = "rename" => q.to \in Spots
  PROVE  TypeOK' /\ WholeNames' /\ Surroundings /\ Calm /\ Spares(r)
<1>1. TypeOK /\ WholeNames
  BY DEF LInv
<1>2. /\ req' = [req EXCEPT ![r] = q] /\ req' \in [Reqs -> ReqType]
      /\ UNCHANGED <<boundary, closed, where, entry, staging, edits>>
      /\ inode' \in [Ids -> InodeType]
      /\ \A k \in Ids: inode'[k] = inode[k] \/ inode'[k] = NoInode
      /\ \A l \in Locations: IdOf(l) # 0 => inode'[IdOf(l)] = inode[IdOf(l)]
      /\ \A s \in Reqs: \A k \in {req'[s].origin, req'[s].stage, req'[s].file}:
           k # 0 => inode'[k] = inode[k]
  BY <1>1, BecomesKeeps
<1>3. \A l \in Locations: IdOf(l)' = IdOf(l)
  BY <1>2 DEF IdOf
<1>4. req'[r] = q /\ \A s \in Reqs \ {r}: req'[s] = req[s]
  BY <1>1, <1>2 DEF TypeOK
<1>5. TypeOK'
  <2>1. ASSUME NEW i \in Ids, Kind(i)' = "link" PROVE inode'[i].to \in Spots
    <3>1. inode'[i] = inode[i]
      BY <1>2, <2>1 DEF Kind, Inode, NoInode
    <3> QED BY <1>1, <2>1, <3>1 DEF TypeOK, Kind, Inode
  <2>2. ASSUME NEW l \in Locations, IdOf(l)' # 0 PROVE Kind(IdOf(l))' # "none"
    <3>1. inode'[IdOf(l)] = inode[IdOf(l)] /\ Kind(IdOf(l)) # "none"
      BY <1>1, <1>2, <1>3, <2>2 DEF TypeOK
    <3> QED BY <1>3, <3>1 DEF Kind, Inode
  <2>3. ASSUME NEW s \in Reqs, NEW i \in {req'[s].origin, req'[s].stage, req'[s].file} \ {0}
        PROVE  Kind(i)' = "file"
    <3>1. Kind(i) = "file"
      BY <1>1, <1>4, <2>3 DEF TypeOK
    <3>2. inode'[i] = inode[i]
      BY <1>2, <2>3
    <3> QED BY <2>3, <3>1, <3>2 DEF Kind, Inode
  <2>4. ASSUME NEW s \in Reqs
        PROVE  /\ req'[s].pc \notin {"idle", "done"} => req'[s].loc \in Spots
               /\ req'[s].kind = "rename" => req'[s].to \in Spots
    BY <1>1, <1>4 DEF TypeOK
  <2> QED BY <1>1, <1>2, <2>1, <2>2, <2>3, <2>4 DEF TypeOK
<1>6. WholeNames'
  <2> SUFFICES ASSUME NEW l \in Spots, ~Free(l)' PROVE inode'[IdOf(l)'].whole
    BY DEF WholeNames
  <2>1. l \in Locations /\ IdOf(l) # 0 /\ IdOf(l)' = IdOf(l)
    BY <1>3, Constant DEF Free
  <2> QED BY <1>1, <1>2, <2>1 DEF WholeNames, Free
<1>7. Surroundings
  BY <1>2 DEF Surroundings
<1>8. Calm
  <2>1. \A l \in Locations: entry'[l[1]][l[2]] = IdOf(l)
    BY <1>2 DEF IdOf
  <2> QED BY <1>2, <2>1, Constant DEF Calm
<1>9. Spares(r)
  <2> SUFFICES ASSUME NEW s \in Reqs \ {r}
               PROVE  /\ \A i \in {req[s].origin, req[s].stage, req[s].file}: i # 0 => KeepsInode(i)
                      /\ \A d \in Dirs: entry[d][s] # 0 => KeepsInode(entry[d][s])
    BY <1>2, <1>4, <1>8 DEF Spares
  <2>1. ASSUME NEW i \in Ids, inode'[i] = inode[i] PROVE KeepsInode(i)
    BY <1>1, <2>1, FileTypes DEF KeepsInode
  <2>2. ASSUME NEW i \in {req[s].origin, req[s].stage, req[s].file}, i # 0 PROVE KeepsInode(i)
    <3>1. i \in Ids
      BY <1>1, <2>2, RequestTypes DEF TypeOK
    <3> QED BY <1>2, <1>4, <2>1, <2>2, <3>1
  <2>3. ASSUME NEW d \in Dirs, entry[d][s] # 0 PROVE KeepsInode(entry[d][s])
    <3>1. <<d, s>> \in Locations /\ IdOf(<<d, s>>) = entry[d][s]
      BY Constant DEF Locations, IdOf
    <3> QED BY <1>1, <1>2, <2>1, <2>3, <3>1, FileTypes, Constant
  <2> QED BY <2>2, <2>3
<1> QED BY <1>5, <1>6, <1>7, <1>8, <1>9

(* It keeps the invariant if the new local variables have what it says of    *)
(* them.                                                                     *)
LEMMA BecomesInv ==
  ASSUME LInv, NEW r \in Reqs, NEW q \in ReqType, Becomes(r, q),
         \A i \in {q.origin, q.stage, q.file} \ {0}: Kind(i) = "file",
         q.pc \notin {"idle", "done"} => q.loc \in Spots,
         q.kind = "rename" => q.to \in Spots,
         RequestOK(r, q), Advances(req[r], q),
         \A w \in Reqs: Hidden(q, w, IF w = r THEN q ELSE req[w])
  PROVE  LInv'
<1>1. TypeOK /\ TypeOK' /\ WholeNames' /\ Surroundings /\ Calm /\ Spares(r)
  BY BecomesTypes DEF LInv
<1>2. /\ req' = [req EXCEPT ![r] = q]
      /\ UNCHANGED <<boundary, closed, where, entry, staging, edits>>
      /\ \A l \in Locations: IdOf(l) # 0 => inode'[IdOf(l)] = inode[IdOf(l)]
      /\ \A s \in Reqs: \A k \in {req'[s].origin, req'[s].stage, req'[s].file}:
           k # 0 => inode'[k] = inode[k]
  BY <1>1, BecomesKeeps
<1>3. req'[r] = q /\ \A w \in Reqs: req'[w] = IF w = r THEN q ELSE req[w]
  BY <1>1, <1>2 DEF TypeOK
<1>4. StagedIn(r, q)' /\ MarkedAs(r, q)' /\ InPlace(q)' /\ Confined(q)'
  BY <1>2 DEF RequestOK, StagedIn, MarkedAs, InPlace, Confined, LetGo, Restricted, Swapped, Within
<1>5. StagedWhole(r, q)'
  <2>1. ASSUME NEW d \in Dirs, entry[d][r] # 0 PROVE inode'[entry[d][r]] = inode[entry[d][r]]
    <3>1. <<d, r>> \in Locations /\ IdOf(<<d, r>>) = entry[d][r]
      BY Constant DEF Locations, IdOf
    <3> QED BY <1>2, <2>1, <3>1
  <2> QED BY <1>2, <2>1 DEF RequestOK, StagedWhole
<1>6. Looked(q)'
  <2>1. Born(q.origin)' = Born(q.origin)
    <3>1. q.origin # 0 => inode'[q.origin] = inode[q.origin]
      BY <1>2, <1>3
    <3> QED BY <3>1 DEF Born, Inode
  <2>2. LetGo' = LetGo
    BY <1>2 DEF LetGo, Restricted
  <2>3. ASSUME q.loc \in Spots, Sees(q), ~LetGo PROVE Sees(q)'
    BY <1>1, <2>2, <2>3, CalmSees
  <2>4. ASSUME q.to \in Spots, ~LetGo PROVE Lstat(q.to)' = Lstat(q.to)
    BY <1>1, <2>2, <2>4, CalmLooks
  <2> QED BY <2>1, <2>2, <2>3, <2>4 DEF RequestOK, Looked
<1>7. Told(q)'
  <2>1. q.file # 0 => inode'[q.file] = inode[q.file]
    BY <1>2, <1>3
  <2> QED BY <2>1 DEF RequestOK, Told
<1>8. RequestOK(r, q)'
  BY <1>4, <1>5, <1>6, <1>7 DEF RequestOK
<1>9. RequestOK(r, req[r])'
  BY <1>3, <1>8 DEF RequestOK, StagedIn, MarkedAs, InPlace, StagedWhole, Looked, Sees, Told, Confined
<1>10. ASSUME NEW w \in Reqs PROVE Hidden(req[r], w, req[w])'
  BY <1>2, <1>3 DEF Hidden, Swapped
<1>11. Advances(req[r], req[r]')
  BY <1>3
<1> QED BY <1>1, <1>9, <1>10, <1>11, StepKeeps

-----------------------------------------------------------------------------
(* Requests begin and end. *)

(* A request that has not begun. *)
LEMMA NewReqType ==
  /\ NewReq \in ReqType /\ NewReq.kind = "none" /\ NewReq.pc = "idle" /\ NewReq.origin = 0
  /\ NewReq.stage = 0 /\ NewReq.file = 0 /\ NewReq.served = NoTime /\ NewReq.told = NoTime
  /\ NewReq.shown = {} /\ NewReq.told[2] = 0 /\ NewReq.born = NoRoot /\ NoTime[2] = 0
<1>1. NoTime \in Times /\ NoTime[2] = 0
  BY DEF NoTime, Times, Makers
<1>2. NewReq \in ReqType
  BY <1>1, Constant DEF NewReq, ReqType, Makers
<1> QED BY <1>1, <1>2 DEF NewReq

(* A request that is over keeps only what it answers. *)
LEMMA EndedType ==
  ASSUME NEW q \in ReqType
  PROVE  /\ Ended(q) \in ReqType /\ Ended(q).pc = "done" /\ Ended(q).kind = "none"
         /\ Ended(q).origin = 0 /\ Ended(q).stage = 0 /\ Ended(q).file = 0
         /\ Ended(q).shown = q.shown /\ Ended(q).told = q.told /\ Ended(q).served = q.served
<1>1. q.shown \subseteq Entries /\ q.told \in Times /\ q.served \in Times
  BY RequestTypes
<1>2. NewReq \in ReqType /\ NewReq.kind = "none" /\ NewReq.origin = 0 /\ NewReq.stage = 0
      /\ NewReq.file = 0
  BY NewReqType
<1> DEFINE e == [NewReq EXCEPT !.pc = "done", !.shown = q.shown, !.told = q.told,
                               !.served = q.served]
<1>3. e \in ReqType
  <2>1. NewReq \in ReqType /\ q.shown \in SUBSET Entries
    BY <1>1, <1>2
  <2> QED BY <1>1, <2>1, ZenonT(40) DEF ReqType
<1>4. /\ e.pc = "done" /\ e.kind = "none" /\ e.origin = 0 /\ e.stage = 0 /\ e.file = 0
      /\ e.shown = q.shown /\ e.told = q.told /\ e.served = q.served
  BY DEF NewReq
<1> QED BY <1>3, <1>4 DEF Ended

(* Nothing is staged for a request that does not write, or not yet. *)
LEMMA NothingStaged ==
  ASSUME LInv, NEW r \in Reqs, req[r].pc \notin Holding \union {"done"}
  PROVE  /\ TypeOK /\ req[r] \in ReqType
         /\ \A d \in Dirs: entry[d][r] = 0 /\ <<d, r>> \notin staging
         /\ Told(req[r]) /\ Looked(req[r]) /\ Confined(req[r]) /\ req[r].served = NoTime
         /\ req[r].pc # "skip" => \A w \in Reqs: w \notin req[r].shown
<1>1. TypeOK /\ req[r] \in ReqType /\ RequestOK(r, req[r])
  BY DEF LInv, TypeOK
<1>2. \A d \in Dirs: entry[d][r] = 0
  BY <1>1 DEF RequestOK, StagedIn, Holding
<1>3. \A d \in Dirs: <<d, r>> \notin staging
  BY <1>1 DEF RequestOK, MarkedAs, Holding
<1>4. req[r].pc # "skip" => \A w \in Reqs: w \notin req[r].shown
  BY DEF LInv, Hidden
<1> QED BY <1>1, <1>2, <1>3, <1>4 DEF RequestOK, Told

(* What an unstaged request becomes has little to show. *)
LEMMA Unstaged ==
  ASSUME LInv, NEW r \in Reqs, req[r].pc \notin Holding \union {"done"},
         NEW q \in ReqType, Becomes(r, q), q.pc \notin Holding,
         \A i \in {q.origin, q.stage, q.file} \ {0}: Kind(i) = "file",
         q.pc \notin {"idle", "done"} => q.loc \in Spots,
         q.kind = "rename" => q.to \in Spots,
         Looked(q), Told(q), Confined(q),
         \A w \in Reqs: Hidden(q, w, IF w = r THEN q ELSE req[w])
  PROVE  LInv'
<1>1. \A d \in Dirs: entry[d][r] = 0 /\ <<d, r>> \notin staging
  BY NothingStaged
<1>2. RequestOK(r, q)
  BY <1>1 DEF RequestOK, StagedIn, MarkedAs, InPlace, StagedWhole
<1>3. Advances(req[r], q)
  BY DEF Advances
<1> QED BY <1>2, <1>3, BecomesInv

(* A request returns where it has no staging file. *)
LEMMA ReturnInv ==
  ASSUME LInv, NEW r \in Reqs, req[r].pc \in {"begun", "stage", "act"}, Return(r)
  PROVE  LInv'
<1> DEFINE q == Ended(req[r])
<1>1. /\ req[r].pc \notin Holding \union {"done"} /\ req[r].pc # "skip"
  BY DEF Holding
<1>2. /\ TypeOK /\ req[r] \in ReqType /\ Told(req[r]) /\ req[r].served = NoTime
      /\ \A w \in Reqs: w \notin req[r].shown
  BY <1>1, NothingStaged
<1>3. /\ q \in ReqType /\ q.pc = "done" /\ q.kind = "none" /\ q.origin = 0 /\ q.stage = 0
      /\ q.file = 0 /\ q.shown = req[r].shown /\ q.told = req[r].told /\ q.served = req[r].served
  BY <1>2, EndedType
<1>4. Becomes(r, q)
  BY DEF Return
<1> HIDE DEF q
<1>5. Looked(q) /\ Told(q) /\ Confined(q) /\ q.pc \notin Holding
  BY <1>2, <1>3 DEF Looked, Told, Confined, Holding
<1>6. \A w \in Reqs: Hidden(q, w, IF w = r THEN q ELSE req[w])
  BY <1>2, <1>3 DEF Hidden
<1> QED BY <1>1, <1>3, <1>4, <1>5, <1>6, Unstaged

(* A request is authorized with a path in a root, or refused. *)
LEMMA AcceptInv ==
  ASSUME LInv, NEW r \in Reqs, At(r, "idle"), NEW q \in ReqType, NEW ok \in BOOLEAN,
         NEW kind \in {"write", "create", "rename", "delete", "read", "list"},
         Accept(r, kind, ok, q),
         q.origin = 0, q.stage = 0, q.file = 0, q.served = NoTime, q.shown = {},
         ok => q.loc \in Spots /\ Within(q.loc[1]),
         ok /\ kind = "rename" => q.to \in Spots /\ Within(q.to[1])
  PROVE  LInv'
<1>1. req[r].pc = "idle" /\ req[r].pc \notin Holding \union {"done"}
  BY DEF At, Holding
<1>2. CASE ok
  <2> DEFINE p == [q EXCEPT !.kind = kind, !.pc = "begun"]
  <2>1. Becomes(r, p)
    BY <1>2 DEF Accept
  <2>2. /\ p \in ReqType /\ p.pc = "begun" /\ p.kind = kind /\ p.loc = q.loc /\ p.to = q.to
        /\ p.origin = 0 /\ p.stage = 0 /\ p.file = 0 /\ p.served = NoTime /\ p.shown = {}
    BY ZenonT(40) DEF ReqType
  <2> HIDE DEF p
  <2>3. Looked(p) /\ Told(p) /\ Confined(p) /\ p.pc \notin Holding
    BY <1>2, <2>2 DEF Looked, Told, Confined, Holding
  <2>4. \A w \in Reqs: Hidden(p, w, IF w = r THEN p ELSE req[w])
    BY <2>2 DEF Hidden
  <2> QED BY <1>1, <1>2, <2>1, <2>2, <2>3, <2>4, Unstaged
<1>3. CASE ~ok
  <2> DEFINE p == Ended(NewReq)
  <2>1. Becomes(r, p)
    BY <1>3 DEF Accept
  <2>2. /\ p \in ReqType /\ p.pc = "done" /\ p.kind = "none" /\ p.origin = 0 /\ p.stage = 0
        /\ p.file = 0 /\ p.shown = {} /\ p.served = NoTime
    BY NewReqType, EndedType
  <2> HIDE DEF p
  <2>3. Looked(p) /\ Told(p) /\ Confined(p) /\ p.pc \notin Holding
    BY <2>2 DEF Looked, Told, Confined, Holding
  <2>4. \A w \in Reqs: Hidden(p, w, IF w = r THEN p ELSE req[w])
    BY <2>2 DEF Hidden
  <2> QED BY <1>1, <2>1, <2>2, <2>3, <2>4, Unstaged
<1> QED BY <1>2, <1>3

(* An authorized path is that of a name in a directory. *)
LEMMA BeginsAt ==
  ASSUME TypeOK, NEW p \in Paths
  PROVE  Canonical(p) \in Spots /\ EntryTarget(p) \in Spots /\ p \in Spots
<1>1. p[1] \in Dirs /\ p[2] \in Names /\ where[p[1]] \in Dirs /\ p \in Spots
  BY FileTypes DEF Paths, Spots
<1> DEFINE l == <<where[p[1]], p[2]>>
<1>2. l \in Spots /\ l \in Locations
  BY <1>1, Constant DEF Spots
<1>3. ASSUME IsLink(l) PROVE Leads(l) \in Spots
  <2>1. IdOf(l) # 0
    BY <1>3 DEF IsLink, Kind, Inode, NoInode
  <2>2. IdOf(l) \in Ids
    BY <1>2, <2>1, FileTypes
  <2>3. inode[IdOf(l)].to \in Spots
    BY <1>3, <2>2 DEF TypeOK, IsLink
  <2>4. where[inode[IdOf(l)].to[1]] \in Dirs /\ inode[IdOf(l)].to[2] \in Names
    BY <2>3, Constant, FileTypes
  <2> QED BY <2>4 DEF Leads, Spots
<1> QED BY <1>1, <1>2, <1>3 DEF Canonical, EntryTarget

(* Resolve, at the beginning of every operation. *)
LEMMA BeginInv ==
  ASSUME LInv, NEW r \in Reqs,
         \/ BeginWrite(r) \/ BeginCreate(r) \/ BeginRename(r) \/ BeginDelete(r) \/ BeginRead(r)
         \/ BeginList(r)
  PROVE  LInv'
<1>1. TypeOK
  BY DEF LInv
<1>2. At(r, "idle")
  BY DEF BeginWrite, BeginCreate, BeginRename, BeginDelete, BeginRead, BeginList
<1>3. NewReq \in ReqType /\ NewReq.origin = 0 /\ NewReq.stage = 0 /\ NewReq.file = 0
      /\ NewReq.served = NoTime /\ NewReq.shown = {}
  BY NewReqType
<1>4. \A l: Authorized(l) => Within(l[1])
  BY DEF Authorized
<1>5. \A p: Resolves(p) \in BOOLEAN /\ Authorized(p) \in BOOLEAN /\ (Resolves(p) => Within(Canonical(p)[1]))
  BY DEF Resolves, Authorized, Within
<1>6. CASE BeginWrite(r)
  <2>1. PICK p \in Paths, may \in BOOLEAN:
          \E seen \in {Unchecked} \union {TimeOf(i): i \in {IdOf(Canonical(p))} \ {0}}:
            Accept(r, "write", Resolves(p),
                   [NewReq EXCEPT !.loc = Canonical(p), !.expected = seen, !.may = may])
    BY <1>6 DEF BeginWrite
  <2>2. PICK seen \in {Unchecked} \union {TimeOf(i): i \in {IdOf(Canonical(p))} \ {0}}:
            Accept(r, "write", Resolves(p),
                   [NewReq EXCEPT !.loc = Canonical(p), !.expected = seen, !.may = may])
    BY <2>1
  <2>3. Canonical(p) \in Spots
    BY <1>1, BeginsAt
  <2>4. seen \in {Unchecked} \union Times
    <3>1. ASSUME IdOf(Canonical(p)) # 0 PROVE TimeOf(IdOf(Canonical(p))) \in Times
      <4>1. IdOf(Canonical(p)) \in Ids
        BY <1>1, <2>3, <3>1, FileTypes, Constant
      <4> QED BY <1>1, <3>1, <4>1, FileTypes DEF TimeOf, Inode, Times
    <3> QED BY <3>1
  <2> DEFINE q == [NewReq EXCEPT !.loc = Canonical(p), !.expected = seen, !.may = may]
  <2>5. /\ q \in ReqType /\ q.loc = Canonical(p) /\ q.origin = 0 /\ q.stage = 0 /\ q.file = 0
        /\ q.served = NoTime /\ q.shown = {}
    BY <1>3, <2>3, <2>4 DEF ReqType
  <2> HIDE DEF q
  <2>6. Accept(r, "write", Resolves(p), q)
    BY <2>2 DEF q
  <2> QED BY <1>2, <1>5, <2>3, <2>5, <2>6, AcceptInv
<1>7. CASE BeginCreate(r)
  <2>1. PICK p \in Paths, isDir \in BOOLEAN:
          Accept(r, "create", Resolves(p), [NewReq EXCEPT !.loc = Canonical(p), !.may = isDir])
    BY <1>7 DEF BeginCreate
  <2> DEFINE q == [NewReq EXCEPT !.loc = Canonical(p), !.may = isDir]
  <2>2. Canonical(p) \in Spots
    BY <1>1, BeginsAt
  <2>3. /\ q \in ReqType /\ q.loc = Canonical(p) /\ q.origin = 0 /\ q.stage = 0 /\ q.file = 0
        /\ q.served = NoTime /\ q.shown = {}
    BY <1>3, <2>2 DEF ReqType
  <2>4. Accept(r, "create", Resolves(p), q)
    BY <2>1
  <2> HIDE DEF q
  <2> QED BY <1>2, <1>5, <2>2, <2>3, <2>4, AcceptInv
<1>8. CASE BeginRename(r)
  <2>1. PICK p \in Paths, new \in Paths:
          Accept(r, "rename", Authorized(EntryTarget(p)) /\ Authorized(EntryTarget(new)),
                 [NewReq EXCEPT !.loc = EntryTarget(p), !.to = EntryTarget(new)])
    BY <1>8 DEF BeginRename
  <2> DEFINE q == [NewReq EXCEPT !.loc = EntryTarget(p), !.to = EntryTarget(new)]
             ok == Authorized(EntryTarget(p)) /\ Authorized(EntryTarget(new))
  <2>2. EntryTarget(p) \in Spots /\ EntryTarget(new) \in Spots
    BY <1>1, BeginsAt
  <2>3. /\ q \in ReqType /\ q.loc = EntryTarget(p) /\ q.to = EntryTarget(new)
        /\ q.origin = 0 /\ q.stage = 0 /\ q.file = 0 /\ q.served = NoTime /\ q.shown = {}
    BY <1>3, <2>2 DEF ReqType
  <2>4. /\ Accept(r, "rename", ok, q) /\ ok \in BOOLEAN
        /\ ok => Within(EntryTarget(p)[1]) /\ Within(EntryTarget(new)[1])
    BY <1>4, <1>5, <2>1
  <2> HIDE DEF q, ok
  <2> QED BY <1>2, <2>2, <2>3, <2>4, AcceptInv
<1>9. CASE BeginDelete(r)
  <2>1. PICK p \in Paths, recursive \in BOOLEAN:
          Accept(r, "delete", Authorized(EntryTarget(p)),
                 [NewReq EXCEPT !.loc = EntryTarget(p), !.may = recursive])
    BY <1>9 DEF BeginDelete
  <2> DEFINE q == [NewReq EXCEPT !.loc = EntryTarget(p), !.may = recursive]
  <2>2. EntryTarget(p) \in Spots
    BY <1>1, BeginsAt
  <2>3. /\ q \in ReqType /\ q.loc = EntryTarget(p) /\ q.origin = 0 /\ q.stage = 0 /\ q.file = 0
        /\ q.served = NoTime /\ q.shown = {}
    BY <1>3, <2>2 DEF ReqType
  <2>4. Accept(r, "delete", Authorized(EntryTarget(p)), q)
    BY <2>1
  <2> HIDE DEF q
  <2> QED BY <1>2, <1>4, <1>5, <2>2, <2>3, <2>4, AcceptInv
<1>10. CASE BeginRead(r)
  <2>1. PICK p \in Paths:
          Accept(r, "read", Resolves(p) /\ IdOf(Canonical(p)) # 0,
                 [NewReq EXCEPT !.loc = Canonical(p)])
    BY <1>10 DEF BeginRead
  <2> DEFINE q == [NewReq EXCEPT !.loc = Canonical(p)]
             ok == Resolves(p) /\ IdOf(Canonical(p)) # 0
  <2>2. Canonical(p) \in Spots
    BY <1>1, BeginsAt
  <2>3. /\ q \in ReqType /\ q.loc = Canonical(p) /\ q.origin = 0 /\ q.stage = 0 /\ q.file = 0
        /\ q.served = NoTime /\ q.shown = {}
    BY <1>3, <2>2 DEF ReqType
  <2>4. Accept(r, "read", ok, q) /\ ok \in BOOLEAN /\ (ok => Within(Canonical(p)[1]))
    BY <1>5, <2>1
  <2> HIDE DEF q, ok
  <2> QED BY <1>2, <2>2, <2>3, <2>4, AcceptInv
<1>11. CASE BeginList(r)
  <2>1. PICK p \in Dirs:
          Accept(r, "list", Authorized(<<where[p], First>>),
                 [NewReq EXCEPT !.loc = <<where[p], First>>])
    BY <1>11 DEF BeginList
  <2> DEFINE l == <<where[p], First>>
             q == [NewReq EXCEPT !.loc = l]
  <2>2. l \in Spots
    BY <1>1, Constant, FileTypes DEF Spots
  <2>3. /\ q \in ReqType /\ q.loc = l /\ q.origin = 0 /\ q.stage = 0 /\ q.file = 0
        /\ q.served = NoTime /\ q.shown = {}
    BY <1>3, <2>2 DEF ReqType
  <2>4. Accept(r, "list", Authorized(l), q)
    BY <2>1
  <2> HIDE DEF q, l
  <2> QED BY <1>2, <1>4, <1>5, <2>2, <2>3, <2>4, AcceptInv
<1> QED BY <1>6, <1>7, <1>8, <1>9, <1>10, <1>11

-----------------------------------------------------------------------------
(* Looks, reads and listings. *)

(* The time and the kind of an inode, or of none. *)
LEMMA TimeTypes ==
  ASSUME TypeOK, NEW i \in Ids \union {0}
  PROVE  /\ TimeOf(i) \in Times /\ Born(i) \in Makers /\ TimeOf(i)[2] = Inode(i).changes
         /\ Kind(i) \in {"none", "file", "dir", "full", "link"} /\ (i = 0 => Kind(i) = "none")
<1>1. Inode(i) \in InodeType
  BY FileTypes DEF Inode
<1>2. i = 0 => Kind(i) = "none"
  BY DEF Kind, Inode, NoInode
<1> QED BY <1>1, <1>2 DEF TimeOf, Born, Kind, InodeType, Times

(* The looks of Create, Rename and Delete. *)
LEMMA LookInv ==
  ASSUME LInv, NEW r \in Reqs,
         LookBeforeCreate(r) \/ LookBeforeRename(r) \/ LookBeforeDelete(r)
  PROVE  LInv'
<1>1. req[r].pc = "begun" /\ req[r].pc \notin Holding \union {"done"}
  BY DEF LookBeforeCreate, LookBeforeRename, LookBeforeDelete, Begun, At, Holding
<1>2. /\ TypeOK /\ req[r] \in ReqType /\ Told(req[r]) /\ Confined(req[r])
      /\ req[r].served = NoTime /\ \A w \in Reqs: w \notin req[r].shown
  BY <1>1, NothingStaged
<1>3. \/ Return(r)
      \/ \E may \in BOOLEAN:
           /\ Becomes(r, [req[r] EXCEPT !.pc = "act", !.quiet = TRUE, !.may = may])
           /\ req[r].kind = "rename" => Lstat(req[r].to) = 0
  <2>1. CASE LookBeforeCreate(r)
    <3>1. Return(r) \/ Becomes(r, [req[r] EXCEPT !.pc = "act", !.quiet = TRUE])
      BY <2>1 DEF LookBeforeCreate
    <3>2. [req[r] EXCEPT !.pc = "act", !.quiet = TRUE]
            = [req[r] EXCEPT !.pc = "act", !.quiet = TRUE, !.may = req[r].may]
      BY <1>2 DEF ReqType
    <3> QED BY <1>2, <2>1, <3>1, <3>2, RequestTypes DEF LookBeforeCreate, Begun
  <2>2. CASE LookBeforeRename(r)
    <3>1. \/ Return(r)
          \/ Becomes(r, [req[r] EXCEPT !.pc = "act", !.quiet = TRUE]) /\ Lstat(req[r].to) = 0
      BY <2>2 DEF LookBeforeRename
    <3>2. [req[r] EXCEPT !.pc = "act", !.quiet = TRUE]
            = [req[r] EXCEPT !.pc = "act", !.quiet = TRUE, !.may = req[r].may]
      BY <1>2 DEF ReqType
    <3> QED BY <1>2, <3>1, <3>2, RequestTypes
  <2>3. CASE LookBeforeDelete(r)
    <3> DEFINE may == Kind(Lstat(req[r].loc)) \in {"dir", "full"} /\ req[r].may
    <3>1. \/ Return(r)
          \/ Becomes(r, [req[r] EXCEPT !.pc = "act", !.quiet = TRUE, !.may = may])
      BY <2>3 DEF LookBeforeDelete
    <3>2. may \in BOOLEAN
      BY <1>2, RequestTypes
    <3> HIDE DEF may
    <3> QED BY <2>3, <3>1, <3>2 DEF LookBeforeDelete, Begun
  <2> QED BY <2>1, <2>2, <2>3
<1>4. CASE Return(r)
  BY <1>1, <1>4, ReturnInv
<1>5. ASSUME NEW may \in BOOLEAN,
             Becomes(r, [req[r] EXCEPT !.pc = "act", !.quiet = TRUE, !.may = may]),
             req[r].kind = "rename" => Lstat(req[r].to) = 0
      PROVE  LInv'
  <2> DEFINE q == [req[r] EXCEPT !.pc = "act", !.quiet = TRUE, !.may = may]
  <2>1. /\ q \in ReqType /\ q.pc = "act" /\ q.kind = req[r].kind /\ q.loc = req[r].loc
        /\ q.to = req[r].to /\ q.origin = req[r].origin /\ q.stage = req[r].stage
        /\ q.file = req[r].file /\ q.served = NoTime /\ q.shown = req[r].shown
    BY <1>2 DEF ReqType
  <2>2. Becomes(r, q)
    BY <1>5
  <2> HIDE DEF q
  <2>3. /\ \A i \in {q.origin, q.stage, q.file} \ {0}: Kind(i) = "file"
        /\ q.loc \in Spots /\ (q.kind = "rename" => q.to \in Spots)
    BY <1>1, <1>2, <2>1 DEF TypeOK
  <2>4. Looked(q) /\ Told(q) /\ Confined(q) /\ q.pc \notin Holding
    BY <1>1, <1>2, <1>5, <2>1 DEF Looked, Told, Confined, Holding
  <2>5. \A w \in Reqs: Hidden(q, w, IF w = r THEN q ELSE req[w])
    BY <1>2, <2>1 DEF Hidden
  <2> QED BY <1>1, <2>1, <2>2, <2>3, <2>4, <2>5, Unstaged
<1> QED BY <1>3, <1>4, <1>5

(* Read: the file is opened, and what is told of it taken from the           *)
(* descriptor.                                                               *)
LEMMA OpenFileInv ==
  ASSUME LInv, NEW r \in Reqs, OpenFile(r)
  PROVE  LInv'
<1>1. req[r].pc = "begun" /\ req[r].pc \notin Holding \union {"done"}
  BY DEF OpenFile, Begun, At, Holding
<1>2. /\ TypeOK /\ req[r] \in ReqType /\ Told(req[r]) /\ Confined(req[r])
      /\ req[r].served = NoTime /\ \A w \in Reqs: w \notin req[r].shown
  BY <1>1, NothingStaged
<1> DEFINE i == Stat(req[r].loc)
           q == [req[r] EXCEPT !.pc = "serve", !.file = i, !.told = TimeOf(i)]
<1>3. CASE Return(r)
  BY <1>1, <1>3, ReturnInv
<1>4. CASE Becomes(r, q) /\ Kind(i) = "file"
  <2>1. req[r].loc \in Spots
    BY <1>1, <1>2 DEF TypeOK
  <2>2. i \in Ids \union {0} /\ i # 0 /\ i \in 0..MaxInodes
    BY <1>2, <1>4, <2>1, LookedUp, TimeTypes, Constant
  <2>3. TimeOf(i) \in Times /\ TimeOf(i)[2] = inode[i].changes
    BY <1>2, <2>2, TimeTypes DEF Inode
  <2>4. inode[i].changes \in Nat
    BY <1>2, <2>2, FileTypes
  <2> HIDE DEF i
  <2>5. /\ q \in ReqType /\ q.pc = "serve" /\ q.kind = req[r].kind /\ q.loc = req[r].loc
        /\ q.to = req[r].to /\ q.origin = req[r].origin /\ q.stage = req[r].stage
        /\ q.file = i /\ q.told = TimeOf(i) /\ q.served = NoTime /\ q.shown = req[r].shown
    BY <1>2, <2>2, <2>3 DEF ReqType
  <2> HIDE DEF q
  <2>6. /\ \A k \in {q.origin, q.stage, q.file} \ {0}: Kind(k) = "file"
        /\ q.loc \in Spots /\ (q.kind = "rename" => q.to \in Spots)
    BY <1>2, <1>4, <2>1, <2>5 DEF TypeOK
  <2>7. Looked(q) /\ Told(q) /\ Confined(q) /\ q.pc \notin Holding
    BY <1>1, <1>2, <2>2, <2>3, <2>4, <2>5 DEF Looked, Told, Confined, Holding
  <2>8. \A w \in Reqs: Hidden(q, w, IF w = r THEN q ELSE req[w])
    BY <1>2, <2>5 DEF Hidden
  <2> QED BY <1>1, <1>4, <2>5, <2>6, <2>7, <2>8, Unstaged
<1> QED BY <1>3, <1>4 DEF OpenFile

(* serveFile: a file only gets newer while it is open. *)
LEMMA ServeContentInv ==
  ASSUME LInv, NEW r \in Reqs, ServeContent(r)
  PROVE  LInv'
<1>1. req[r].pc = "serve" /\ req[r].pc \notin Holding \union {"done"}
  BY DEF ServeContent, At, Holding
<1>2. /\ TypeOK /\ req[r] \in ReqType /\ Told(req[r]) /\ \A w \in Reqs: w \notin req[r].shown
  BY <1>1, NothingStaged
<1> DEFINE e == Ended(req[r])
           t == TimeOf(req[r].file)
           q == [e EXCEPT !.served = t]
<1>3. /\ e \in ReqType /\ e.pc = "done" /\ e.kind = "none" /\ e.origin = 0 /\ e.stage = 0
      /\ e.file = 0 /\ e.shown = req[r].shown /\ e.told = req[r].told
  BY <1>2, EndedType
<1>4. req[r].file \in Ids /\ req[r].file # 0 /\ req[r].told[2] <= inode[req[r].file].changes
  BY <1>1, <1>2, RequestTypes DEF Told
<1>5. t \in Times /\ t[2] = inode[req[r].file].changes
  BY <1>2, <1>4, TimeTypes DEF Inode
<1>6. Becomes(r, q)
  BY DEF ServeContent
<1> HIDE DEF e, t
<1>7. /\ q \in ReqType /\ q.pc = "done" /\ q.kind = "none" /\ q.origin = 0 /\ q.stage = 0
      /\ q.file = 0 /\ q.shown = req[r].shown /\ q.told = req[r].told /\ q.served = t
  BY <1>3, <1>5 DEF ReqType
<1> HIDE DEF q
<1>8. Looked(q) /\ Told(q) /\ Confined(q) /\ q.pc \notin Holding
  BY <1>4, <1>5, <1>7 DEF Looked, Told, Confined, Holding
<1>9. \A w \in Reqs: Hidden(q, w, IF w = r THEN q ELSE req[w])
  BY <1>2, <1>7 DEF Hidden
<1> QED BY <1>1, <1>6, <1>7, <1>8, <1>9, Unstaged

(* readListing: a staging file that is found has its mark, or it is about to *)
(* get it.                                                                   *)
LEMMA ReadNamesInv ==
  ASSUME LInv, NEW r \in Reqs, ReadNames(r)
  PROVE  LInv'
<1>1. req[r].pc = "begun" /\ req[r].pc \notin Holding \union {"done"}
  BY DEF ReadNames, Begun, At, Holding
<1>2. /\ TypeOK /\ req[r] \in ReqType /\ Told(req[r]) /\ Confined(req[r])
      /\ req[r].served = NoTime /\ \A d \in Dirs: entry[d][r] = 0
  BY <1>1, NothingStaged
<1> DEFINE d == Reached(req[r].loc[1])
           found == {n \in Entries: IdOf(<<d, n>>) # 0}
           q == [req[r] EXCEPT !.pc = "skip", !.in = d, !.shown = found]
<1>3. CASE Return(r)
  BY <1>1, <1>3, ReturnInv
<1>4. CASE Becomes(r, q) /\ d # NoRoot
  <2>1. req[r].loc \in Spots
    BY <1>1, <1>2 DEF TypeOK
  <2>2. d = where[req[r].loc[1]] /\ d \in Dirs
    BY <1>2, <1>4, <2>1, LookedUp
  <2>3. ~LetGo
    BY <1>4 DEF LetGo, Reached
  <2>4. \A n \in Entries: n \in found => entry[d][n] # 0
    BY DEF IdOf
  <2> HIDE DEF d, found
  <2>5. found \in SUBSET Entries
    BY DEF found
  <2>6. /\ q \in ReqType /\ q.pc = "skip" /\ q.kind = req[r].kind /\ q.loc = req[r].loc
        /\ q.to = req[r].to /\ q.origin = req[r].origin /\ q.stage = req[r].stage
        /\ q.file = req[r].file /\ q.served = NoTime /\ q.shown = found
    BY <1>2, <2>2, <2>5, ZenonT(40) DEF ReqType
  <2> HIDE DEF q
  <2>7. /\ \A k \in {q.origin, q.stage, q.file} \ {0}: Kind(k) = "file"
        /\ q.loc \in Spots /\ (q.kind = "rename" => q.to \in Spots)
    BY <1>2, <2>1, <2>6 DEF TypeOK
  <2>8. Looked(q) /\ Told(q) /\ Confined(q) /\ q.pc \notin Holding
    BY <1>1, <1>2, <2>6 DEF Looked, Told, Confined, Holding
  <2>9. ASSUME NEW w \in Reqs PROVE Hidden(q, w, IF w = r THEN q ELSE req[w])
    <3> SUFFICES ASSUME w \in found, ~Swapped
                 PROVE  w # r /\ (req[w].pc = "done" \/ (req[w].pc \in Holding /\ req[w].loc[1] = q.loc[1]))
      BY <2>6 DEF Hidden
    <3>1. entry[d][w] # 0 /\ w # r
      BY <1>2, <2>2, <2>4, Constant
    <3>2. StagedIn(w, req[w]) /\ InPlace(req[w])
      BY DEF LInv, RequestOK
    <3>3. req[w].pc \in Holding /\ d = req[w].in
      BY <2>2, <2>3, <3>1, <3>2 DEF StagedIn, Holding
    <3>4. req[w].in = req[w].loc[1]
      BY <3>2, <3>3 DEF InPlace
    <3>5. d = req[r].loc[1]
      BY <2>1, <2>2, Constant DEF Swapped
    <3> QED BY <2>6, <3>1, <3>3, <3>4, <3>5
  <2> QED BY <1>1, <1>4, <2>6, <2>7, <2>8, <2>9, Unstaged
<1> QED BY <1>3, <1>4 DEF ReadNames

(* isStaging: marks outlive their files, so what is still unmarked is over. *)
LEMMA SkipStagingInv ==
  ASSUME LInv, NEW r \in Reqs, SkipStaging(r)
  PROVE  LInv'
<1>1. req[r].pc = "skip" /\ req[r].pc \notin Holding \union {"done"}
  BY DEF SkipStaging, At, Holding
<1>2. /\ TypeOK /\ req[r] \in ReqType /\ Told(req[r]) /\ req[r].served = NoTime
      /\ req[r].loc \in Spots
  <2>1. TypeOK /\ req[r] \in ReqType /\ Told(req[r]) /\ req[r].served = NoTime
    BY <1>1, NothingStaged
  <2> QED BY <1>1, <2>1 DEF TypeOK
<1> DEFINE e == Ended(req[r])
           hidden == {n \in req[r].shown: <<req[r].loc[1], n>> \in staging}
           q == [e EXCEPT !.shown = @ \ hidden]
<1>3. /\ e \in ReqType /\ e.pc = "done" /\ e.kind = "none" /\ e.origin = 0 /\ e.stage = 0
      /\ e.file = 0 /\ e.shown = req[r].shown /\ e.told = req[r].told /\ e.served = NoTime
  BY <1>2, EndedType
<1>4. Becomes(r, q) /\ \A w \in Reqs: req[w].pc # "mark"
  BY DEF SkipStaging, StagingLocked, At
<1>5. \A n: n \in req[r].shown \ hidden => <<req[r].loc[1], n>> \notin staging
  OBVIOUS
<1> HIDE DEF e, hidden
<1>6. /\ q \in ReqType /\ q.pc = "done" /\ q.kind = "none" /\ q.origin = 0 /\ q.stage = 0
      /\ q.file = 0 /\ q.shown = req[r].shown \ hidden /\ q.served = NoTime
  BY <1>3 DEF ReqType
<1> HIDE DEF q
<1>7. Looked(q) /\ Told(q) /\ Confined(q) /\ q.pc \notin Holding
  BY <1>6 DEF Looked, Told, Confined, Holding
<1>8. ASSUME NEW w \in Reqs PROVE Hidden(q, w, IF w = r THEN q ELSE req[w])
  <2> SUFFICES ASSUME w \in req[r].shown \ hidden, ~Swapped, w # r PROVE req[w].pc = "done"
    BY <1>6 DEF Hidden
  <2>1. Hidden(req[r], w, req[w]) /\ MarkedAs(w, req[w])
    BY DEF LInv, RequestOK
  <2>2. CASE req[w].pc \in Holding /\ req[w].loc[1] = req[r].loc[1]
    <3>1. req[w].pc \in Holding \ {"mark"} /\ req[r].loc[1] \in Dirs
      BY <1>2, <1>4, <2>2, Constant
    <3>2. <<req[r].loc[1], w>> \in staging
      BY <2>1, <2>2, <3>1 DEF MarkedAs
    <3> QED BY <1>5, <3>2
  <2> QED BY <1>1, <2>1, <2>2 DEF Hidden
<1> QED BY <1>1, <1>4, <1>6, <1>7, <1>8, Unstaged

-----------------------------------------------------------------------------
(* Writes, as far as they change no name. *)

(* A write that holds a staging file, and what it becomes. *)
LEMMA Held ==
  ASSUME LInv, NEW r \in Reqs, req[r].pc \in Holding,
         NEW q \in ReqType, Becomes(r, q), q.pc \in Holding,
         q.loc = req[r].loc, q.to = req[r].to, q.kind = req[r].kind, q.in = req[r].in,
         q.file = req[r].file, q.served = req[r].served, q.shown = req[r].shown,
         q.origin = req[r].origin, q.stage \in {0, req[r].stage},
         req[r].pc = "mark" <=> q.pc = "mark",
         StagedIn(r, q), StagedWhole(r, q), Looked(q)
  PROVE  LInv'
<1>1. TypeOK /\ req[r] \in ReqType /\ RequestOK(r, req[r])
  BY DEF LInv, TypeOK
<1>2. /\ req[r].pc \notin {"idle", "done", "serve", "skip", "act"}
      /\ q.pc \notin {"idle", "done", "serve", "skip", "act"}
  BY DEF Holding
<1>3. MarkedAs(r, q) /\ InPlace(q) /\ Told(q) /\ Confined(q)
  BY <1>1, <1>2 DEF RequestOK, MarkedAs, InPlace, Told, Confined
<1>4. RequestOK(r, q)
  BY <1>3 DEF RequestOK
<1>5. \A w \in Reqs: w \notin q.shown
  BY <1>2 DEF LInv, Hidden
<1>6. \A w \in Reqs: Hidden(q, w, IF w = r THEN q ELSE req[w])
  BY <1>5 DEF Hidden
<1>7. /\ \A i \in {q.origin, q.stage, q.file} \ {0}: Kind(i) = "file"
      /\ q.loc \in Spots /\ (q.kind = "rename" => q.to \in Spots)
  BY <1>1, <1>2 DEF TypeOK
<1>8. Advances(req[r], q)
  BY <1>2 DEF Advances
<1> QED BY <1>4, <1>6, <1>7, <1>8, BecomesInv

(* A write gives up: the deferred calls follow. *)
LEMMA AbandonInv ==
  ASSUME LInv, NEW r \in Reqs, req[r].pc \in {"copy", "confirm", "verify", "commit"}, Abandon(r)
  PROVE  LInv'
<1> DEFINE q == [req[r] EXCEPT !.pc = "remove", !.stage = 0, !.quiet = FALSE]
<1>1. req[r] \in ReqType /\ RequestOK(r, req[r]) /\ Becomes(r, q)
  BY DEF LInv, TypeOK, Abandon
<1>2. /\ q \in ReqType /\ q.pc = "remove" /\ q.kind = req[r].kind /\ q.loc = req[r].loc
      /\ q.to = req[r].to /\ q.in = req[r].in /\ q.file = req[r].file /\ q.stage = 0
      /\ q.served = req[r].served /\ q.shown = req[r].shown /\ q.origin = req[r].origin
  BY <1>1, Constant DEF ReqType
<1> HIDE DEF q
<1>3. StagedIn(r, q) /\ StagedWhole(r, q) /\ Looked(q)
  BY <1>1, <1>2 DEF RequestOK, StagedIn, StagedWhole, Looked, Holding
<1> QED BY <1>1, <1>2, <1>3, Held DEF Holding

(* confirmUnchanged sees what the invariant wants seen. *)
LEMMA UnchangedSees ==
  ASSUME NEW r, NEW q, Unchanged(r), q.loc = req[r].loc, q.origin = req[r].origin,
         q.expected = req[r].expected, q.may = req[r].may
  PROVE  Sees(q)
BY DEF Unchanged, Sees, HasOtherNames

(* writeTarget: the target is pinned, so that its number is not used again. *)
LEMMA WriteTargetInv ==
  ASSUME LInv, NEW r \in Reqs, WriteTarget(r)
  PROVE  LInv'
<1>1. req[r].pc = "begun" /\ req[r].pc \notin Holding \union {"done"}
  BY DEF WriteTarget, Begun, At, Holding
<1>2. /\ TypeOK /\ req[r] \in ReqType /\ Told(req[r]) /\ Confined(req[r])
      /\ req[r].served = NoTime /\ \A w \in Reqs: w \notin req[r].shown
  BY <1>1, NothingStaged
<1> DEFINE i == Lstat(req[r].loc)
           q == [req[r] EXCEPT !.pc = "stage", !.origin = i, !.born = Born(i)]
<1>3. CASE Return(r)
  BY <1>1, <1>3, ReturnInv
<1>4. CASE Becomes(r, q) /\ Kind(i) \notin {"link", "dir", "full"}
  <2>1. req[r].loc \in Spots
    BY <1>1, <1>2 DEF TypeOK
  <2>2. i \in Ids \union {0} /\ i \in 0..MaxInodes
    BY <1>2, <2>1, LookedUp, Constant
  <2>3. ASSUME i # 0 PROVE Kind(i) = "file"
    <3>1. i = IdOf(Entry(req[r].loc)) /\ Entry(req[r].loc) \in Locations
      BY <1>2, <2>1, <2>3, LookedUp, Constant
    <3>2. Kind(i) # "none"
      BY <1>2, <2>3, <3>1 DEF TypeOK
    <3> QED BY <1>2, <1>4, <2>2, <3>2, TimeTypes
  <2>4. Born(i) \in Makers
    BY <1>2, <2>2, TimeTypes
  <2> HIDE DEF i
  <2>5. /\ q \in ReqType /\ q.pc = "stage" /\ q.kind = req[r].kind /\ q.loc = req[r].loc
        /\ q.to = req[r].to /\ q.origin = i /\ q.born = Born(i) /\ q.stage = req[r].stage
        /\ q.file = req[r].file /\ q.served = NoTime /\ q.shown = req[r].shown
    BY <1>2, <2>2, <2>4 DEF ReqType
  <2> HIDE DEF q
  <2>6. /\ \A k \in {q.origin, q.stage, q.file} \ {0}: Kind(k) = "file"
        /\ q.loc \in Spots /\ (q.kind = "rename" => q.to \in Spots)
    BY <1>2, <2>1, <2>3, <2>5 DEF TypeOK
  <2>7. Looked(q) /\ Told(q) /\ Confined(q) /\ q.pc \notin Holding
    BY <1>1, <1>2, <2>5 DEF Looked, Told, Confined, Holding
  <2>8. \A w \in Reqs: Hidden(q, w, IF w = r THEN q ELSE req[w])
    BY <1>2, <2>5 DEF Hidden
  <2> QED BY <1>1, <1>4, <2>5, <2>6, <2>7, <2>8, Unstaged
<1> QED BY <1>3, <1>4 DEF WriteTarget

(* The two looks of confirmUnchanged. *)
LEMMA ConfirmInv ==
  ASSUME LInv, NEW r \in Reqs, Confirm(r) \/ Verify(r)
  PROVE  LInv'
<1>1. req[r].pc \in {"confirm", "verify"} /\ req[r] \in ReqType /\ RequestOK(r, req[r])
  BY DEF Confirm, Verify, At, LInv, TypeOK
<1> DEFINE c == [req[r] EXCEPT !.pc = "verify", !.stage = 0]
           v == [req[r] EXCEPT !.pc = "commit", !.quiet = TRUE]
<1>2. CASE Abandon(r)
  BY <1>1, <1>2, AbandonInv
<1>3. CASE Becomes(r, c) /\ req[r].pc = "confirm"
  <2>1. /\ c \in ReqType /\ c.pc = "verify" /\ c.kind = req[r].kind /\ c.loc = req[r].loc
        /\ c.to = req[r].to /\ c.in = req[r].in /\ c.file = req[r].file /\ c.stage = 0
        /\ c.served = req[r].served /\ c.shown = req[r].shown /\ c.origin = req[r].origin
        /\ c.born = req[r].born
    BY <1>1, Constant DEF ReqType
  <2> HIDE DEF c
  <2>2. StagedIn(r, c) /\ StagedWhole(r, c) /\ Looked(c)
    BY <1>1, <1>3, <2>1 DEF RequestOK, StagedIn, StagedWhole, Looked, Holding
  <2> QED BY <1>1, <1>3, <2>1, <2>2, Held DEF Holding
<1>4. CASE Becomes(r, v) /\ req[r].pc = "verify" /\ Unchanged(r)
  <2>1. /\ v \in ReqType /\ v.pc = "commit" /\ v.kind = req[r].kind /\ v.loc = req[r].loc
        /\ v.to = req[r].to /\ v.in = req[r].in /\ v.file = req[r].file /\ v.stage = req[r].stage
        /\ v.served = req[r].served /\ v.shown = req[r].shown /\ v.origin = req[r].origin
        /\ v.born = req[r].born /\ v.expected = req[r].expected /\ v.may = req[r].may
    BY <1>1 DEF ReqType
  <2> HIDE DEF v
  <2>2. Sees(v)
    BY <1>4, <2>1, UnchangedSees
  <2>3. StagedIn(r, v) /\ StagedWhole(r, v)
    BY <1>1, <1>4, <2>1 DEF RequestOK, StagedIn, StagedWhole, Holding
  <2>4. Looked(v)
    BY <1>1, <1>4, <2>1, <2>2 DEF RequestOK, Looked
  <2> QED BY <1>1, <1>4, <2>1, <2>3, <2>4, Held DEF Holding
<1> QED BY <1>2, <1>3, <1>4 DEF Confirm, Verify, At

(* stampOf. *)
LEMMA StampInv ==
  ASSUME LInv, NEW r \in Reqs, StampOf(r)
  PROVE  LInv'
<1>1. /\ req[r].pc = "stamp" /\ req[r] \in ReqType /\ RequestOK(r, req[r]) /\ TypeOK
      /\ req[r].loc \in Spots
  BY DEF StampOf, At, LInv, TypeOK
<1> DEFINE t == TimeOf(Stat(req[r].loc))
           q == [req[r] EXCEPT !.pc = "unmark", !.told = t]
<1>2. t \in Times
  BY <1>1, LookedUp, TimeTypes
<1>3. Becomes(r, q)
  BY DEF StampOf
<1> HIDE DEF t
<1>4. /\ q \in ReqType /\ q.pc = "unmark" /\ q.kind = req[r].kind /\ q.loc = req[r].loc
      /\ q.to = req[r].to /\ q.in = req[r].in /\ q.file = req[r].file /\ q.stage = req[r].stage
      /\ q.served = req[r].served /\ q.shown = req[r].shown /\ q.origin = req[r].origin
  BY <1>1, <1>2 DEF ReqType
<1> HIDE DEF q
<1>5. \A d \in Dirs: entry[d][r] = 0
  BY <1>1 DEF RequestOK, StagedIn, Holding
<1>6. StagedIn(r, q) /\ StagedWhole(r, q) /\ Looked(q)
  BY <1>4, <1>5 DEF StagedIn, StagedWhole, Looked
<1> QED BY <1>1, <1>3, <1>4, <1>6, Held DEF Holding

-----------------------------------------------------------------------------
(* Steps that change names and inodes. *)

(* A name is set, and no other. *)
LEMMA SetAt ==
  ASSUME TypeOK, NEW l \in Locations, NEW x \in Ids \union {0}
  PROVE  /\ Set(l, x) \in [Dirs -> [Entries -> 0..MaxInodes]]
         /\ \A d \in Dirs, n \in Entries:
              Set(l, x)[d][n] = IF d = l[1] /\ n = l[2] THEN x ELSE entry[d][n]
<1>1. /\ l[1] \in Dirs /\ l[2] \in Entries /\ x \in 0..MaxInodes
      /\ entry \in [Dirs -> [Entries -> 0..MaxInodes]]
  BY Constant DEF TypeOK
<1> QED BY <1>1 DEF Set

(* What was at l is at t. *)
Moved(l, t, x) == [entry EXCEPT ![t[1]][t[2]] = x, ![l[1]][l[2]] = 0]

(* A name is moved to another one, and no third is touched. *)
LEMMA MoveAt ==
  ASSUME TypeOK, NEW l \in Locations, NEW t \in Locations, NEW x \in Ids \union {0}, NEW e,
         e = Moved(l, t, x)
  PROVE  /\ e \in [Dirs -> [Entries -> 0..MaxInodes]]
         /\ \A d \in Dirs, n \in Entries:
              e[d][n] = IF d = l[1] /\ n = l[2] THEN 0
                        ELSE IF d = t[1] /\ n = t[2] THEN x ELSE entry[d][n]
<1>1. /\ l[1] \in Dirs /\ l[2] \in Entries /\ x \in 0..MaxInodes /\ 0 \in 0..MaxInodes
      /\ t[1] \in Dirs /\ t[2] \in Entries
      /\ entry \in [Dirs -> [Entries -> 0..MaxInodes]]
  BY Constant DEF TypeOK
<1> DEFINE f == [entry EXCEPT ![t[1]][t[2]] = x]
<1>2. /\ f \in [Dirs -> [Entries -> 0..MaxInodes]]
      /\ \A d \in Dirs, n \in Entries:
           f[d][n] = IF d = t[1] /\ n = t[2] THEN x ELSE entry[d][n]
  BY <1>1
<1>3. e = [f EXCEPT ![l[1]][l[2]] = 0]
  BY DEF Moved
<1> HIDE DEF f
<1>4. [f[l[1]] EXCEPT ![l[2]] = 0] \in [Entries -> 0..MaxInodes]
  BY <1>1, <1>2
<1>5. e = [f EXCEPT ![l[1]] = [f[l[1]] EXCEPT ![l[2]] = 0]]
  BY <1>3
<1>6. e \in [Dirs -> [Entries -> 0..MaxInodes]]
  BY <1>1, <1>2, <1>4, <1>5
<1>7. \A d \in Dirs, n \in Entries: e[d][n] = IF d = l[1] /\ n = l[2] THEN 0 ELSE f[d][n]
  BY <1>1, <1>2, <1>5
<1>8. ASSUME NEW d \in Dirs, NEW n \in Entries
      PROVE  e[d][n] = IF d = l[1] /\ n = l[2] THEN 0
                       ELSE IF d = t[1] /\ n = t[2] THEN x ELSE entry[d][n]
  <2>1. e[d][n] = IF d = l[1] /\ n = l[2] THEN 0 ELSE f[d][n]
    BY <1>7
  <2>2. f[d][n] = IF d = t[1] /\ n = t[2] THEN x ELSE entry[d][n]
    BY <1>2
  <2> QED BY <2>1, <2>2
<1> QED BY <1>6, <1>8

(* A newer or more complete version of what was there. *)
Succeeds(i) ==
  \A k \in Ids: inode[k].kind # "none" =>
    /\ i[k].born = inode[k].born /\ i[k].changes >= inode[k].changes /\ i[k].kind # "none"
    /\ inode[k].kind = "file" => i[k].kind = "file"
    /\ inode[k].whole => i[k].whole

(* A system call leaves the inodes that still have a name or a descriptor. *)
LEMMA PerformKeeps ==
  ASSUME NEW e, NEW i \in [Ids -> InodeType], NEW q, Perform(e, i, q),
         e \in [Dirs -> [Entries -> 0..MaxInodes]], q \in [Reqs -> ReqType]
  PROVE  /\ entry' = e /\ req' = q /\ inode' \in [Ids -> InodeType]
         /\ \A k \in Ids: inode'[k] = i[k] \/ inode'[k] = NoInode
         /\ \A d \in Dirs, n \in Entries: e[d][n] # 0 => inode'[e[d][n]] = i[e[d][n]]
         /\ \A s \in Reqs: \A k \in {q[s].origin, q[s].stage, q[s].file}:
              k # 0 => inode'[k] = i[k]
<1>1. entry' = e /\ req' = q /\ inode' = Collected(i, e, q)
  BY DEF Perform
<1>2. /\ inode' \in [Ids -> InodeType]
      /\ \A k \in Ids: inode'[k] = i[k] \/ inode'[k] = NoInode
      /\ \A d \in Dirs, n \in Entries: e[d][n] \in Ids => inode'[e[d][n]] = i[e[d][n]]
      /\ \A s \in Reqs: \A k \in {q[s].origin, q[s].stage, q[s].file}: k \in Ids => inode'[k] = i[k]
  BY <1>1, CollectedKeeps
<1>3. \A d \in Dirs, n \in Entries: e[d][n] # 0 => e[d][n] \in Ids
  BY Constant
<1>4. ASSUME NEW s \in Reqs, NEW k \in {q[s].origin, q[s].stage, q[s].file}, k # 0 PROVE k \in Ids
  BY <1>4, RequestTypes
<1> QED BY <1>1, <1>2, <1>3, <1>4

(* It keeps the types if what it sets has them. *)
LEMMA PerformTypes ==
  ASSUME TypeOK, NEW e, NEW i \in [Ids -> InodeType], NEW q, Perform(e, i, q),
         e \in [Dirs -> [Entries -> 0..MaxInodes]], q \in [Reqs -> ReqType],
         boundary' = boundary, closed' \in BOOLEAN, where' \in [Dirs -> Dirs],
         staging' \subseteq Locations, edits' \in 0..Budget,
         \A k \in Ids: i[k].kind = "link" => i[k].to \in Spots,
         \A d \in Dirs, n \in Entries: e[d][n] # 0 => i[e[d][n]].kind # "none",
         \A d \in Dirs, n \in Names: e[d][n] # 0 => i[e[d][n]].whole,
         \A s \in Reqs:
           /\ \A k \in {q[s].origin, q[s].stage, q[s].file}: k # 0 => i[k].kind = "file"
           /\ q[s].pc \notin {"idle", "done"} => q[s].loc \in Spots
           /\ q[s].kind = "rename" => q[s].to \in Spots
  PROVE  TypeOK' /\ WholeNames'
<1>1. /\ entry' = e /\ req' = q /\ inode' \in [Ids -> InodeType]
      /\ \A k \in Ids: inode'[k] = i[k] \/ inode'[k] = NoInode
      /\ \A d \in Dirs, n \in Entries: e[d][n] # 0 => inode'[e[d][n]] = i[e[d][n]]
      /\ \A s \in Reqs: \A k \in {q[s].origin, q[s].stage, q[s].file}:
           k # 0 => inode'[k] = i[k]
  BY PerformKeeps
<1>2. ASSUME NEW k \in Ids, Kind(k)' = "link" PROVE inode'[k].to \in Spots
  <2>1. inode'[k].kind = "link"
    BY <1>2, Constant DEF Kind, Inode
  <2> QED BY <1>1, <2>1 DEF NoInode
<1>3. ASSUME NEW l \in Locations, IdOf(l)' # 0 PROVE Kind(IdOf(l))' # "none"
  <2>1. l[1] \in Dirs /\ l[2] \in Entries /\ IdOf(l)' = e[l[1]][l[2]]
    BY <1>1, Constant DEF IdOf
  <2>2. Kind(IdOf(l))' = i[e[l[1]][l[2]]].kind
    BY <1>1, <1>3, <2>1 DEF Kind, Inode
  <2> QED BY <1>3, <2>1, <2>2
<1>4. ASSUME NEW s \in Reqs, NEW k \in {req'[s].origin, req'[s].stage, req'[s].file} \ {0}
      PROVE  Kind(k)' = "file"
  <2>1. inode'[k] = i[k] /\ i[k].kind = "file"
    BY <1>1, <1>4
  <2> QED BY <1>4, <2>1 DEF Kind, Inode
<1>5. TypeOK'
  BY <1>1, <1>2, <1>3, <1>4 DEF TypeOK
<1>6. WholeNames'
  <2> SUFFICES ASSUME NEW l \in Spots, ~Free(l)' PROVE (inode[IdOf(l)].whole)'
    BY DEF WholeNames
  <2>1. l[1] \in Dirs /\ l[2] \in Names /\ l[2] \in Entries
    BY Constant
  <2>2. IdOf(l)' = e[l[1]][l[2]] /\ e[l[1]][l[2]] # 0
    BY <1>1 DEF IdOf, Free
  <2> QED BY <1>1, <2>1, <2>2
<1> QED BY <1>5, <1>6

(* It spares the other requests if it keeps to its own staging files. *)
LEMMA PerformOthers ==
  ASSUME TypeOK, NEW e, NEW i \in [Ids -> InodeType], NEW q, Perform(e, i, q),
         e \in [Dirs -> [Entries -> 0..MaxInodes]], q \in [Reqs -> ReqType],
         Succeeds(i), NEW a,
         \A s \in Reqs \ {a}:
           /\ q[s] = req[s] \/ q[s] = Disquieted(req[s])
           /\ q[s].quiet => Calm
           /\ \A d \in Dirs: e[d][s] = entry[d][s] /\ (<<d, s>> \in staging' <=> <<d, s>> \in staging)
  PROVE  Spares(a)
<1> SUFFICES ASSUME NEW s \in Reqs \ {a}
             PROVE  /\ \A k \in {req[s].origin, req[s].stage, req[s].file}: k # 0 => KeepsInode(k)
                    /\ \A d \in Dirs: entry[d][s] # 0 => KeepsInode(entry[d][s])
  BY DEF Spares, Perform
<1>1. /\ \A d \in Dirs, n \in Entries: e[d][n] # 0 => inode'[e[d][n]] = i[e[d][n]]
      /\ \A k \in {q[s].origin, q[s].stage, q[s].file}: k # 0 => inode'[k] = i[k]
  BY PerformKeeps
<1>2. ASSUME NEW k \in Ids, inode[k].kind # "none", inode'[k] = i[k] PROVE KeepsInode(k)
  BY <1>2 DEF Succeeds, KeepsInode
<1>3. ASSUME NEW k \in {req[s].origin, req[s].stage, req[s].file}, k # 0 PROVE KeepsInode(k)
  <2>1. k \in Ids /\ Kind(k) = "file" /\ req[s] \in ReqType
    BY <1>3, RequestTypes DEF TypeOK
  <2>2. inode[k].kind # "none"
    BY <1>3, <2>1 DEF Kind, Inode
  <2>3. /\ q[s].origin = req[s].origin /\ q[s].stage = req[s].stage /\ q[s].file = req[s].file
    BY <2>1 DEF Disquieted, ReqType
  <2> QED BY <1>1, <1>2, <1>3, <2>1, <2>2, <2>3
<1>4. ASSUME NEW d \in Dirs, entry[d][s] # 0 PROVE KeepsInode(entry[d][s])
  <2>1. /\ <<d, s>> \in Locations /\ IdOf(<<d, s>>) = entry[d][s] /\ s \in Entries
        /\ e[d][s] = entry[d][s]
    BY Constant DEF Locations, IdOf
  <2>2. entry[d][s] \in Ids /\ Kind(entry[d][s]) # "none"
    BY <1>4, <2>1, FileTypes DEF TypeOK
  <2>3. inode[entry[d][s]].kind # "none"
    BY <1>4, <2>2 DEF Kind, Inode
  <2> QED BY <1>1, <1>2, <1>4, <2>1, <2>2, <2>3
<1> QED BY <1>3, <1>4

(* What names, links and descriptors refer to, by the invariant. *)
LEMMA Referred ==
  ASSUME LInv
  PROVE  /\ \A d \in Dirs, n \in Entries: entry[d][n] # 0 =>
              entry[d][n] \in Ids /\ inode[entry[d][n]].kind # "none"
         /\ \A d \in Dirs, n \in Names: entry[d][n] # 0 => inode[entry[d][n]].whole
         /\ \A k \in Ids: inode[k].kind = "link" => inode[k].to \in Spots
         /\ \A s \in Reqs:
              /\ \A k \in {req[s].origin, req[s].stage, req[s].file}:
                   k # 0 => k \in Ids /\ inode[k].kind = "file"
              /\ req[s].pc \notin {"idle", "done"} => req[s].loc \in Spots
              /\ req[s].kind = "rename" => req[s].to \in Spots
<1>1. TypeOK /\ WholeNames
  BY DEF LInv
<1>2. ASSUME NEW d \in Dirs, NEW n \in Entries, entry[d][n] # 0
      PROVE  entry[d][n] \in Ids /\ inode[entry[d][n]].kind # "none"
  <2>1. <<d, n>> \in Locations /\ IdOf(<<d, n>>) = entry[d][n]
    BY DEF Locations, IdOf
  <2>2. Kind(entry[d][n]) # "none"
    BY <1>1, <1>2, <2>1 DEF TypeOK
  <2> QED BY <1>1, <1>2, <2>2, FileTypes DEF Kind, Inode
<1>3. ASSUME NEW d \in Dirs, NEW n \in Names, entry[d][n] # 0 PROVE inode[entry[d][n]].whole
  <2>1. <<d, n>> \in Spots /\ IdOf(<<d, n>>) = entry[d][n]
    BY DEF Spots, IdOf
  <2> QED BY <1>1, <1>3, <2>1 DEF WholeNames, Free
<1>4. ASSUME NEW k \in Ids, inode[k].kind = "link" PROVE inode[k].to \in Spots
  BY <1>1, <1>4, Constant DEF TypeOK, Kind, Inode
<1>5. ASSUME NEW s \in Reqs, NEW k \in {req[s].origin, req[s].stage, req[s].file}, k # 0
      PROVE  k \in Ids /\ inode[k].kind = "file"
  <2>1. k \in Ids /\ Kind(k) = "file"
    BY <1>1, <1>5, RequestTypes DEF TypeOK
  <2> QED BY <1>5, <2>1 DEF Kind, Inode
<1> QED BY <1>1, <1>2, <1>3, <1>4, <1>5 DEF TypeOK

(* A look sees nothing of a call that only changes names of staging files. *)
LEMMA PerformCalm ==
  ASSUME TypeOK, NEW e, NEW i \in [Ids -> InodeType], NEW q, Perform(e, i, q),
         e \in [Dirs -> [Entries -> 0..MaxInodes]], q \in [Reqs -> ReqType], where' = where,
         \A d \in Dirs, n \in Names:
           /\ e[d][n] = entry[d][n]
           /\ entry[d][n] # 0 =>
                LET k == entry[d][n]
                IN /\ i[k].kind = inode[k].kind /\ i[k].born = inode[k].born
                   /\ i[k].changes = inode[k].changes /\ i[k].to = inode[k].to,
         \A d \in Dirs, n \in Entries: e[d][n] # entry[d][n] =>
           e[d][n] = 0 \/ \A l \in Locations: IdOf(l) # e[d][n]
  PROVE  Calm
<1>1. /\ entry' = e
      /\ \A d \in Dirs, n \in Entries: e[d][n] # 0 => inode'[e[d][n]] = i[e[d][n]]
  BY PerformKeeps
<1>2. ASSUME NEW l \in Spots PROVE entry'[l[1]][l[2]] = IdOf(l)
  BY <1>1, Constant DEF IdOf
<1>3. ASSUME NEW l \in Spots, IdOf(l) # 0
      PROVE  /\ inode'[IdOf(l)].kind = inode[IdOf(l)].kind /\ inode'[IdOf(l)].born = inode[IdOf(l)].born
             /\ inode'[IdOf(l)].changes = inode[IdOf(l)].changes /\ inode'[IdOf(l)].to = inode[IdOf(l)].to
  <2>1. l[1] \in Dirs /\ l[2] \in Names /\ l[2] \in Entries /\ IdOf(l) = entry[l[1]][l[2]]
    BY Constant DEF IdOf
  <2>2. inode'[IdOf(l)] = i[IdOf(l)]
    BY <1>1, <1>3, <2>1
  <2> QED BY <1>3, <2>1, <2>2
<1>4. ASSUME NEW l \in Spots, IdOf(l) # 0, NEW m \in Locations, entry'[m[1]][m[2]] = IdOf(l)
      PROVE  IdOf(m) = IdOf(l)
  <2>1. m[1] \in Dirs /\ m[2] \in Entries /\ l \in Locations
    BY Constant
  <2>2. e[m[1]][m[2]] = IdOf(l)
    BY <1>1, <1>4
  <2>3. e[m[1]][m[2]] = entry[m[1]][m[2]]
    BY <1>4, <2>1, <2>2
  <2> QED BY <2>2, <2>3 DEF IdOf
<1> QED BY <1>2, <1>3, <1>4 DEF Calm

(* Every look of somebody else is disturbed. *)
LEMMA DisturbedOthers ==
  ASSUME NEW q \in [Reqs -> ReqType], NEW a,
         \A s \in Reqs \ {a}: q[s] = req[s]
  PROVE  /\ Disturbed(q, a) \in [Reqs -> ReqType]
         /\ a \in Reqs => Disturbed(q, a)[a] = q[a]
         /\ \A s \in Reqs \ {a}: /\ Disturbed(q, a)[s] = Disquieted(req[s])
                                 /\ ~Disturbed(q, a)[s].quiet
<1>1. ASSUME NEW s \in Reqs
      PROVE  Disquieted(q[s]) \in ReqType /\ ~Disquieted(q[s]).quiet
  <2>1. q[s] \in ReqType
    OBVIOUS
  <2> QED BY <2>1 DEF Disquieted, ReqType
<1> DEFINE u == [s \in Reqs |-> IF s = a THEN q[s] ELSE Disquieted(q[s])]
<1>2. Disturbed(q, a) = u
  BY DEF Disturbed, Disquieted
<1>3. u \in [Reqs -> ReqType]
  BY <1>1
<1>4. a \in Reqs => u[a] = q[a]
  OBVIOUS
<1>5. ASSUME NEW s \in Reqs \ {a}
      PROVE  u[s] = Disquieted(req[s]) /\ ~u[s].quiet
  <2>1. u[s] = Disquieted(q[s]) /\ q[s] = req[s]
    OBVIOUS
  <2> QED BY <1>1, <2>1
<1> HIDE DEF u
<1> QED BY <1>2, <1>3, <1>4, <1>5

(* The same of one that a request makes on its way. *)
LEMMA DisturbedBut ==
  ASSUME TypeOK, NEW r \in Reqs, NEW p \in ReqType, NEW q,
         q = Disturbed([req EXCEPT ![r] = p], r)
  PROVE  /\ q \in [Reqs -> ReqType] /\ q[r] = p
         /\ \A w \in Reqs \ {r}: q[w] = Disquieted(req[w]) /\ ~q[w].quiet
<1> DEFINE u == [req EXCEPT ![r] = p]
<1>1. u \in [Reqs -> ReqType] /\ u[r] = p /\ \A s \in Reqs \ {r}: u[s] = req[s]
  BY DEF TypeOK
<1>2. /\ Disturbed(u, r) \in [Reqs -> ReqType] /\ Disturbed(u, r)[r] = u[r]
      /\ \A s \in Reqs \ {r}: /\ Disturbed(u, r)[s] = Disquieted(req[s])
                              /\ ~Disturbed(u, r)[s].quiet
  <2> HIDE DEF u
  <2>1. \A s \in Reqs \ {r}: u[s] = req[s]
    BY <1>1
  <2>2. u \in [Reqs -> ReqType]
    BY <1>1
  <2>3. Disturbed(u, r) \in [Reqs -> ReqType]
    BY <2>1, <2>2, DisturbedOthers
  <2>4. Disturbed(u, r)[r] = u[r]
    BY <2>1, <2>2, DisturbedOthers
  <2>5. ASSUME NEW s \in Reqs \ {r} PROVE Disturbed(u, r)[s] = Disquieted(req[s])
    <3>1. Disturbed(u, r)[s] = [u[s] EXCEPT !.quiet = FALSE]
      BY DEF Disturbed
    <3> QED BY <2>1, <3>1 DEF Disquieted
  <2>6. ASSUME NEW s \in Reqs \ {r} PROVE ~Disturbed(u, r)[s].quiet
    <3>1. req[s] \in ReqType
      BY DEF TypeOK
    <3> QED BY <2>5, <3>1 DEF Disquieted, ReqType
  <2> QED BY <2>3, <2>4, <2>5, <2>6
<1>3. q = Disturbed(u, r)
  OBVIOUS
<1> HIDE DEF u
<1> QED BY <1>1, <1>2, <1>3

(* A new inode is a newer version of none. *)
LEMMA FreshSucceeds ==
  ASSUME TypeOK, ~Full, NEW x \in InodeType
  PROVE  /\ [inode EXCEPT ![Fresh] = x] \in [Ids -> InodeType]
         /\ [inode EXCEPT ![Fresh] = x][Fresh] = x
         /\ \A k \in Ids: k # Fresh => [inode EXCEPT ![Fresh] = x][k] = inode[k]
         /\ Succeeds([inode EXCEPT ![Fresh] = x])
<1> DEFINE i == [inode EXCEPT ![Fresh] = x]
<1>1. Fresh \in Ids /\ inode[Fresh].kind = "none" /\ inode \in [Ids -> InodeType]
  BY FreshId DEF NoInode, TypeOK
<1>2. i \in [Ids -> InodeType] /\ i[Fresh] = x /\ \A k \in Ids: k # Fresh => i[k] = inode[k]
  BY <1>1
<1> HIDE DEF i
<1>3. ASSUME NEW k \in Ids, inode[k].kind # "none"
      PROVE  i[k] = inode[k] /\ i[k].changes >= inode[k].changes
  BY <1>1, <1>2, <1>3, FileTypes
<1>4. Succeeds(i)
  BY <1>3 DEF Succeeds
<1> QED BY <1>2, <1>4 DEF i

(* A step of a request that changes names, inodes or marks, and its own      *)
(* part: what the others depend on is kept.                                  *)
LEMMA ActKeeps ==
  ASSUME LInv, NEW r \in Reqs, NEW e \in [Dirs -> [Entries -> 0..MaxInodes]],
         NEW i \in [Ids -> InodeType], NEW q \in [Reqs -> ReqType], Perform(e, i, q), Succeeds(i),
         UNCHANGED <<boundary, closed, where, edits>>, staging' \subseteq Locations,
         \A s \in Reqs \ {r}:
           /\ q[s] = req[s] \/ q[s] = Disquieted(req[s])
           /\ q[s].quiet => Calm,
         \A d \in Dirs, s \in Reqs: s # r =>
           e[d][s] = entry[d][s] /\ (<<d, s>> \in staging' <=> <<d, s>> \in staging),
         \A k \in Ids: i[k].kind = "link" => i[k].to \in Spots,
         \A d \in Dirs, n \in Entries: e[d][n] # 0 => i[e[d][n]].kind # "none",
         \A d \in Dirs, n \in Names: e[d][n] # 0 => i[e[d][n]].whole,
         q[r].origin # 0 => i[q[r].origin].kind = "file",
         q[r].stage # 0 => i[q[r].stage].kind = "file",
         q[r].file # 0 => i[q[r].file].kind = "file",
         q[r].pc \notin {"idle", "done"} => q[r].loc \in Spots,
         q[r].kind = "rename" => q[r].to \in Spots,
         RequestOK(r, req[r])', Advances(req[r], q[r]), \A w \in Reqs: w \notin q[r].shown
  PROVE  LInv'
<1>1. TypeOK /\ WholeNames
  BY DEF LInv
<1>2. /\ \A s \in Reqs:
           /\ \A k \in {req[s].origin, req[s].stage, req[s].file}:
                k # 0 => k \in Ids /\ inode[k].kind = "file"
           /\ req[s].pc \notin {"idle", "done"} => req[s].loc \in Spots
           /\ req[s].kind = "rename" => req[s].to \in Spots
  BY Referred
<1>3. ASSUME NEW s \in Reqs
      PROVE  /\ \A k \in {q[s].origin, q[s].stage, q[s].file}: k # 0 => i[k].kind = "file"
             /\ q[s].pc \notin {"idle", "done"} => q[s].loc \in Spots
             /\ q[s].kind = "rename" => q[s].to \in Spots
  <2>1. CASE s = r
    BY <2>1
  <2>2. CASE s # r
    <3>1. q[s] = req[s] \/ q[s] = Disquieted(req[s])
      BY <2>2
    <3>2. req[s] \in ReqType
      BY <1>1 DEF TypeOK
    <3>3. /\ q[s].origin = req[s].origin /\ q[s].stage = req[s].stage /\ q[s].file = req[s].file
          /\ q[s].pc = req[s].pc /\ q[s].loc = req[s].loc /\ q[s].kind = req[s].kind
          /\ q[s].to = req[s].to
      BY <3>1, <3>2 DEF Disquieted, ReqType
    <3>4. \A k \in {req[s].origin, req[s].stage, req[s].file}: k # 0 => i[k].kind = "file"
      BY <1>2 DEF Succeeds
    <3> QED BY <1>2, <3>3, <3>4
  <2> QED BY <2>1, <2>2
<1>4. /\ boundary' = boundary /\ closed' \in BOOLEAN /\ where' \in [Dirs -> Dirs]
      /\ edits' \in 0..Budget
  BY <1>1 DEF TypeOK
<1>5. TypeOK' /\ WholeNames'
  BY <1>1, <1>3, <1>4, PerformTypes
<1>6. Spares(r)
  <2>1. ASSUME NEW s \in Reqs \ {r}
        PROVE  /\ q[s] = req[s] \/ q[s] = Disquieted(req[s])
               /\ q[s].quiet => Calm
               /\ \A d \in Dirs: e[d][s] = entry[d][s] /\ (<<d, s>> \in staging' <=> <<d, s>> \in staging)
    OBVIOUS
  <2>2. /\ TypeOK /\ Perform(e, i, q) /\ Succeeds(i) /\ i \in [Ids -> InodeType]
        /\ e \in [Dirs -> [Entries -> 0..MaxInodes]] /\ q \in [Reqs -> ReqType]
    BY <1>1
  <2> QED BY <2>1, <2>2, PerformOthers
<1>7. Surroundings
  BY DEF Surroundings
<1>8. req' = q
  BY DEF Perform
<1>9. Advances(req[r], req[r]') /\ \A w \in Reqs: Hidden(req[r], w, req[w])'
  BY <1>8 DEF Hidden
<1> QED BY <1>5, <1>6, <1>7, <1>9, StepKeeps

(* Names that were there before, or none. *)
LEMMA NamesKept ==
  ASSUME LInv, NEW i, Succeeds(i), NEW k \in Ids \union {0}, k # 0,
         NEW d \in Dirs, NEW n \in Entries, entry[d][n] = k
  PROVE  i[k].kind # "none" /\ (n \in Names => i[k].whole)
<1>1. k \in Ids /\ inode[k].kind # "none" /\ (n \in Names => inode[k].whole)
  BY Referred
<1> QED BY <1>1 DEF Succeeds

(* One name of a directory is set. *)
LEMMA SetName ==
  ASSUME TypeOK, NEW d \in Dirs, NEW n \in Entries, NEW x \in Ids \union {0}, NEW e,
         e = Set(<<d, n>>, x)
  PROVE  /\ e \in [Dirs -> [Entries -> 0..MaxInodes]]
         /\ \A c \in Dirs, m \in Entries: e[c][m] = IF c = d /\ m = n THEN x ELSE entry[c][m]
<1>1. <<d, n>> \in Locations /\ <<d, n>>[1] = d /\ <<d, n>>[2] = n
  BY DEF Locations
<1> QED BY <1>1, SetAt

(* createStaged: a fresh inode under a name nobody else uses. *)
LEMMA CreateStagedInv ==
  ASSUME LInv, NEW r \in Reqs, CreateStaged(r)
  PROVE  LInv'
<1>1. req[r].pc = "stage" /\ req[r].pc \notin Holding \union {"done"}
  BY DEF CreateStaged, At, Holding
<1>2. /\ TypeOK /\ req[r] \in ReqType /\ Told(req[r]) /\ Looked(req[r]) /\ Confined(req[r])
      /\ req[r].served = NoTime /\ \A w \in Reqs: w \notin req[r].shown
      /\ \A d \in Dirs: entry[d][r] = 0 /\ <<d, r>> \notin staging
  BY <1>1, NothingStaged
<1>3. CASE Return(r)
  BY <1>1, <1>3, ReturnInv
<1> DEFINE d == Reached(req[r].loc[1])
           x == [NewInode("file", r) EXCEPT !.whole = FALSE]
           e == Set(<<d, r>>, Fresh)
           i == [inode EXCEPT ![Fresh] = x]
           p == [req[r] EXCEPT !.pc = "mark", !.stage = Fresh, !.in = d]
           q == [req EXCEPT ![r] = p]
<1>4. CASE /\ d # NoRoot /\ ~Full
           /\ Perform(e, i, [req EXCEPT ![r].pc = "mark", ![r].stage = Fresh, ![r].in = d])
           /\ UNCHANGED <<boundary, closed, where, staging, edits>>
  <2>1. req[r].loc \in Spots
    BY <1>1, <1>2 DEF TypeOK
  <2>2. d = where[req[r].loc[1]] /\ d \in Dirs /\ r \in Entries
    BY <1>2, <1>4, <2>1, LookedUp, Constant
  <2>3. /\ Fresh \in Ids /\ Fresh # 0 /\ Fresh \in 0..MaxInodes
        /\ \A l \in Locations: IdOf(l) # Fresh
        /\ \A c \in Dirs, n \in Entries: entry[c][n] # Fresh
        /\ req[r].origin # Fresh /\ req[r].file # Fresh
    BY <1>2, <1>4, FreshId, Constant
  <2>4. /\ e \in [Dirs -> [Entries -> 0..MaxInodes]]
        /\ \A c \in Dirs, n \in Entries: e[c][n] = IF c = d /\ n = r THEN Fresh ELSE entry[c][n]
    <3> HIDE DEF d
    <3> QED BY <1>2, <2>2, <2>3, SetName
  <2>5. x \in InodeType /\ x.kind = "file"
    BY Constant DEF NewInode, NoInode, InodeType, Makers
  <2>6. /\ i \in [Ids -> InodeType] /\ i[Fresh] = x /\ Succeeds(i)
        /\ \A k \in Ids: k # Fresh => i[k] = inode[k]
    <3> HIDE DEF x
    <3> QED BY <1>2, <1>4, <2>5, FreshSucceeds
  <2>7. /\ p \in ReqType /\ p.pc = "mark" /\ p.kind = req[r].kind /\ p.loc = req[r].loc
        /\ p.to = req[r].to /\ p.in = d /\ p.file = req[r].file /\ p.stage = Fresh
        /\ p.served = NoTime /\ p.shown = req[r].shown /\ p.origin = req[r].origin
        /\ p.born = req[r].born
    BY <1>2, <2>2, <2>3 DEF ReqType
  <2>8. [req EXCEPT ![r].pc = "mark", ![r].stage = Fresh, ![r].in = d] = q
    BY <1>2 DEF TypeOK
  <2>9. Perform(e, i, q)
    BY <1>4, <2>8
  <2> HIDE DEF p, x, d
  <2>10. q \in [Reqs -> ReqType] /\ q[r] = p /\ \A s \in Reqs \ {r}: q[s] = req[s]
    BY <1>2, <2>7 DEF TypeOK
  <2> HIDE DEF q, e, i
  <2>11. /\ \A c \in Dirs, n \in Entries: entry[c][n] # 0 =>
              entry[c][n] \in Ids /\ inode[entry[c][n]].kind # "none"
         /\ \A c \in Dirs, n \in Names: entry[c][n] # 0 => inode[entry[c][n]].whole
         /\ \A k \in Ids: inode[k].kind = "link" => inode[k].to \in Spots
         /\ req[r].origin # 0 => req[r].origin \in Ids /\ inode[req[r].origin].kind = "file"
         /\ req[r].file # 0 => req[r].file \in Ids /\ inode[req[r].file].kind = "file"
         /\ req[r].kind = "rename" => req[r].to \in Spots
    BY Referred
  <2>12. \A c \in Dirs, n \in Names: e[c][n] = entry[c][n] /\ n \in Entries
    BY <2>4, Constant
  <2>13. \A k \in Ids: i[k].kind = "link" => i[k].to \in Spots
    BY <2>5, <2>6, <2>11
  <2>14. \A c \in Dirs, n \in Entries: e[c][n] # 0 => i[e[c][n]].kind # "none"
    BY <2>3, <2>4, <2>5, <2>6, <2>11
  <2>15. ASSUME NEW c \in Dirs, NEW n \in Names, entry[c][n] # 0
         PROVE  i[entry[c][n]] = inode[entry[c][n]]
    BY <2>3, <2>6, <2>11, <2>12, <2>15
  <2>16. \A c \in Dirs, n \in Names: e[c][n] # 0 => i[e[c][n]].whole
    BY <2>11, <2>12, <2>15
  <2>17. /\ q[r].origin # 0 => i[q[r].origin] = inode[q[r].origin] /\ i[q[r].origin].kind = "file"
         /\ q[r].file # 0 => i[q[r].file].kind = "file"
         /\ i[q[r].stage].kind = "file"
    <3>1. q[r].origin = req[r].origin /\ q[r].file = req[r].file /\ q[r].stage = Fresh
      BY <2>7, <2>10
    <3>2. req[r].origin # 0 => i[req[r].origin] = inode[req[r].origin]
      BY <2>3, <2>6, <2>11
    <3>3. req[r].file # 0 => i[req[r].file] = inode[req[r].file]
      BY <2>3, <2>6, <2>11
    <3>4. i[Fresh].kind = "file"
      BY <2>5, <2>6
    <3> QED BY <2>11, <3>1, <3>2, <3>3, <3>4
  <2>18. Calm
    <3>1. \A c \in Dirs, n \in Entries: e[c][n] # entry[c][n] => e[c][n] = Fresh
      BY <2>4
    <3>2. where' = where
      BY <1>4
    <3>3. ASSUME NEW c \in Dirs, NEW n \in Names
          PROVE  /\ e[c][n] = entry[c][n]
                 /\ entry[c][n] # 0 =>
                      LET k == entry[c][n]
                      IN /\ i[k].kind = inode[k].kind /\ i[k].born = inode[k].born
                         /\ i[k].changes = inode[k].changes /\ i[k].to = inode[k].to
      BY <2>12, <2>15
    <3>4. \A c \in Dirs, n \in Entries: e[c][n] # entry[c][n] =>
            e[c][n] = 0 \/ \A l \in Locations: IdOf(l) # e[c][n]
      BY <2>3, <3>1
    <3> QED BY <1>2, <2>4, <2>6, <2>9, <2>10, <3>2, <3>3, <3>4, PerformCalm
  <2>19. req'[r] = p /\ entry' = e
    BY <2>9, <2>10 DEF Perform
  <2>20. RequestOK(r, req[r])'
    <3>1. StagedIn(r, req[r])' /\ StagedWhole(r, req[r])'
      BY <1>2, <2>4, <2>7, <2>19, Constant, ZenonT(40) DEF StagedIn, StagedWhole, Holding
    <3>2. MarkedAs(r, req[r])'
      BY <1>2, <1>4, <2>7, <2>19 DEF MarkedAs, Holding
    <3>3. InPlace(req[r])'
      <4>1. Swapped \/ d = req[r].loc[1]
        BY <2>1, <2>2, Constant DEF Swapped
      <4> QED BY <1>4, <2>2, <2>7, <2>19, <4>1 DEF InPlace, Swapped
    <3>4. Born(req[r].origin)' = Born(req[r].origin)
      <4>1. \A k \in {q[r].origin, q[r].stage, q[r].file}: k # 0 => inode'[k] = i[k]
        BY <2>4, <2>6, <2>9, <2>10, PerformKeeps
      <4>2. req[r].origin # 0 => inode'[req[r].origin] = inode[req[r].origin]
        BY <2>7, <2>10, <2>17, <4>1
      <4> QED BY <2>7, <2>19, <4>2 DEF Born, Inode
    <3>5. Looked(req[r])' /\ Told(req[r])'
      BY <1>1, <1>2, <2>7, <2>19, <3>4 DEF Looked, Told
    <3>6. Confined(req[r])'
      BY <1>1, <1>2, <1>4, <2>7, <2>19 DEF Confined, Within, Restricted
    <3> QED BY <3>1, <3>2, <3>3, <3>5, <3>6 DEF RequestOK
  <2>21. Advances(req[r], q[r]) /\ \A w \in Reqs: w \notin q[r].shown
    BY <1>1, <1>2, <2>7, <2>10 DEF Advances, Holding
  <2>22. /\ UNCHANGED <<boundary, closed, where, edits>> /\ staging' \subseteq Locations
         /\ \A s \in Reqs \ {r}: q[s] = req[s] /\ (q[s].quiet => Calm)
         /\ \A c \in Dirs, s \in Reqs: s # r =>
              e[c][s] = entry[c][s] /\ (<<c, s>> \in staging' <=> <<c, s>> \in staging)
    BY <1>2, <1>4, <2>4, <2>10, <2>18, Constant DEF TypeOK
  <2>23. /\ q[r].pc \notin {"idle", "done"} => q[r].loc \in Spots
         /\ q[r].kind = "rename" => q[r].to \in Spots
    BY <2>1, <2>7, <2>10, <2>11
  <2> QED BY <2>4, <2>6, <2>9, <2>10, <2>13, <2>14, <2>16, <2>17, <2>20, <2>21, <2>22, <2>23,
             ActKeeps, SMTT(40)
<1> QED BY <1>3, <1>4 DEF CreateStaged

(* A write goes on; no name changes, and at most a body gets whole. *)
LEMMA NamesStay ==
  ASSUME LInv, NEW r \in Reqs, req[r].pc \in Holding, NEW p \in ReqType, p.pc \in Holding,
         req' = [req EXCEPT ![r] = p], p.loc = req[r].loc, p.to = req[r].to, p.kind = req[r].kind,
         p.origin = req[r].origin, p.stage = req[r].stage, p.file = req[r].file,
         p.shown = req[r].shown, UNCHANGED <<boundary, closed, where, entry, edits>>,
         staging' \subseteq Locations,
         \A d \in Dirs, s \in Reqs: s # r => (<<d, s>> \in staging' <=> <<d, s>> \in staging),
         inode' \in [Ids -> InodeType],
         \A k \in Ids:
           /\ inode'[k].kind = inode[k].kind /\ inode'[k].born = inode[k].born
           /\ inode'[k].changes = inode[k].changes /\ inode'[k].to = inode[k].to
           /\ inode[k].whole => inode'[k].whole,
         RequestOK(r, req[r])'
  PROVE  LInv'
<1>1. TypeOK /\ WholeNames /\ req[r].pc \notin {"idle", "done", "serve", "skip", "act"}
  BY DEF LInv, Holding
<1>2. req' \in [Reqs -> ReqType] /\ req'[r] = p /\ \A s \in Reqs \ {r}: req'[s] = req[s]
  BY <1>1 DEF TypeOK
<1>3. \A s \in Reqs: /\ req'[s].origin = req[s].origin /\ req'[s].stage = req[s].stage
                     /\ req'[s].file = req[s].file /\ req'[s].to = req[s].to
                     /\ req'[s].loc = req[s].loc /\ req'[s].kind = req[s].kind
  BY <1>2
<1>4. \A k \in Ids \union {0}: Kind(k)' = Kind(k)
  BY DEF Kind, Inode
<1>5. TypeOK'
  <2>1. ASSUME NEW k \in Ids, Kind(k)' = "link" PROVE inode'[k].to \in Spots
    BY <1>1, <1>4, <2>1 DEF TypeOK
  <2>2. ASSUME NEW l \in Locations, IdOf(l)' # 0 PROVE Kind(IdOf(l))' # "none"
    <3>1. IdOf(l)' = IdOf(l) /\ IdOf(l) \in Ids \union {0}
      BY <1>1, FileTypes DEF IdOf
    <3> QED BY <1>1, <1>4, <2>2, <3>1 DEF TypeOK
  <2>3. ASSUME NEW s \in Reqs, NEW k \in {req'[s].origin, req'[s].stage, req'[s].file} \ {0}
        PROVE  Kind(k)' = "file"
    <3>1. k \in {req[s].origin, req[s].stage, req[s].file} \ {0} /\ req[s] \in ReqType
      BY <1>1, <1>3 DEF TypeOK
    <3>2. k \in Ids /\ Kind(k) = "file"
      BY <1>1, <3>1, RequestTypes DEF TypeOK
    <3> QED BY <1>4, <3>2
  <2>4. ASSUME NEW s \in Reqs
        PROVE  /\ req'[s].pc \notin {"idle", "done"} => req'[s].loc \in Spots
               /\ req'[s].kind = "rename" => req'[s].to \in Spots
    <3>1. req[s].pc \notin {"idle", "done"} => req[s].loc \in Spots
      BY <1>1 DEF TypeOK
    <3>2. req[s].kind = "rename" => req[s].to \in Spots
      BY <1>1 DEF TypeOK
    <3>3. req'[s].pc \notin {"idle", "done"} => req[s].pc \notin {"idle", "done"}
      BY <1>1, <1>2
    <3> QED BY <1>3, <3>1, <3>2, <3>3
  <2>5. /\ boundary' \in Boundaries /\ closed' \in BOOLEAN /\ where' \in [Dirs -> Dirs]
        /\ entry' \in [Dirs -> [Entries -> 0..MaxInodes]] /\ edits' \in 0..Budget
    BY <1>1 DEF TypeOK
  <2> QED BY <1>2, <2>1, <2>2, <2>3, <2>4, <2>5 DEF TypeOK
<1>6. WholeNames'
  <2> SUFFICES ASSUME NEW l \in Spots, ~Free(l)' PROVE (inode[IdOf(l)].whole)'
    BY DEF WholeNames
  <2>1. IdOf(l)' = IdOf(l) /\ IdOf(l) \in Ids /\ ~Free(l)
    BY <1>1, Constant, FileTypes DEF IdOf, Free
  <2> QED BY <1>1, <2>1 DEF WholeNames
<1>7. \A k \in Ids: KeepsInode(k)
  <2>1. \A k \in Ids: inode'[k].changes >= inode[k].changes
    BY <1>1, FileTypes
  <2> QED BY <2>1 DEF KeepsInode
<1>8. Spares(r)
  <2> SUFFICES ASSUME NEW s \in Reqs \ {r}
               PROVE  /\ \A k \in {req[s].origin, req[s].stage, req[s].file}: k # 0 => KeepsInode(k)
                      /\ \A d \in Dirs: entry[d][s] # 0 => KeepsInode(entry[d][s])
                      /\ req'[s].quiet => Calm
    BY <1>2 DEF Spares
  <2>1. \A k \in {req[s].origin, req[s].stage, req[s].file}: k # 0 => KeepsInode(k)
    BY <1>7, Referred
  <2>2. \A d \in Dirs: entry[d][s] # 0 => KeepsInode(entry[d][s])
    BY <1>7, Referred, Constant
  <2>3. Calm
    <3>1. ASSUME NEW l \in Locations PROVE entry'[l[1]][l[2]] = IdOf(l) /\ IdOf(l) \in Ids \union {0}
      BY <1>1, FileTypes DEF IdOf
    <3> QED BY <3>1, Constant DEF Calm
  <2> QED BY <2>1, <2>2, <2>3
<1>9. Surroundings
  BY DEF Surroundings
<1>10. \A w \in Reqs: w \notin req[r].shown
  BY <1>1 DEF LInv, Hidden
<1>11. Advances(req[r], req[r]') /\ \A w \in Reqs: Hidden(req[r], w, req[w])'
  BY <1>1, <1>2, <1>10 DEF Advances, Hidden
<1> QED BY <1>5, <1>6, <1>8, <1>9, <1>11, StepKeeps

(* createStaged: the mark, still under stagingMu. *)
LEMMA MarkStagedInv ==
  ASSUME LInv, NEW r \in Reqs, MarkStaged(r)
  PROVE  LInv'
<1> DEFINE p == [req[r] EXCEPT !.pc = "copy"]
<1>1. TypeOK /\ req[r] \in ReqType /\ RequestOK(r, req[r]) /\ req[r].pc = "mark"
  BY DEF LInv, TypeOK, MarkStaged, At
<1>2. /\ p \in ReqType /\ p.pc = "copy" /\ p.loc = req[r].loc /\ p.to = req[r].to
      /\ p.kind = req[r].kind /\ p.origin = req[r].origin /\ p.stage = req[r].stage
      /\ p.file = req[r].file /\ p.shown = req[r].shown /\ p.in = req[r].in /\ p.born = req[r].born
      /\ p.served = req[r].served
  BY <1>1 DEF ReqType
<1>3. req' = [req EXCEPT ![r] = p]
  BY <1>1 DEF MarkStaged, TypeOK
<1> HIDE DEF p
<1>4. UNCHANGED <<boundary, closed, where, entry, inode, edits>> /\ req'[r] = p
  BY <1>1, <1>3 DEF MarkStaged, fs, TypeOK
<1>5. req[r].loc \in Spots
  BY <1>1 DEF TypeOK
<1>6. staging' \subseteq Locations
  BY <1>1, <1>5, Constant DEF MarkStaged, TypeOK, Locations
<1>7. \A d \in Dirs, s \in Reqs: s # r => (<<d, s>> \in staging' <=> <<d, s>> \in staging)
  BY DEF MarkStaged
<1>8. RequestOK(r, req[r])'
  <2>1. MarkedAs(r, req[r])'
    BY <1>1, <1>2, <1>4 DEF RequestOK, MarkedAs, MarkStaged, Holding
  <2>2. StagedIn(r, req[r])' /\ StagedWhole(r, req[r])' /\ InPlace(req[r])'
    BY <1>1, <1>2, <1>4 DEF RequestOK, StagedIn, StagedWhole, InPlace, Holding, Swapped, LetGo, Restricted
  <2>3. Born(req[r].origin)' = Born(req[r].origin)
    BY <1>2, <1>4 DEF Born, Inode
  <2>4. Looked(req[r])' /\ Told(req[r])' /\ Confined(req[r])'
    BY <1>1, <1>2, <1>4, <2>3 DEF RequestOK, Looked, Told, Confined, Within, Restricted
  <2> QED BY <2>1, <2>2, <2>4 DEF RequestOK
<1>9. \A k \in Ids: inode'[k] = inode[k]
  BY <1>4
<1>10. inode' \in [Ids -> InodeType]
  BY <1>1, <1>4 DEF TypeOK
<1> QED BY <1>1, <1>2, <1>3, <1>4, <1>6, <1>7, <1>8, <1>9, <1>10, NamesStay DEF Holding

(* copyBody: with all of its body the staging file is whole. *)
LEMMA CopyBodyInv ==
  ASSUME LInv, NEW r \in Reqs, CopyBody(r)
  PROVE  LInv'
<1> DEFINE p == [req[r] EXCEPT !.pc = "confirm"]
<1>1. TypeOK /\ req[r] \in ReqType /\ RequestOK(r, req[r]) /\ req[r].pc = "copy"
  BY DEF LInv, TypeOK, CopyBody, At
<1>2. CASE Abandon(r)
  BY <1>1, <1>2, AbandonInv
<1>3. CASE /\ inode' = [inode EXCEPT ![req[r].stage].whole = TRUE]
           /\ req' = [req EXCEPT ![r].pc = "confirm"]
           /\ UNCHANGED <<boundary, closed, where, entry, staging, edits>>
  <2>1. /\ p \in ReqType /\ p.pc = "confirm" /\ p.loc = req[r].loc /\ p.to = req[r].to
        /\ p.kind = req[r].kind /\ p.origin = req[r].origin /\ p.stage = req[r].stage
        /\ p.file = req[r].file /\ p.shown = req[r].shown /\ p.in = req[r].in
        /\ p.born = req[r].born /\ p.served = req[r].served
    BY <1>1 DEF ReqType
  <2>2. req' = [req EXCEPT ![r] = p]
    BY <1>1, <1>3 DEF TypeOK
  <2> HIDE DEF p
  <2>3. req'[r] = p
    BY <1>1, <2>2 DEF TypeOK
  <2>4. ASSUME NEW k \in Ids
        PROVE  /\ inode'[k] \in InodeType
               /\ inode'[k].kind = inode[k].kind /\ inode'[k].born = inode[k].born
               /\ inode'[k].changes = inode[k].changes /\ inode'[k].to = inode[k].to
               /\ inode[k].whole => inode'[k].whole
               /\ k = req[r].stage => inode'[k].whole
    <3>1. inode[k] \in InodeType /\ inode \in [Ids -> InodeType]
      BY <1>1 DEF TypeOK
    <3>2. inode'[k] = IF k = req[r].stage THEN [inode[k] EXCEPT !.whole = TRUE] ELSE inode[k]
      BY <1>3, <3>1
    <3>3. CASE k = req[r].stage
      <4>1. inode'[k] = [inode[k] EXCEPT !.whole = TRUE]
        BY <3>2, <3>3
      <4> QED BY <3>1, <4>1 DEF InodeType
    <3>4. CASE k # req[r].stage
      BY <3>1, <3>2, <3>4
    <3> QED BY <3>3, <3>4
  <2>5. inode' \in [Ids -> InodeType]
    <3>1. inode' = [k \in Ids |-> inode'[k]]
      BY <1>1, <1>3 DEF TypeOK
    <3> QED BY <2>4, <3>1
  <2>6. staging' \subseteq Locations
    BY <1>1, <1>3 DEF TypeOK
  <2>7. RequestOK(r, req[r])'
    <3>1. MarkedAs(r, req[r])'
      BY <1>1, <1>3, <2>1, <2>3 DEF RequestOK, MarkedAs, Holding
    <3>2. StagedIn(r, req[r])' /\ InPlace(req[r])'
      BY <1>1, <1>3, <2>1, <2>3 DEF RequestOK, StagedIn, InPlace, Holding, Swapped, LetGo, Restricted
    <3>3. StagedWhole(r, req[r])'
      <4> SUFFICES ASSUME NEW d \in Dirs, entry[d][r] # 0 PROVE inode'[entry[d][r]].whole
        BY <1>3, <2>1, <2>3 DEF StagedWhole
      <4>1. entry[d][r] = req[r].stage
        BY <1>1 DEF RequestOK, StagedWhole
      <4>2. entry[d][r] \in Ids
        BY Referred, Constant
      <4> QED BY <2>4, <4>1, <4>2
    <3>4. Born(req[r].origin)' = Born(req[r].origin)
      <4>1. req[r].origin # 0 => req[r].origin \in Ids
        BY Referred
      <4> QED BY <2>1, <2>3, <2>4, <4>1 DEF Born, Inode
    <3>5. Looked(req[r])' /\ Told(req[r])' /\ Confined(req[r])'
      BY <1>1, <1>3, <2>1, <2>3, <3>4 DEF RequestOK, Looked, Told, Confined, Within, Restricted
    <3> QED BY <3>1, <3>2, <3>3, <3>5 DEF RequestOK
  <2> QED BY <1>1, <1>3, <2>1, <2>2, <2>4, <2>5, <2>6, <2>7, NamesStay DEF Holding
<1> QED BY <1>2, <1>3 DEF CopyBody

-----------------------------------------------------------------------------
(* The staging file replaces its target, or is removed. *)

(* The rename of the staging file over the target: what arrives there is     *)
(* whole.                                                                    *)
LEMMA CommitInv ==
  ASSUME LInv, NEW r \in Reqs, Commit(r)
  PROVE  LInv'
<1> DEFINE l == Entry(req[r].loc)
           s == <<l[1], r>>
           e == [entry EXCEPT ![l[1]][l[2]] = IdOf(s), ![l[1]][r] = 0]
           p == [req[r] EXCEPT !.pc = "stamp", !.quiet = FALSE]
           u == [req EXCEPT ![r] = p]
           q == Disturbed(u, r)
<1>1. TypeOK /\ WholeNames /\ req[r] \in ReqType /\ RequestOK(r, req[r]) /\ req[r].pc = "commit"
  BY DEF LInv, TypeOK, Commit, At
<1>2. CASE Abandon(r)
  BY <1>1, <1>2, AbandonInv
<1>3. CASE /\ l[1] # NoRoot /\ IdOf(s) # 0
           /\ Perform(e, inode, Disturbed([req EXCEPT ![r].pc = "stamp", ![r].quiet = FALSE], r))
           /\ UNCHANGED <<boundary, closed, where, staging, edits>>
  <2>1. [req EXCEPT ![r].pc = "stamp", ![r].quiet = FALSE] = u
    BY <1>1 DEF TypeOK
  <2>2. Perform(e, inode, q)
    BY <1>3, <2>1
  <2>3. req[r].loc \in Spots
    BY <1>1 DEF TypeOK
  <2>4. l[1] = Reached(req[r].loc[1])
    BY DEF Entry
  <2>5. l \in Spots /\ l[1] \in Dirs /\ l[2] \in Names /\ l[2] \in Entries /\ l[2] # r /\ r \in Entries
    BY <1>1, <1>3, <2>3, <2>4, LookedUp, Constant
  <2>6. s \in Locations /\ s[1] = l[1] /\ s[2] = r /\ l \in Locations
    BY <2>5, Constant DEF Locations
  <2>7. /\ p \in ReqType /\ p.pc = "stamp" /\ p.kind = req[r].kind /\ p.loc = req[r].loc
        /\ p.to = req[r].to /\ p.in = req[r].in /\ p.file = req[r].file /\ p.stage = req[r].stage
        /\ p.served = req[r].served /\ p.shown = req[r].shown /\ p.origin = req[r].origin
    BY <1>1 DEF ReqType
  <2> HIDE DEF p
  <2>9. /\ q \in [Reqs -> ReqType] /\ q[r] = p
        /\ \A w \in Reqs \ {r}: q[w] = Disquieted(req[w]) /\ ~q[w].quiet
    <3>1. q = Disturbed([req EXCEPT ![r] = p], r)
      BY DEF u
    <3> HIDE DEF q, l, s, e, u
    <3>2. TypeOK /\ p \in ReqType
      BY <1>1, <2>7
    <3>3. q \in [Reqs -> ReqType]
      BY <3>1, <3>2, DisturbedBut
    <3>4. q[r] = p
      BY <3>1, <3>2, DisturbedBut
    <3>5. \A w \in Reqs \ {r}: q[w] = Disquieted(req[w])
      BY <3>1, <3>2, DisturbedBut
    <3>6. \A w \in Reqs \ {r}: ~q[w].quiet
      BY <3>1, <3>2, DisturbedBut
    <3> QED BY <3>3, <3>4, <3>5, <3>6
  <2> HIDE DEF q
  <2>10. IdOf(s) = entry[l[1]][r] /\ IdOf(s) \in Ids \union {0}
    BY <1>1, <2>6, FileTypes DEF IdOf
  <2>11. e = Moved(s, l, IdOf(s))
    BY <2>6 DEF Moved
  <2> HIDE DEF e
  <2>12. /\ e \in [Dirs -> [Entries -> 0..MaxInodes]]
         /\ \A d \in Dirs, n \in Entries:
              e[d][n] = IF d = s[1] /\ n = s[2] THEN 0
                        ELSE IF d = l[1] /\ n = l[2] THEN IdOf(s) ELSE entry[d][n]
    <3> HIDE DEF l, s
    <3> QED BY <1>1, <2>6, <2>10, <2>11, MoveAt
  <2>13. /\ \A c \in Dirs, n \in Entries: entry[c][n] # 0 =>
              entry[c][n] \in Ids /\ inode[entry[c][n]].kind # "none"
         /\ \A c \in Dirs, n \in Names: entry[c][n] # 0 => inode[entry[c][n]].whole
         /\ \A k \in Ids: inode[k].kind = "link" => inode[k].to \in Spots
         /\ \A k \in {req[r].origin, req[r].stage, req[r].file}:
              k # 0 => k \in Ids /\ inode[k].kind = "file"
         /\ req[r].kind = "rename" => req[r].to \in Spots
    BY Referred
  <2>14. inode[IdOf(s)].whole /\ inode[IdOf(s)].kind # "none"
    BY <1>1, <1>3, <2>5, <2>10, <2>13 DEF RequestOK, StagedWhole
  <2>15. \A d \in Dirs, n \in Entries: e[d][n] # 0 => inode[e[d][n]].kind # "none"
    BY <2>12, <2>13, <2>14
  <2>16. \A d \in Dirs, n \in Names: e[d][n] # 0 => inode[e[d][n]].whole
    BY <2>12, <2>13, <2>14, Constant
  <2>17. Succeeds(inode)
    BY <1>1, FileTypes DEF Succeeds
  <2>18. req'[r] = p /\ entry' = e
    BY <2>2, <2>9 DEF Perform
  <2>19. \A d \in Dirs: e[d][r] = 0
    <3> SUFFICES ASSUME NEW d \in Dirs, d # l[1] PROVE e[d][r] = 0
      BY <2>5, <2>6, <2>12
    <3>1. e[d][r] = entry[d][r]
      BY <2>5, <2>6, <2>12
    <3>2. entry[d][r] # 0 => d = req[r].in
      BY <1>1 DEF RequestOK, StagedIn, Holding
    <3>3. l[1] = req[r].in
      BY <1>1, <1>3, <2>5, <2>10 DEF RequestOK, StagedIn, Holding
    <3> QED BY <3>1, <3>2, <3>3
  <2>20. RequestOK(r, req[r])'
    <3>1. StagedIn(r, req[r])' /\ StagedWhole(r, req[r])'
      BY <2>18, <2>19 DEF StagedIn, StagedWhole
    <3>2. MarkedAs(r, req[r])' /\ InPlace(req[r])' /\ Confined(req[r])'
      BY <1>1, <1>3, <2>7, <2>18
      DEF RequestOK, MarkedAs, InPlace, Confined, Within, Restricted, Swapped, Holding
    <3>3. Looked(req[r])' /\ Told(req[r])'
      BY <1>1, <2>7, <2>18 DEF RequestOK, Looked, Told
    <3> QED BY <3>1, <3>2, <3>3 DEF RequestOK
  <2>21. \A w \in Reqs: w \notin q[r].shown
    BY <1>1, <2>7, <2>9 DEF LInv, Hidden
  <2>22. Advances(req[r], q[r])
    BY <1>1, <2>7, <2>9 DEF Advances, Holding
  <2>23. /\ UNCHANGED <<boundary, closed, where, edits>> /\ staging' \subseteq Locations
         /\ \A c \in Dirs, w \in Reqs: w # r =>
              e[c][w] = entry[c][w] /\ (<<c, w>> \in staging' <=> <<c, w>> \in staging)
    BY <1>1, <1>3, <2>5, <2>6, <2>12, Constant DEF TypeOK
  <2>24. \A w \in Reqs \ {r}:
           (q[w] = req[w] \/ q[w] = Disquieted(req[w])) /\ (q[w].quiet => Calm)
    BY <2>9
  <2>25. /\ q[r].origin # 0 => inode[q[r].origin].kind = "file"
         /\ q[r].file # 0 => inode[q[r].file].kind = "file"
         /\ q[r].stage # 0 => inode[q[r].stage].kind = "file"
         /\ q[r].pc \notin {"idle", "done"} => q[r].loc \in Spots
         /\ q[r].kind = "rename" => q[r].to \in Spots
    BY <2>3, <2>7, <2>9, <2>13
  <2>26. inode \in [Ids -> InodeType]
    BY <1>1 DEF TypeOK
  <2> QED BY <2>2, <2>9, <2>12, <2>13, <2>15, <2>16, <2>17, <2>20, <2>21, <2>22, <2>23, <2>24,
             <2>25, <2>26, ActKeeps, ZenonT(40)
<1> QED BY <1>2, <1>3 DEF Commit

(* The deferred removal of the staging file, which finds it unless a         *)
(* directory was replaced.                                                   *)
LEMMA RemoveStagedInv ==
  ASSUME LInv, NEW r \in Reqs, RemoveStaged(r)
  PROVE  LInv'
<1> DEFINE d == Reached(req[r].loc[1])
           e == IF d = NoRoot THEN entry ELSE Set(<<d, r>>, 0)
           p == [req[r] EXCEPT !.pc = "unmark"]
           q == [req EXCEPT ![r] = p]
<1>1. TypeOK /\ WholeNames /\ req[r] \in ReqType /\ RequestOK(r, req[r]) /\ req[r].pc = "remove"
  BY DEF LInv, TypeOK, RemoveStaged, At
<1>2. [req EXCEPT ![r].pc = "unmark"] = q
  BY <1>1 DEF TypeOK
<1>3. Perform(e, inode, q) /\ UNCHANGED <<boundary, closed, where, staging, edits>>
  BY <1>2 DEF RemoveStaged
<1>4. req[r].loc \in Spots /\ req[r].loc[1] \in Dirs /\ r \in Entries
  BY <1>1, Constant DEF TypeOK
<1>5. d # NoRoot => d = where[req[r].loc[1]] /\ d \in Dirs
  BY <1>1, <1>4, LookedUp
<1>6. d = NoRoot => LetGo \/ Swapped
  BY <1>4, FileTypes, <1>1, Constant DEF Reached, LetGo, Swapped
<1> HIDE DEF d
<1>7. /\ e \in [Dirs -> [Entries -> 0..MaxInodes]]
      /\ \A c \in Dirs, n \in Entries: e[c][n] = IF c = d /\ n = r THEN 0 ELSE entry[c][n]
  <2>1. CASE d = NoRoot
    BY <1>1, <2>1, Constant DEF TypeOK
  <2>2. CASE d # NoRoot
    <3>1. e = Set(<<d, r>>, 0) /\ d \in Dirs
      BY <1>5, <2>2
    <3> HIDE DEF e
    <3> QED BY <1>1, <1>4, <3>1, SetName
  <2> QED BY <2>1, <2>2
<1>8. /\ p \in ReqType /\ p.pc = "unmark" /\ p.kind = req[r].kind /\ p.loc = req[r].loc
      /\ p.to = req[r].to /\ p.in = req[r].in /\ p.file = req[r].file /\ p.stage = req[r].stage
      /\ p.served = req[r].served /\ p.shown = req[r].shown /\ p.origin = req[r].origin
  BY <1>1 DEF ReqType
<1> HIDE DEF p, e
<1>9. q \in [Reqs -> ReqType] /\ q[r] = p /\ \A s \in Reqs \ {r}: q[s] = req[s]
  BY <1>1, <1>8 DEF TypeOK
<1> HIDE DEF q
<1>10. /\ \A c \in Dirs, n \in Entries: entry[c][n] # 0 =>
             entry[c][n] \in Ids /\ inode[entry[c][n]].kind # "none"
       /\ \A c \in Dirs, n \in Names: entry[c][n] # 0 => inode[entry[c][n]].whole
       /\ \A k \in Ids: inode[k].kind = "link" => inode[k].to \in Spots
       /\ \A k \in {req[r].origin, req[r].stage, req[r].file}:
            k # 0 => k \in Ids /\ inode[k].kind = "file"
       /\ req[r].kind = "rename" => req[r].to \in Spots
  BY Referred
<1>11. \A c \in Dirs, n \in Entries: e[c][n] = entry[c][n] \/ e[c][n] = 0
  BY <1>7
<1>12. \A c \in Dirs, n \in Names: e[c][n] = entry[c][n]
  BY <1>7, Constant
<1>13. \A c \in Dirs, n \in Entries: e[c][n] # 0 => inode[e[c][n]].kind # "none"
  BY <1>10, <1>11
<1>14. \A c \in Dirs, n \in Names: e[c][n] # 0 => inode[e[c][n]].whole
  BY <1>10, <1>12
<1>15. Succeeds(inode) /\ inode \in [Ids -> InodeType]
  BY <1>1, FileTypes DEF Succeeds, TypeOK
<1>16. Calm
  <2>1. where' = where
    BY <1>3
  <2>2. ASSUME NEW c \in Dirs, NEW n \in Names
        PROVE  /\ e[c][n] = entry[c][n]
               /\ entry[c][n] # 0 =>
                    LET k == entry[c][n]
                    IN /\ inode[k].kind = inode[k].kind /\ inode[k].born = inode[k].born
                       /\ inode[k].changes = inode[k].changes /\ inode[k].to = inode[k].to
    BY <1>12
  <2>3. \A c \in Dirs, n \in Entries: e[c][n] # entry[c][n] =>
          e[c][n] = 0 \/ \A l \in Locations: IdOf(l) # e[c][n]
    BY <1>11
  <2> QED BY <1>1, <1>3, <1>7, <1>9, <1>15, <2>1, <2>2, <2>3, PerformCalm
<1>17. req'[r] = p /\ entry' = e
  BY <1>3, <1>9 DEF Perform
<1>18. (LetGo => LetGo') /\ (Swapped => Swapped')
  BY <1>3 DEF LetGo, Restricted, Swapped
<1>19. ASSUME NEW c \in Dirs, e[c][r] # 0 PROVE LetGo \/ Swapped
  <2>1. entry[c][r] # 0 /\ c # d
    BY <1>4, <1>7, <1>19
  <2>2. c = req[r].in /\ (Swapped \/ c = req[r].loc[1])
    BY <1>1, <2>1 DEF RequestOK, StagedIn, InPlace, Holding
  <2>3. CASE d # NoRoot /\ c = req[r].loc[1]
    BY <1>5, <2>1, <2>3 DEF Swapped
  <2> QED BY <1>6, <2>2, <2>3
<1>20. RequestOK(r, req[r])'
  <2>1. StagedIn(r, req[r])' /\ StagedWhole(r, req[r])'
    BY <1>8, <1>17, <1>18, <1>19 DEF StagedIn, StagedWhole
  <2>2. MarkedAs(r, req[r])' /\ InPlace(req[r])' /\ Confined(req[r])'
    BY <1>1, <1>3, <1>8, <1>17
    DEF RequestOK, MarkedAs, InPlace, Confined, Within, Restricted, Swapped, Holding
  <2>3. Looked(req[r])' /\ Told(req[r])'
    BY <1>1, <1>8, <1>17 DEF RequestOK, Looked, Told
  <2> QED BY <2>1, <2>2, <2>3 DEF RequestOK
<1>21. \A w \in Reqs: w \notin q[r].shown
  BY <1>1, <1>8, <1>9 DEF LInv, Hidden
<1>22. Advances(req[r], q[r])
  BY <1>1, <1>8, <1>9 DEF Advances, Holding
<1>23. /\ UNCHANGED <<boundary, closed, where, edits>> /\ staging' \subseteq Locations
       /\ \A c \in Dirs, w \in Reqs: w # r =>
            e[c][w] = entry[c][w] /\ (<<c, w>> \in staging' <=> <<c, w>> \in staging)
  BY <1>1, <1>3, <1>7, Constant DEF TypeOK
<1>24. \A w \in Reqs \ {r}:
         (q[w] = req[w] \/ q[w] = Disquieted(req[w])) /\ (q[w].quiet => Calm)
  BY <1>9, <1>16
<1>25. /\ q[r].origin # 0 => inode[q[r].origin].kind = "file"
       /\ q[r].file # 0 => inode[q[r].file].kind = "file"
       /\ q[r].stage # 0 => inode[q[r].stage].kind = "file"
       /\ q[r].pc \notin {"idle", "done"} => q[r].loc \in Spots
       /\ q[r].kind = "rename" => q[r].to \in Spots
  BY <1>4, <1>8, <1>9, <1>10
<1> QED BY <1>3, <1>7, <1>9, <1>10, <1>13, <1>14, <1>15, <1>20, <1>21, <1>22, <1>23, <1>24,
           <1>25, ActKeeps

(* unmarkStaging, the last of the deferred calls. *)
LEMMA UnmarkStagingInv ==
  ASSUME LInv, NEW r \in Reqs, UnmarkStaging(r)
  PROVE  LInv'
<1> DEFINE p == Ended(req[r])
           q == [req EXCEPT ![r] = p]
<1>1. TypeOK /\ WholeNames /\ req[r] \in ReqType /\ RequestOK(r, req[r]) /\ req[r].pc = "unmark"
  BY DEF LInv, TypeOK, UnmarkStaging, At
<1>2. /\ Perform(entry, inode, q) /\ UNCHANGED <<boundary, closed, where, edits>>
      /\ staging' = staging \ {<<req[r].loc[1], r>>}
  BY DEF UnmarkStaging
<1>3. /\ p \in ReqType /\ p.pc = "done" /\ p.kind = "none" /\ p.origin = 0 /\ p.stage = 0
      /\ p.file = 0 /\ p.shown = req[r].shown /\ p.told = req[r].told /\ p.served = req[r].served
  BY <1>1, EndedType
<1> HIDE DEF p
<1>4. q \in [Reqs -> ReqType] /\ q[r] = p /\ \A s \in Reqs \ {r}: q[s] = req[s]
  BY <1>1, <1>3 DEF TypeOK
<1> HIDE DEF q
<1>5. /\ \A c \in Dirs, n \in Entries: entry[c][n] # 0 => inode[entry[c][n]].kind # "none"
      /\ \A c \in Dirs, n \in Names: entry[c][n] # 0 => inode[entry[c][n]].whole
      /\ \A k \in Ids: inode[k].kind = "link" => inode[k].to \in Spots
  BY Referred
<1>6. Succeeds(inode) /\ inode \in [Ids -> InodeType]
  BY <1>1, FileTypes DEF Succeeds, TypeOK
<1>7. entry \in [Dirs -> [Entries -> 0..MaxInodes]]
  BY <1>1 DEF TypeOK
<1>8. Calm
  <2>1. where' = where
    BY <1>2
  <2>2. ASSUME NEW c \in Dirs, NEW n \in Names
        PROVE  /\ entry[c][n] = entry[c][n]
               /\ entry[c][n] # 0 =>
                    LET k == entry[c][n]
                    IN /\ inode[k].kind = inode[k].kind /\ inode[k].born = inode[k].born
                       /\ inode[k].changes = inode[k].changes /\ inode[k].to = inode[k].to
    OBVIOUS
  <2>3. \A c \in Dirs, n \in Entries: entry[c][n] # entry[c][n] =>
          entry[c][n] = 0 \/ \A l \in Locations: IdOf(l) # entry[c][n]
    OBVIOUS
  <2> QED BY <1>1, <1>2, <1>4, <1>6, <1>7, <2>1, <2>2, <2>3, PerformCalm
<1>9. req'[r] = p /\ entry' = entry
  BY <1>2, <1>4 DEF Perform
<1>10. (LetGo => LetGo') /\ (Swapped => Swapped')
  BY <1>2 DEF LetGo, Restricted, Swapped
<1>11. RequestOK(r, req[r])'
  <2>1. StagedIn(r, req[r])' /\ StagedWhole(r, req[r])'
    BY <1>1, <1>3, <1>9, <1>10 DEF RequestOK, StagedIn, StagedWhole, Holding
  <2>2. MarkedAs(r, req[r])'
    BY <1>1, <1>2, <1>3, <1>9 DEF RequestOK, MarkedAs, Holding
  <2>3. InPlace(req[r])' /\ Confined(req[r])' /\ Looked(req[r])' /\ Told(req[r])'
    BY <1>1, <1>3, <1>9 DEF RequestOK, InPlace, Confined, Looked, Told, Holding
  <2> QED BY <2>1, <2>2, <2>3 DEF RequestOK
<1>12. \A w \in Reqs: w \notin q[r].shown
  BY <1>1, <1>3, <1>4 DEF LInv, Hidden
<1>13. Advances(req[r], q[r])
  BY <1>1, <1>3, <1>4 DEF Advances, Holding
<1>14. staging' \subseteq Locations
  BY <1>1, <1>2 DEF TypeOK
<1>15. \A c \in Dirs, w \in Reqs: w # r =>
          entry[c][w] = entry[c][w] /\ (<<c, w>> \in staging' <=> <<c, w>> \in staging)
  BY <1>2
<1>16. \A w \in Reqs \ {r}:
         (q[w] = req[w] \/ q[w] = Disquieted(req[w])) /\ (q[w].quiet => Calm)
  BY <1>4, <1>8
<1>17. /\ q[r].origin = 0 /\ q[r].file = 0 /\ q[r].stage = 0
       /\ q[r].pc = "done" /\ q[r].kind = "none"
  BY <1>3, <1>4
<1> QED BY <1>2, <1>4, <1>5, <1>6, <1>7, <1>11, <1>12, <1>13, <1>14, <1>15, <1>16, <1>17, ActKeeps

-----------------------------------------------------------------------------
(* Create, Rename, Delete. *)

(* They end as they act, and touch no staging file. *)
LEMMA ChangeInv ==
  ASSUME LInv, NEW r \in Reqs, At(r, "act"), NEW e \in [Dirs -> [Entries -> 0..MaxInodes]],
         NEW i \in [Ids -> InodeType], Succeeds(i),
         Perform(e, i, Disturbed([req EXCEPT ![r] = Ended(@)], r)),
         UNCHANGED <<boundary, closed, where, staging, edits>>,
         \A d \in Dirs, s \in Reqs: e[d][s] = entry[d][s],
         \A k \in Ids: i[k].kind = "link" => i[k].to \in Spots,
         \A d \in Dirs, n \in Entries: e[d][n] # 0 => i[e[d][n]].kind # "none",
         \A d \in Dirs, n \in Names: e[d][n] # 0 => i[e[d][n]].whole
  PROVE  LInv'
<1> DEFINE p == Ended(req[r])
           q == Disturbed([req EXCEPT ![r] = p], r)
<1>1. req[r].pc = "act" /\ req[r].pc \notin Holding \union {"done"}
  BY DEF At, Holding
<1>2. /\ TypeOK /\ req[r] \in ReqType /\ Told(req[r]) /\ req[r].served = NoTime
      /\ \A w \in Reqs: w \notin req[r].shown
      /\ \A d \in Dirs: entry[d][r] = 0 /\ <<d, r>> \notin staging
  BY <1>1, NothingStaged
<1>3. Perform(e, i, q)
  BY <1>2 DEF TypeOK
<1>4. /\ p \in ReqType /\ p.pc = "done" /\ p.kind = "none" /\ p.origin = 0 /\ p.stage = 0
      /\ p.file = 0 /\ p.shown = req[r].shown /\ p.told = req[r].told /\ p.served = req[r].served
  BY <1>2, EndedType
<1> HIDE DEF p
<1>5. q \in [Reqs -> ReqType] /\ q[r] = p
  <2>0. TypeOK /\ p \in ReqType
    BY <1>2, <1>4
  <2>1. q = Disturbed([req EXCEPT ![r] = p], r)
    OBVIOUS
  <2> HIDE DEF q
  <2>2. q \in [Reqs -> ReqType]
    BY ONLY <2>0, <2>1, DisturbedBut
  <2>3. q[r] = p
    BY ONLY <2>0, <2>1, DisturbedBut
  <2> QED BY <2>2, <2>3
<1>6. \A w \in Reqs \ {r}:
        (q[w] = req[w] \/ q[w] = Disquieted(req[w])) /\ (q[w].quiet => Calm)
  <2>0. TypeOK /\ p \in ReqType
    BY <1>2, <1>4
  <2>1. q = Disturbed([req EXCEPT ![r] = p], r)
    OBVIOUS
  <2> HIDE DEF q
  <2>2. \A w \in Reqs \ {r}: q[w] = Disquieted(req[w])
    BY ONLY <2>0, <2>1, DisturbedBut
  <2>3. \A w \in Reqs \ {r}: ~q[w].quiet
    BY ONLY <2>0, <2>1, DisturbedBut
  <2> QED BY <2>2, <2>3
<1> HIDE DEF q
<1>7. req'[r] = p /\ entry' = e
  BY <1>3, <1>5 DEF Perform
<1>8. RequestOK(r, req[r])'
  <2>1. \A d \in Dirs: entry'[d][r] = 0 /\ <<d, r>> \notin staging'
    BY <1>2, <1>7
  <2> QED BY <1>2, <1>4, <1>7, <2>1
      DEF RequestOK, StagedIn, StagedWhole, MarkedAs, InPlace, Confined, Looked, Told, Holding
<1>9. \A w \in Reqs: w \notin q[r].shown
  BY <1>2, <1>4, <1>5
<1>10. Advances(req[r], q[r])
  BY <1>1, <1>4, <1>5 DEF Advances, Holding
<1>11. staging' \subseteq Locations
  BY <1>2 DEF TypeOK
<1>12. \A c \in Dirs, w \in Reqs: w # r =>
          e[c][w] = entry[c][w] /\ (<<c, w>> \in staging' <=> <<c, w>> \in staging)
  OBVIOUS
<1>13. /\ q[r].origin = 0 /\ q[r].file = 0 /\ q[r].stage = 0
       /\ q[r].pc = "done" /\ q[r].kind = "none"
  BY <1>4, <1>5
<1> QED BY <1>3, <1>5, <1>6, <1>8, <1>9, <1>10, <1>11, <1>12, <1>13, ActKeeps

(* Create, after its look. *)
LEMMA CreateInv ==
  ASSUME LInv, NEW r \in Reqs, Create(r)
  PROVE  LInv'
<1> DEFINE l == Entry(req[r].loc)
           x == NewInode(IF req[r].may THEN "dir" ELSE "file", r)
           e == Set(l, Fresh)
           i == [inode EXCEPT ![Fresh] = x]
<1>1. TypeOK /\ At(r, "act") /\ req[r].loc \in Spots
  BY DEF LInv, TypeOK, Create, At
<1>2. CASE Return(r)
  BY <1>1, <1>2, ReturnInv DEF At
<1>3. CASE /\ Reached(req[r].loc[1]) # NoRoot /\ ~Full
           /\ Perform(e, i, Disturbed([req EXCEPT ![r] = Ended(@)], r))
           /\ UNCHANGED <<boundary, closed, where, staging, edits>>
  <2>1. l \in Locations /\ l[1] \in Dirs /\ l[2] \in Names
    BY <1>1, <1>3, LookedUp, Constant
  <2>2. /\ Fresh \in Ids /\ Fresh # 0
        /\ \A c \in Dirs, n \in Entries: entry[c][n] # Fresh
    BY <1>1, <1>3, FreshId
  <2>3. /\ e \in [Dirs -> [Entries -> 0..MaxInodes]]
        /\ \A c \in Dirs, n \in Entries:
             e[c][n] = IF c = l[1] /\ n = l[2] THEN Fresh ELSE entry[c][n]
    <3> HIDE DEF l
    <3> QED BY <1>1, <2>1, <2>2, SetAt
  <2>4. x \in InodeType /\ x.kind \in {"dir", "file"} /\ x.whole
    BY Constant DEF NewInode, NoInode, InodeType, Makers
  <2>5. /\ i \in [Ids -> InodeType] /\ i[Fresh] = x /\ Succeeds(i)
        /\ \A k \in Ids: k # Fresh => i[k] = inode[k]
    <3> HIDE DEF x
    <3> QED BY <1>1, <1>3, <2>4, FreshSucceeds
  <2> HIDE DEF l, x, e, i
  <2>6. /\ \A c \in Dirs, n \in Entries: entry[c][n] # 0 =>
              entry[c][n] \in Ids /\ inode[entry[c][n]].kind # "none"
        /\ \A c \in Dirs, n \in Names: entry[c][n] # 0 => inode[entry[c][n]].whole
        /\ \A k \in Ids: inode[k].kind = "link" => inode[k].to \in Spots
    BY Referred
  <2>7. \A d \in Dirs, s \in Reqs: e[d][s] = entry[d][s]
    BY <2>1, <2>3, Constant
  <2>8. \A k \in Ids: i[k].kind = "link" => i[k].to \in Spots
    BY <2>4, <2>5, <2>6
  <2>9. \A d \in Dirs, n \in Entries: e[d][n] # 0 => i[e[d][n]].kind # "none"
    BY <2>2, <2>3, <2>4, <2>5, <2>6
  <2>10. \A d \in Dirs, n \in Names: e[d][n] # 0 => i[e[d][n]].whole
    BY <2>2, <2>3, <2>4, <2>5, <2>6, Constant
  <2> QED BY <1>1, <1>3, <2>3, <2>5, <2>7, <2>8, <2>9, <2>10, ChangeInv
<1> QED BY <1>2, <1>3 DEF Create

(* Rename, after its look. *)
LEMMA RenameInv ==
  ASSUME LInv, NEW r \in Reqs, Rename(r)
  PROVE  LInv'
<1> DEFINE l == Entry(req[r].loc)
           t == Entry(req[r].to)
           e == [entry EXCEPT ![t[1]][t[2]] = IdOf(l), ![l[1]][l[2]] = 0]
           f == IF IdOf(l) = IdOf(t) THEN entry ELSE e
<1>1. TypeOK /\ At(r, "act") /\ req[r].loc \in Spots /\ req[r].to \in Spots
  BY DEF LInv, TypeOK, Rename, At
<1>2. CASE Return(r)
  BY <1>1, <1>2, ReturnInv DEF At
<1>3. CASE /\ NoRoot \notin {l[1], t[1]}
           /\ Perform(f, inode, Disturbed([req EXCEPT ![r] = Ended(@)], r))
           /\ UNCHANGED <<boundary, closed, where, staging, edits>>
  <2>1. Reached(req[r].loc[1]) # NoRoot /\ Reached(req[r].to[1]) # NoRoot
    BY <1>3 DEF Entry
  <2>2. l \in Spots /\ t \in Spots /\ l \in Locations /\ t \in Locations
    BY <1>1, <2>1, LookedUp, Constant
  <2> HIDE DEF l, t
  <2>3. /\ l[1] \in Dirs /\ l[2] \in Names /\ l[2] \in Entries
        /\ t[1] \in Dirs /\ t[2] \in Names
        /\ IdOf(l) = entry[l[1]][l[2]] /\ IdOf(l) \in Ids \union {0}
    BY <1>1, <2>2, Constant, FileTypes DEF IdOf
  <2>4. e = Moved(l, t, IdOf(l))
    BY DEF Moved
  <2> HIDE DEF e
  <2>5. /\ e \in [Dirs -> [Entries -> 0..MaxInodes]]
        /\ \A d \in Dirs, n \in Entries:
             e[d][n] = IF d = l[1] /\ n = l[2] THEN 0
                       ELSE IF d = t[1] /\ n = t[2] THEN IdOf(l) ELSE entry[d][n]
    BY <1>1, <2>2, <2>3, <2>4, MoveAt
  <2>6. /\ f \in [Dirs -> [Entries -> 0..MaxInodes]]
        /\ f = e \/ f = entry
    BY <1>1, <2>5 DEF TypeOK
  <2> HIDE DEF f
  <2>7. /\ \A c \in Dirs, n \in Entries: entry[c][n] # 0 => inode[entry[c][n]].kind # "none"
        /\ \A c \in Dirs, n \in Names: entry[c][n] # 0 => inode[entry[c][n]].whole
        /\ \A k \in Ids: inode[k].kind = "link" => inode[k].to \in Spots
    BY Referred
  <2>8. \A d \in Dirs, s \in Reqs: f[d][s] = entry[d][s]
    BY <2>3, <2>5, <2>6, Constant
  <2>9. \A d \in Dirs, n \in Entries: f[d][n] # 0 => inode[f[d][n]].kind # "none"
    BY <2>3, <2>5, <2>6, <2>7
  <2>10. \A d \in Dirs, n \in Names: f[d][n] # 0 => inode[f[d][n]].whole
    BY <2>3, <2>5, <2>6, <2>7, Constant
  <2>11. Succeeds(inode) /\ inode \in [Ids -> InodeType]
    BY <1>1, FileTypes DEF Succeeds, TypeOK
  <2> QED BY <1>1, <1>3, <2>6, <2>7, <2>8, <2>9, <2>10, <2>11, ChangeInv
<1> QED BY <1>2, <1>3 DEF Rename

(* Delete, after its look. *)
LEMMA DeleteInv ==
  ASSUME LInv, NEW r \in Reqs, Delete(r)
  PROVE  LInv'
<1> DEFINE l == Entry(req[r].loc)
           e == Set(l, 0)
<1>1. TypeOK /\ At(r, "act") /\ req[r].loc \in Spots
  BY DEF LInv, TypeOK, Delete, At
<1>2. CASE Return(r)
  BY <1>1, <1>2, ReturnInv DEF At
<1>3. CASE /\ Reached(req[r].loc[1]) # NoRoot
           /\ Perform(e, inode, Disturbed([req EXCEPT ![r] = Ended(@)], r))
           /\ UNCHANGED <<boundary, closed, where, staging, edits>>
  <2>1. l \in Locations /\ l[1] \in Dirs /\ l[2] \in Names
    BY <1>1, <1>3, LookedUp, Constant
  <2> HIDE DEF l
  <2>2. /\ e \in [Dirs -> [Entries -> 0..MaxInodes]]
        /\ \A c \in Dirs, n \in Entries:
             e[c][n] = IF c = l[1] /\ n = l[2] THEN 0 ELSE entry[c][n]
    BY <1>1, <2>1, SetAt
  <2> HIDE DEF e
  <2>3. /\ \A c \in Dirs, n \in Entries: entry[c][n] # 0 => inode[entry[c][n]].kind # "none"
        /\ \A c \in Dirs, n \in Names: entry[c][n] # 0 => inode[entry[c][n]].whole
        /\ \A k \in Ids: inode[k].kind = "link" => inode[k].to \in Spots
    BY Referred
  <2>4. \A d \in Dirs, s \in Reqs: e[d][s] = entry[d][s]
    BY <2>1, <2>2, Constant
  <2>5. \A d \in Dirs, n \in Entries: e[d][n] # 0 => inode[e[d][n]].kind # "none"
    BY <2>2, <2>3
  <2>6. \A d \in Dirs, n \in Names: e[d][n] # 0 => inode[e[d][n]].whole
    BY <2>2, <2>3, Constant
  <2>7. Succeeds(inode) /\ inode \in [Ids -> InodeType]
    BY <1>1, FileTypes DEF Succeeds, TypeOK
  <2> QED BY <1>1, <1>3, <2>2, <2>3, <2>4, <2>5, <2>6, <2>7, ChangeInv
<1> QED BY <1>2, <1>3 DEF Delete

-----------------------------------------------------------------------------
(* Everybody else. *)

(* The bound of requests and changes. *)
LEMMA EditsBounded ==
  ASSUME TypeOK, InBudget
  PROVE  edits + 1 \in 0..Budget
<1> DEFINE busy == {r \in Reqs: ~At(r, "idle")}
<1>1. IsFiniteSet(Reqs) /\ Budget \in Nat /\ edits \in Nat
  BY LocalFilesAssumption DEF LocalFilesAssumption, TypeOK
<1>2. busy \subseteq Reqs
  OBVIOUS
<1> HIDE DEF busy
<1>3. Cardinality(busy) \in Nat
  BY <1>1, <1>2, FS_Subset, FS_CardinalityType
<1>4. Cardinality(busy) + edits + (IF closed THEN 1 ELSE 0) < Budget
  BY DEF InBudget, Spent, busy
<1> QED BY <1>1, <1>3, <1>4

(* A change by another program: every look is disturbed. *)
LEMMA EditInv ==
  ASSUME LInv, NEW e \in [Dirs -> [Entries -> 0..MaxInodes]], NEW i \in [Ids -> InodeType],
         Succeeds(i), Edit(e, i), where' \in [Dirs -> Dirs], where' = where \/ Swapped',
         \A d \in Dirs, s \in Reqs: e[d][s] = entry[d][s],
         \A k \in Ids: i[k].kind = "link" => i[k].to \in Spots,
         \A d \in Dirs, n \in Entries: e[d][n] # 0 => i[e[d][n]].kind # "none",
         \A d \in Dirs, n \in Names: e[d][n] # 0 => i[e[d][n]].whole
  PROVE  LInv'
<1> DEFINE q == Disturbed(req, NoRoot)
<1>1. TypeOK /\ NoRoot \notin Reqs /\ req \in [Reqs -> ReqType]
  BY Constant DEF LInv, TypeOK
<1>2. Perform(e, i, q) /\ UNCHANGED <<boundary, closed, staging>> /\ edits' \in 0..Budget
  BY <1>1, EditsBounded DEF Edit
<1>3. ASSUME NEW s \in Reqs
      PROVE  q[s] = Disquieted(req[s]) /\ q[s] \in ReqType /\ ~q[s].quiet
  <2>1. q[s] = [req[s] EXCEPT !.quiet = FALSE]
    BY <1>1 DEF Disturbed
  <2>2. req[s] \in ReqType
    BY <1>1
  <2> QED BY <2>1, <2>2 DEF Disquieted, ReqType
<1>4. q \in [Reqs -> ReqType]
  <2>1. q = [s \in Reqs |-> q[s]]
    BY DEF Disturbed
  <2> QED BY <1>3, <2>1
<1> HIDE DEF q
<1>5. /\ \A s \in Reqs:
           /\ \A k \in {req[s].origin, req[s].stage, req[s].file}:
                k # 0 => k \in Ids /\ inode[k].kind = "file"
           /\ req[s].pc \notin {"idle", "done"} => req[s].loc \in Spots
           /\ req[s].kind = "rename" => req[s].to \in Spots
  BY Referred
<1>6. ASSUME NEW s \in Reqs
      PROVE  /\ \A k \in {q[s].origin, q[s].stage, q[s].file}: k # 0 => i[k].kind = "file"
             /\ q[s].pc \notin {"idle", "done"} => q[s].loc \in Spots
             /\ q[s].kind = "rename" => q[s].to \in Spots
  <2>1. req[s] \in ReqType /\ q[s] = Disquieted(req[s])
    BY <1>1, <1>3
  <2>2. /\ q[s].origin = req[s].origin /\ q[s].stage = req[s].stage /\ q[s].file = req[s].file
        /\ q[s].pc = req[s].pc /\ q[s].loc = req[s].loc /\ q[s].kind = req[s].kind
        /\ q[s].to = req[s].to
    BY <2>1 DEF Disquieted, ReqType
  <2>3. \A k \in {req[s].origin, req[s].stage, req[s].file}: k # 0 => i[k].kind = "file"
    BY <1>5 DEF Succeeds
  <2> QED BY <1>5, <2>2, <2>3
<1>7. boundary' = boundary /\ closed' \in BOOLEAN /\ staging' \subseteq Locations
  BY <1>1, <1>2 DEF TypeOK
<1>8. TypeOK' /\ WholeNames'
  BY <1>1, <1>2, <1>4, <1>6, <1>7, PerformTypes
<1>9. Spares(NoRoot)
  <2>1. ASSUME NEW s \in Reqs \ {NoRoot}
        PROVE  /\ q[s] = req[s] \/ q[s] = Disquieted(req[s])
               /\ q[s].quiet => Calm
               /\ \A d \in Dirs: e[d][s] = entry[d][s] /\ (<<d, s>> \in staging' <=> <<d, s>> \in staging)
    BY <1>2, <1>3
  <2> QED BY <1>1, <1>2, <1>4, <2>1, PerformOthers
<1>10. Surroundings
  BY <1>2 DEF Surroundings
<1> QED BY <1>8, <1>9, <1>10, OutsideKeeps

(* A file or a directory is changed where it is. *)
LEMMA InPlaceInv ==
  ASSUME LInv, NEW j \in Ids, inode[j].kind # "none", NEW x \in InodeType,
         x.born = inode[j].born, x.changes >= inode[j].changes, x.whole = inode[j].whole,
         x.kind \notin {"none", "link"}, inode[j].kind = "file" => x.kind = "file",
         Edit(entry, [inode EXCEPT ![j] = x]), where' = where
  PROVE  LInv'
<1> DEFINE i == [inode EXCEPT ![j] = x]
<1>1. TypeOK
  BY DEF LInv
<1>2. i \in [Ids -> InodeType] /\ i[j] = x /\ \A k \in Ids: k # j => i[k] = inode[k]
  BY <1>1 DEF TypeOK
<1> HIDE DEF i
<1>3. ASSUME NEW k \in Ids
      PROVE  /\ i[k].born = inode[k].born /\ i[k].changes >= inode[k].changes
             /\ inode[k].kind = "file" => i[k].kind = "file"
             /\ inode[k].kind # "none" => i[k].kind # "none"
             /\ inode[k].whole => i[k].whole
             /\ i[k].kind = "link" => i[k] = inode[k]
  <2>1. CASE k = j
    BY <1>2, <2>1
  <2>2. CASE k # j
    BY <1>1, <1>2, <2>2, FileTypes
  <2> QED BY <2>1, <2>2
<1>4. Succeeds(i)
  BY <1>3 DEF Succeeds
<1>5. /\ \A c \in Dirs, n \in Entries: entry[c][n] # 0 =>
            entry[c][n] \in Ids /\ inode[entry[c][n]].kind # "none"
      /\ \A c \in Dirs, n \in Names: entry[c][n] # 0 => inode[entry[c][n]].whole
      /\ \A k \in Ids: inode[k].kind = "link" => inode[k].to \in Spots
  BY Referred
<1>6. \A k \in Ids: i[k].kind = "link" => i[k].to \in Spots
  BY <1>3, <1>5
<1>7. \A c \in Dirs, n \in Entries: entry[c][n] # 0 => i[entry[c][n]].kind # "none"
  BY <1>3, <1>5
<1>8. \A c \in Dirs, n \in Names: entry[c][n] # 0 => i[entry[c][n]].whole
  BY <1>3, <1>5, Constant
<1>9. entry \in [Dirs -> [Entries -> 0..MaxInodes]] /\ where' \in [Dirs -> Dirs]
  BY <1>1 DEF TypeOK
<1>10. Edit(entry, i)
  BY DEF i
<1> QED BY <1>2, <1>4, <1>6, <1>7, <1>8, <1>9, <1>10, EditInv

(* A name is given to something new. *)
LEMMA NewThingInv ==
  ASSUME LInv, ~Full, NEW l \in Spots, NEW x \in InodeType, x.kind # "none", x.whole,
         x.kind = "link" => x.to \in Spots,
         Edit(Set(l, Fresh), [inode EXCEPT ![Fresh] = x]), where' = where
  PROVE  LInv'
<1> DEFINE i == [inode EXCEPT ![Fresh] = x]
           e == Set(l, Fresh)
<1>1. TypeOK /\ l \in Locations /\ l[2] \in Names
  BY Constant DEF LInv
<1>2. /\ Fresh \in Ids /\ Fresh # 0 /\ \A c \in Dirs, n \in Entries: entry[c][n] # Fresh
  BY <1>1, FreshId
<1>3. /\ i \in [Ids -> InodeType] /\ i[Fresh] = x /\ Succeeds(i)
      /\ \A k \in Ids: k # Fresh => i[k] = inode[k]
  BY <1>1, FreshSucceeds
<1>4. /\ e \in [Dirs -> [Entries -> 0..MaxInodes]]
      /\ \A c \in Dirs, n \in Entries:
           e[c][n] = IF c = l[1] /\ n = l[2] THEN Fresh ELSE entry[c][n]
  BY <1>1, <1>2, SetAt
<1>5. Edit(e, i)
  OBVIOUS
<1> HIDE DEF i, e
<1>6. /\ \A c \in Dirs, n \in Entries: entry[c][n] # 0 =>
            entry[c][n] \in Ids /\ inode[entry[c][n]].kind # "none"
      /\ \A c \in Dirs, n \in Names: entry[c][n] # 0 => inode[entry[c][n]].whole
      /\ \A k \in Ids: inode[k].kind = "link" => inode[k].to \in Spots
  BY Referred
<1>7. \A d \in Dirs, s \in Reqs: e[d][s] = entry[d][s]
  BY <1>1, <1>4, Constant
<1>8. \A k \in Ids: i[k].kind = "link" => i[k].to \in Spots
  BY <1>3, <1>6
<1>9. \A d \in Dirs, n \in Entries: e[d][n] # 0 => i[e[d][n]].kind # "none"
  BY <1>2, <1>3, <1>4, <1>6
<1>10. \A d \in Dirs, n \in Names: e[d][n] # 0 => i[e[d][n]].whole
  BY <1>2, <1>3, <1>4, <1>6, Constant
<1>11. where' \in [Dirs -> Dirs]
  BY <1>1 DEF TypeOK
<1> QED BY <1>3, <1>4, <1>5, <1>7, <1>8, <1>9, <1>10, <1>11, EditInv

(* Names are taken away, moved, or added to what is there. *)
LEMMA RenamedInv ==
  ASSUME LInv, NEW e \in [Dirs -> [Entries -> 0..MaxInodes]], NEW m \in Spots,
         Edit(e, inode), where' \in [Dirs -> Dirs], where' = where \/ Swapped',
         \A d \in Dirs, s \in Reqs: e[d][s] = entry[d][s],
         \A d \in Dirs, n \in Entries:
           e[d][n] \in {0, entry[d][n]} \/ (n \in Names /\ e[d][n] = IdOf(m))
  PROVE  LInv'
<1>1. TypeOK /\ m[1] \in Dirs /\ m[2] \in Names /\ m[2] \in Entries /\ IdOf(m) = entry[m[1]][m[2]]
  BY Constant DEF LInv, IdOf
<1>2. /\ \A c \in Dirs, n \in Entries: entry[c][n] # 0 => inode[entry[c][n]].kind # "none"
      /\ \A c \in Dirs, n \in Names: entry[c][n] # 0 => inode[entry[c][n]].whole
      /\ \A k \in Ids: inode[k].kind = "link" => inode[k].to \in Spots
  BY Referred
<1>3. \A d \in Dirs, n \in Entries: e[d][n] # 0 => inode[e[d][n]].kind # "none"
  BY <1>1, <1>2
<1>4. \A d \in Dirs, n \in Names: e[d][n] # 0 => inode[e[d][n]].whole
  BY <1>1, <1>2, Constant
<1>5. Succeeds(inode) /\ inode \in [Ids -> InodeType]
  BY <1>1, FileTypes DEF Succeeds, TypeOK
<1> QED BY <1>2, <1>3, <1>4, <1>5, EditInv

(* Other programs change and make files. *)
LEMMA EditorsInv ==
  ASSUME LInv, EditInPlace \/ Fill \/ Put \/ PlantLink
  PROVE  LInv'
<1>1. TypeOK
  BY DEF LInv
<1>2. ASSUME NEW k \in {"file", "link"}
      PROVE  NewNow(k) \in InodeType /\ NewNow(k).kind = k /\ NewNow(k).whole
  <2> DEFINE maker == <<"edit", edits + 1>>
  <2>1. maker \in Makers
    BY <1>1, Constant DEF TypeOK, Makers
  <2> HIDE DEF maker
  <2>2. NewInode(k, maker) \in InodeType /\ NewInode(k, maker).kind = k /\ NewInode(k, maker).whole
    BY <2>1, NewInodeType
  <2> QED BY <2>2 DEF NewNow, maker
<1>3. ASSUME EditInPlace PROVE LInv'
  <2>1. PICK l \in Spots: /\ Kind(IdOf(l)) = "file" /\ where' = where
                          /\ Edit(entry, [inode EXCEPT ![IdOf(l)].changes = @ + 1])
    BY <1>3 DEF EditInPlace
  <2> DEFINE j == IdOf(l)
             x == [inode[j] EXCEPT !.changes = @ + 1]
  <2>2. j \in Ids /\ inode[j].kind = "file" /\ inode[j] \in InodeType
    BY <1>1, <2>1, Constant, FileTypes DEF Kind, Inode, NoInode
  <2>3. [inode EXCEPT ![IdOf(l)].changes = @ + 1] = [inode EXCEPT ![j] = x]
    BY <1>1, <2>2 DEF TypeOK
  <2>4. Edit(entry, [inode EXCEPT ![j] = x])
    BY <2>1, <2>3
  <2> HIDE DEF j
  <2>5. /\ x \in InodeType /\ x.kind = "file" /\ x.born = inode[j].born
        /\ x.changes >= inode[j].changes /\ x.whole = inode[j].whole
    BY <2>2 DEF InodeType
  <2> HIDE DEF x
  <2> QED BY <2>1, <2>2, <2>4, <2>5, InPlaceInv
<1>4. ASSUME Fill PROVE LInv'
  <2>1. PICK l \in Spots: /\ Kind(IdOf(l)) = "dir" /\ where' = where
                          /\ Edit(entry, [inode EXCEPT ![IdOf(l)].kind = "full"])
    BY <1>4 DEF Fill
  <2> DEFINE j == IdOf(l)
             x == [inode[j] EXCEPT !.kind = "full"]
  <2>2. j \in Ids /\ inode[j].kind = "dir" /\ inode[j] \in InodeType
    BY <1>1, <2>1, Constant, FileTypes DEF Kind, Inode, NoInode
  <2>3. [inode EXCEPT ![IdOf(l)].kind = "full"] = [inode EXCEPT ![j] = x]
    BY <1>1, <2>2 DEF TypeOK
  <2>4. Edit(entry, [inode EXCEPT ![j] = x])
    BY <2>1, <2>3
  <2> HIDE DEF j
  <2>5. /\ x \in InodeType /\ x.kind = "full" /\ x.born = inode[j].born
        /\ x.changes >= inode[j].changes /\ x.whole = inode[j].whole
    BY <2>2 DEF InodeType
  <2> HIDE DEF x
  <2> QED BY <2>1, <2>2, <2>4, <2>5, InPlaceInv
<1>5. ASSUME Put PROVE LInv'
  <2>1. PICK l \in Spots: /\ ~Full /\ where' = where
                          /\ Edit(Set(l, Fresh), [inode EXCEPT ![Fresh] = NewNow("file")])
    BY <1>5 DEF Put
  <2> QED BY <1>2, <2>1, NewThingInv
<1>6. ASSUME PlantLink PROVE LInv'
  <2>1. PICK l \in Spots, t \in Spots:
          /\ ~Full /\ where' = where
          /\ Edit(Set(l, Fresh), [inode EXCEPT ![Fresh] = [NewNow("link") EXCEPT !.to = t]])
    BY <1>6 DEF PlantLink
  <2> DEFINE x == [NewNow("link") EXCEPT !.to = t]
  <2>2. x \in InodeType /\ x.kind = "link" /\ x.whole /\ x.to = t
    BY <1>2 DEF InodeType
  <2>3. Edit(Set(l, Fresh), [inode EXCEPT ![Fresh] = x])
    BY <2>1
  <2> HIDE DEF x
  <2> QED BY <2>1, <2>2, <2>3, NewThingInv
<1> QED BY <1>3, <1>4, <1>5, <1>6

(* Other programs remove, move and link files, and replace directories. *)
LEMMA MoversInv ==
  ASSUME LInv, Take \/ Move \/ HardLink \/ SwapDirectory
  PROVE  LInv'
<1>1. TypeOK
  BY DEF LInv
<1>2. ASSUME NEW l \in Spots
      PROVE  /\ l \in Locations /\ l[1] \in Dirs /\ l[2] \in Names /\ IdOf(l) \in Ids \union {0}
             /\ IdOf(l) = entry[l[1]][l[2]]
  BY <1>1, Constant, FileTypes DEF IdOf
<1>3. where \in [Dirs -> Dirs] /\ entry \in [Dirs -> [Entries -> 0..MaxInodes]]
  BY <1>1 DEF TypeOK
<1>4. ASSUME Take PROVE LInv'
  <2>1. PICK l \in Spots: where' = where /\ Edit(Set(l, 0), inode)
    BY <1>4 DEF Take
  <2> DEFINE e == Set(l, 0)
  <2>2. /\ e \in [Dirs -> [Entries -> 0..MaxInodes]]
        /\ \A c \in Dirs, n \in Entries: e[c][n] = IF c = l[1] /\ n = l[2] THEN 0 ELSE entry[c][n]
    BY <1>1, <1>2, SetAt
  <2>3. Edit(e, inode)
    BY <2>1
  <2> HIDE DEF e
  <2>4. \A d \in Dirs, s \in Reqs: e[d][s] = entry[d][s]
    BY <1>2, <2>2, Constant
  <2>5. \A d \in Dirs, n \in Entries: e[d][n] \in {0, entry[d][n]}
    BY <2>2
  <2> QED BY <1>3, <2>1, <2>2, <2>3, <2>4, <2>5, RenamedInv
<1>5. ASSUME Move PROVE LInv'
  <2>1. PICK l \in Spots, t \in Spots:
          /\ where' = where
          /\ Edit([entry EXCEPT ![t[1]][t[2]] = IdOf(l), ![l[1]][l[2]] = 0], inode)
    BY <1>5 DEF Move
  <2> DEFINE e == Moved(l, t, IdOf(l))
  <2>2. /\ e \in [Dirs -> [Entries -> 0..MaxInodes]]
        /\ \A d \in Dirs, n \in Entries:
             e[d][n] = IF d = l[1] /\ n = l[2] THEN 0
                       ELSE IF d = t[1] /\ n = t[2] THEN IdOf(l) ELSE entry[d][n]
    BY <1>1, <1>2, MoveAt
  <2>3. Edit(e, inode)
    BY <2>1 DEF Moved
  <2> HIDE DEF e
  <2>4. \A d \in Dirs, s \in Reqs: e[d][s] = entry[d][s]
    BY <1>2, <2>2, Constant
  <2>5. \A d \in Dirs, n \in Entries:
          e[d][n] \in {0, entry[d][n]} \/ (n \in Names /\ e[d][n] = IdOf(l))
    BY <1>2, <2>2
  <2> QED BY <1>3, <2>1, <2>2, <2>3, <2>4, <2>5, RenamedInv
<1>6. ASSUME HardLink PROVE LInv'
  <2>1. PICK l \in Spots, t \in Spots: where' = where /\ Edit(Set(t, IdOf(l)), inode)
    BY <1>6 DEF HardLink
  <2> DEFINE e == Set(t, IdOf(l))
  <2>2. /\ e \in [Dirs -> [Entries -> 0..MaxInodes]]
        /\ \A c \in Dirs, n \in Entries:
             e[c][n] = IF c = t[1] /\ n = t[2] THEN IdOf(l) ELSE entry[c][n]
    BY <1>1, <1>2, SetAt
  <2>3. Edit(e, inode)
    BY <2>1
  <2> HIDE DEF e
  <2>4. \A d \in Dirs, s \in Reqs: e[d][s] = entry[d][s]
    BY <1>2, <2>2, Constant
  <2>5. \A d \in Dirs, n \in Entries:
          e[d][n] \in {0, entry[d][n]} \/ (n \in Names /\ e[d][n] = IdOf(l))
    BY <1>2, <2>2
  <2> QED BY <1>3, <2>1, <2>2, <2>3, <2>4, <2>5, RenamedInv
<1>7. ASSUME SwapDirectory PROVE LInv'
  <2>1. PICK p \in Dirs, d \in Dirs:
          p # d /\ where' = [where EXCEPT ![p] = d] /\ Edit(entry, inode)
    BY <1>7 DEF SwapDirectory
  <2>2. where' \in [Dirs -> Dirs] /\ where'[p] # p
    BY <1>3, <2>1
  <2>3. Swapped'
    BY <2>2 DEF Swapped
  <2>4. <<p, First>> \in Spots
    BY Constant DEF Spots
  <2>5. \A c \in Dirs, n \in Entries: entry[c][n] \in {0, entry[c][n]}
    OBVIOUS
  <2> QED BY <1>3, <2>1, <2>2, <2>3, <2>4, <2>5, RenamedInv
<1> QED BY <1>4, <1>5, <1>6, <1>7

(* Closing the roots, and a step of nobody. *)
LEMMA StillInv ==
  ASSUME LInv, closed' \in BOOLEAN, closed => closed',
         UNCHANGED <<boundary, where, entry, inode, staging, req, edits>>
  PROVE  LInv'
<1>1. TypeOK /\ WholeNames
  BY DEF LInv
<1>2. /\ \A k \in Ids \union {0}: Kind(k)' = Kind(k)
      /\ \A l \in Locations: IdOf(l)' = IdOf(l)
  BY DEF Kind, Inode, IdOf
<1>3. TypeOK'
  <2>1. \A k \in Ids: Kind(k)' = "link" => inode'[k].to \in Spots
    BY <1>1, <1>2 DEF TypeOK
  <2>2. \A l \in Locations: IdOf(l)' # 0 => Kind(IdOf(l))' # "none"
    <3> SUFFICES ASSUME NEW l \in Locations, IdOf(l)' # 0 PROVE Kind(IdOf(l))' # "none"
      OBVIOUS
    <3>1. IdOf(l)' = IdOf(l) /\ IdOf(l) \in Ids
      BY <1>1, <1>2, FileTypes
    <3>2. Kind(IdOf(l)) # "none" /\ Kind(IdOf(l))' = Kind(IdOf(l))
      BY <1>1, <1>2, <3>1 DEF TypeOK
    <3> QED BY <3>1, <3>2 DEF Kind, Inode
  <2>3. ASSUME NEW s \in Reqs
        PROVE  \A k \in {req'[s].origin, req'[s].stage, req'[s].file} \ {0}: Kind(k)' = "file"
    <3>1. \A k \in {req[s].origin, req[s].stage, req[s].file} \ {0}: k \in Ids /\ Kind(k) = "file"
      BY <1>1, RequestTypes DEF TypeOK
    <3> QED BY <1>2, <3>1
  <2>4. \A s \in Reqs: /\ req'[s].pc \notin {"idle", "done"} => req'[s].loc \in Spots
                       /\ req'[s].kind = "rename" => req'[s].to \in Spots
    BY <1>1 DEF TypeOK
  <2>5. /\ boundary' \in Boundaries /\ closed' \in BOOLEAN /\ where' \in [Dirs -> Dirs]
        /\ entry' \in [Dirs -> [Entries -> 0..MaxInodes]] /\ edits' \in 0..Budget
        /\ inode' \in [Ids -> InodeType] /\ req' \in [Reqs -> ReqType]
        /\ staging' \subseteq Locations
    BY <1>1 DEF TypeOK
  <2> QED BY <2>1, <2>2, <2>3, <2>4, <2>5 DEF TypeOK
<1>4. WholeNames'
  BY <1>1 DEF WholeNames, Free, IdOf
<1>5. Spares(NoRoot)
  <2>1. Calm
    <3>1. \A l \in Locations: entry'[l[1]][l[2]] = IdOf(l)
      BY DEF IdOf
    <3> QED BY <3>1, Constant DEF Calm
  <2>2. \A k \in Ids: KeepsInode(k)
    BY <1>1, FileTypes DEF KeepsInode
  <2>3. ASSUME NEW s \in Reqs
        PROVE  /\ \A k \in {req[s].origin, req[s].stage, req[s].file}: k # 0 => KeepsInode(k)
               /\ \A d \in Dirs: entry[d][s] # 0 => KeepsInode(entry[d][s])
    BY <2>2, Referred, Constant
  <2> QED BY <2>1, <2>3 DEF Spares
<1>6. Surroundings
  BY DEF Surroundings
<1> QED BY <1>3, <1>4, <1>5, <1>6, OutsideKeeps

(* Every step of a request keeps the invariant. *)
LEMMA RequestInv ==
  ASSUME LInv, NEW r \in Reqs, Write(r) \/ Change(r) \/ Look(r)
  PROVE  LInv'
<1>1. ASSUME Write(r) PROVE LInv'
  BY <1>1, BeginInv, WriteTargetInv, CreateStagedInv, MarkStagedInv, CopyBodyInv, ConfirmInv,
     CommitInv, StampInv, RemoveStagedInv, UnmarkStagingInv DEF Write
<1>2. ASSUME Change(r) PROVE LInv'
  BY <1>2, BeginInv, LookInv, CreateInv, RenameInv, DeleteInv DEF Change
<1>3. ASSUME Look(r) PROVE LInv'
  BY <1>3, BeginInv, OpenFileInv, ServeContentInv, ReadNamesInv, SkipStagingInv DEF Look
<1> QED BY <1>1, <1>2, <1>3

(* Every step does. *)
LEMMA NextInv ==
  ASSUME LInv, [Next]_vars
  PROVE  LInv'
<1>1. ASSUME NEW r \in Reqs, Write(r) \/ Change(r) \/ Look(r) PROVE LInv'
  BY <1>1, RequestInv
<1>2. ASSUME Close PROVE LInv'
  BY <1>2, StillInv DEF Close, fs
<1>3. ASSUME EditInPlace \/ Fill \/ Put \/ PlantLink PROVE LInv'
  BY <1>3, EditorsInv
<1>4. ASSUME Take \/ Move \/ HardLink \/ SwapDirectory PROVE LInv'
  BY <1>4, MoversInv
<1>5. ASSUME UNCHANGED vars PROVE LInv'
  BY <1>5, StillInv DEF vars, fs, LInv, TypeOK
<1> QED BY <1>1, <1>2, <1>3, <1>4, <1>5 DEF Next, Others

-----------------------------------------------------------------------------
(* The initial states. *)

(* There is an inode for the first file of each directory. *)
LEMMA NumberType ==
  ASSUME NEW d \in Dirs
  PROVE  Number(d) \in Ids
<1> DEFINE n == Cardinality(Dirs)
           distinct(f) == \A e, g \in Dirs: e # g => f[e] # f[g]
<1>1. IsFiniteSet(Dirs) /\ n <= MaxInodes /\ MaxInodes \in Nat
  BY LocalFilesAssumption DEF LocalFilesAssumption
<1>2. n \in Nat /\ ExistsBijection(1..n, Dirs)
  BY <1>1, FS_CardinalityType
<1>3. ExistsBijection(Dirs, 1..n)
  BY <1>2, Fun_ExistsBijSymmetric
<1>4. PICK f \in Bijection(Dirs, 1..n): TRUE
  BY <1>3 DEF ExistsBijection
<1>5. f \in [Dirs -> 1..n] /\ distinct(f)
  BY <1>4 DEF Bijection, Injection, IsInjective
<1>6. (CHOOSE number \in [Dirs -> 1..n]: distinct(number)) \in [Dirs -> 1..n]
  BY <1>5
<1>7. Number(d) \in 1..n
  BY <1>6 DEF Number
<1> QED BY <1>1, <1>2, <1>7 DEF Ids

(* It holds at first. *)
LEMMA InitInv ==
  ASSUME Init
  PROVE  LInv
<1>1. PICK filled \in SUBSET Dirs:
        /\ entry = [d \in Dirs |-> [n \in Entries |->
                      IF n = First /\ d \in filled THEN Number(d) ELSE 0]]
        /\ inode = [i \in Ids |-> IF \E d \in filled: i = Number(d)
                                  THEN NewInode("file", <<"initial", i>>) ELSE NoInode]
  BY DEF Init
<1>2. /\ boundary \in Boundaries /\ closed = FALSE /\ where = [p \in Dirs |-> p]
      /\ staging = {} /\ edits = 0 /\ req = [r \in Reqs |-> NewReq]
  BY DEF Init
<1>3. \A d \in Dirs: Number(d) \in Ids
  BY NumberType
<1>4. \A d \in Dirs, n \in Entries:
        entry[d][n] = IF n = First /\ d \in filled THEN Number(d) ELSE 0
  BY <1>1
<1>5. ASSUME NEW i \in Ids
      PROVE  /\ inode[i] \in InodeType /\ inode[i].kind \in {"none", "file"}
             /\ \A d \in filled: i = Number(d) => inode[i].kind = "file" /\ inode[i].whole
  <2> DEFINE x == NewInode("file", <<"initial", i>>)
  <2>1. inode[i] = IF \E d \in filled: i = Number(d) THEN x ELSE NoInode
    BY <1>1
  <2>2. <<"initial", i>> \in Makers
    BY DEF Makers, Ids
  <2>3. x \in InodeType /\ x.kind = "file" /\ x.whole
    BY <2>2, NewInodeType
  <2>4. NoInode \in InodeType /\ NoInode.kind = "none"
    BY DEF NoInode, InodeType, Makers
  <2> HIDE DEF x
  <2> QED BY <2>1, <2>3, <2>4
<1>6. \A d \in Dirs, n \in Entries: entry[d][n] # 0 =>
        /\ entry[d][n] \in Ids /\ inode[entry[d][n]].kind = "file"
        /\ inode[entry[d][n]].whole /\ n = First
  BY <1>3, <1>4, <1>5
<1>7. TypeOK
  <2>1. entry \in [Dirs -> [Entries -> 0..MaxInodes]]
    <3>1. ASSUME NEW d \in Dirs, NEW n \in Entries
          PROVE  (IF n = First /\ d \in filled THEN Number(d) ELSE 0) \in 0..MaxInodes
      BY <1>3, Constant
    <3> QED BY <1>1, <3>1
  <2>2. inode \in [Ids -> InodeType]
    <3>1. inode = [i \in Ids |-> inode[i]]
      BY <1>1
    <3> QED BY <1>5, <3>1
  <2>3. \A i \in Ids: Kind(i) = "link" => inode[i].to \in Spots
    BY <1>5, Constant DEF Kind, Inode
  <2>4. \A l \in Locations: IdOf(l) # 0 => Kind(IdOf(l)) # "none"
    BY <1>6, Constant DEF IdOf, Kind, Inode
  <2>5. req \in [Reqs -> ReqType]
    BY <1>2, NewReqType
  <2>6. ASSUME NEW r \in Reqs
        PROVE  /\ \A i \in {req[r].origin, req[r].stage, req[r].file} \ {0}: Kind(i) = "file"
               /\ req[r].pc \notin {"idle", "done"} => req[r].loc \in Spots
               /\ req[r].kind = "rename" => req[r].to \in Spots
    <3>1. req[r] = NewReq
      BY <1>2
    <3> QED BY <3>1, NewReqType
  <2>7. where \in [Dirs -> Dirs] /\ closed \in BOOLEAN /\ staging \subseteq Locations
    BY <1>2
  <2>8. edits \in 0..Budget
    BY <1>2, Constant
  <2> QED BY <1>2, <2>1, <2>2, <2>3, <2>4, <2>5, <2>6, <2>7, <2>8 DEF TypeOK
<1>8. WholeNames
  BY <1>6, Constant DEF WholeNames, Free, IdOf
<1>9. ASSUME NEW r \in Reqs PROVE RequestOK(r, req[r])
  <2>1. req[r] = NewReq
    BY <1>2
  <2>2. \A d \in Dirs: entry[d][r] = 0 /\ <<d, r>> \notin staging
    BY <1>2, <1>6, Constant
  <2> QED BY <2>1, <2>2, NewReqType
      DEF RequestOK, StagedIn, StagedWhole, MarkedAs, InPlace, Confined, Looked, Told, Holding
<1>10. \A r, w \in Reqs: Hidden(req[r], w, req[w])
  BY <1>2, NewReqType DEF Hidden
<1> QED BY <1>7, <1>8, <1>9, <1>10 DEF LInv

-----------------------------------------------------------------------------
(* The invariants. *)

(* The inductive invariant: where the staging file of a write is and whether *)
(* it is whole, who has marked it, what a request that looked can rely on,   *)
(* what it was told of, and what a listing can have seen                     *)
(* (files/service.go, all of its operations).                                *)
THEOREM LocalFilesInvariant == Spec => []LInv
<1>1. Init => LInv
  BY InitInv
<1>2. LInv /\ [Next]_vars => LInv'
  BY NextInv
<1> QED BY <1>1, <1>2, PTL DEF Spec

(* Every variable keeps its type, a name or a descriptor refers to an inode  *)
(* that is there, and an authorized request has a place to act at, whoever   *)
(* else uses the file system (openStaging, writeTarget, serveFile).          *)
THEOREM LocalFilesTypes == Spec => []TypeOK
<1>1. LInv => TypeOK
  BY DEF LInv
<1> QED BY <1>1, LocalFilesInvariant, PTL

(* No name a caller could read ever refers to a file that is not whole, and  *)
(* a write that is over has taken its staging file and the mark of it away,  *)
(* unless the hub was closing or a directory was replaced meanwhile; a       *)
(* listing does not show it (writeAtomically, isStaging).                    *)
THEOREM StagesPrivate == Spec => []StagesStayPrivate
<1>1. LInv => StagesStayPrivate
  <2> SUFFICES ASSUME LInv PROVE StagesStayPrivate
    OBVIOUS
  <2>1. ASSUME NEW l \in Spots, ~Free(l) PROVE Inode(IdOf(l)).whole
    BY <2>1 DEF LInv, WholeNames, Inode, Free
  <2>2. ASSUME NEW r \in Reqs, req[r].pc \in {"idle", "done"}
        PROVE  /\ \A d \in Dirs: <<d, r>> \notin staging
               /\ LetGo \/ (\E p \in Dirs: where[p] # p) \/ \A d \in Dirs: Free(<<d, r>>)
    <3>1. MarkedAs(r, req[r]) /\ StagedIn(r, req[r])
      BY DEF LInv, RequestOK
    <3>2. \A d \in Dirs: <<d, r>> \notin staging
      BY <2>2, <3>1 DEF MarkedAs, Holding
    <3>3. \A d \in Dirs: entry[d][r] # 0 => LetGo \/ Swapped
      BY <2>2, <3>1 DEF StagedIn, Holding
    <3> QED BY <3>2, <3>3 DEF Swapped, Free, IdOf
  <2>3. ASSUME NEW r \in Reqs, NEW w \in Reqs, Over(r), w \in req[r].shown
        PROVE  Over(w) \/ \E p \in Dirs: where[p] # p
    BY <2>3 DEF LInv, Hidden, Over, Swapped
  <2> QED BY <2>1, <2>2, <2>3 DEF StagesStayPrivate
<1> QED BY <1>1, LocalFilesInvariant, PTL

(* The modification time a reader is told of is not newer than the content   *)
(* it is served, whatever is written to the file in between (Read,           *)
(* serveFile).                                                               *)
THEOREM TimesNotNewer == Spec => []TimeNotNewer
<1>1. LInv => TimeNotNewer
  BY DEF LInv, RequestOK, Told, TimeNotNewer
<1> QED BY <1>1, LocalFilesInvariant, PTL

-----------------------------------------------------------------------------
(* What a step of the hub reaches. *)

(* Most steps change no name, and take up no directory or descriptor.        *)
Keeps ==
  /\ entry' = entry
  /\ \A s \in Reqs: req'[s].in \in {NoRoot, req[s].in} /\ req'[s].file \in {0, req[s].file}

(* A step that changes only local variables, and takes up nothing. *)
LEMMA BecomesStill ==
  ASSUME TypeOK, NEW r \in Reqs, NEW q, Becomes(r, q),
         q.in \in {NoRoot, req[r].in}, q.file \in {0, req[r].file}
  PROVE  Keeps
<1>1. entry' = entry /\ req' = [req EXCEPT ![r] = q]
  BY DEF Becomes, Perform
<1>2. \A s \in Reqs: req'[s] = IF s = r THEN q ELSE req[s]
  BY <1>1 DEF TypeOK
<1> QED BY <1>1, <1>2 DEF Keeps

(* A request that is over holds no directory and no descriptor. *)
LEMMA EndedStill ==
  ASSUME NEW q
  PROVE  Ended(q).in = NoRoot /\ Ended(q).file = 0 /\ NewReq.in = NoRoot /\ NewReq.file = 0
BY DEF Ended, NewReq

(* A request that returns changes no name. *)
LEMMA ReturnStill ==
  ASSUME TypeOK, NEW r \in Reqs, Return(r)
  PROVE  Keeps
BY EndedStill, BecomesStill DEF Return

(* A write that gives up changes no name yet. *)
LEMMA AbandonStill ==
  ASSUME TypeOK, NEW r \in Reqs, Abandon(r)
  PROVE  Keeps
<1> DEFINE q == [req[r] EXCEPT !.pc = "remove", !.stage = 0, !.quiet = FALSE]
<1>1. req[r] \in ReqType /\ Becomes(r, q)
  BY DEF TypeOK, Abandon
<1>2. q.in = req[r].in /\ q.file = req[r].file
  BY <1>1 DEF ReqType
<1> HIDE DEF q
<1> QED BY <1>1, <1>2, BecomesStill

(* An authorization changes no name. *)
LEMMA AcceptStill ==
  ASSUME TypeOK, NEW r \in Reqs, NEW kind, NEW ok, NEW q, Accept(r, kind, ok, q),
         [q EXCEPT !.kind = kind, !.pc = "begun"].in = NoRoot,
         [q EXCEPT !.kind = kind, !.pc = "begun"].file = 0
  PROVE  Keeps
<1> DEFINE p == [q EXCEPT !.kind = kind, !.pc = "begun"]
           z == IF ok THEN p ELSE Ended(NewReq)
<1>1. Becomes(r, z)
  BY DEF Accept
<1>2. z.in = NoRoot /\ z.file = 0
  BY EndedStill
<1> HIDE DEF z
<1> QED BY <1>1, <1>2, BecomesStill

(* Resolve changes no name. *)
LEMMA BeginStill ==
  ASSUME TypeOK, NEW r \in Reqs,
         \/ BeginWrite(r) \/ BeginCreate(r) \/ BeginRename(r) \/ BeginDelete(r) \/ BeginRead(r)
         \/ BeginList(r)
  PROVE  Keeps
<1>1. ASSUME BeginWrite(r) PROVE Keeps
  <2>1. PICK p \in Paths, may \in BOOLEAN:
          \E seen: Accept(r, "write", Resolves(p),
                     [NewReq EXCEPT !.loc = Canonical(p), !.expected = seen, !.may = may])
    BY <1>1 DEF BeginWrite
  <2>2. PICK seen: Accept(r, "write", Resolves(p),
                     [NewReq EXCEPT !.loc = Canonical(p), !.expected = seen, !.may = may])
    BY <2>1
  <2> QED BY <2>2, AcceptStill DEF NewReq
<1>2. ASSUME BeginCreate(r) PROVE Keeps
  <2>1. PICK p \in Paths, isDir \in BOOLEAN:
          Accept(r, "create", Resolves(p), [NewReq EXCEPT !.loc = Canonical(p), !.may = isDir])
    BY <1>2 DEF BeginCreate
  <2> QED BY <2>1, AcceptStill DEF NewReq
<1>3. ASSUME BeginRename(r) PROVE Keeps
  <2>1. PICK p \in Paths, new \in Paths:
          Accept(r, "rename", Authorized(EntryTarget(p)) /\ Authorized(EntryTarget(new)),
                 [NewReq EXCEPT !.loc = EntryTarget(p), !.to = EntryTarget(new)])
    BY <1>3 DEF BeginRename
  <2> QED BY <2>1, AcceptStill DEF NewReq
<1>4. ASSUME BeginDelete(r) PROVE Keeps
  <2>1. PICK p \in Paths, recursive \in BOOLEAN:
          Accept(r, "delete", Authorized(EntryTarget(p)),
                 [NewReq EXCEPT !.loc = EntryTarget(p), !.may = recursive])
    BY <1>4 DEF BeginDelete
  <2> QED BY <2>1, AcceptStill DEF NewReq
<1>5. ASSUME BeginRead(r) PROVE Keeps
  <2>1. PICK p \in Paths:
          Accept(r, "read", Resolves(p) /\ IdOf(Canonical(p)) # 0,
                 [NewReq EXCEPT !.loc = Canonical(p)])
    BY <1>5 DEF BeginRead
  <2> QED BY <2>1, AcceptStill DEF NewReq
<1>6. ASSUME BeginList(r) PROVE Keeps
  <2>1. PICK p \in Dirs:
          Accept(r, "list", Authorized(<<where[p], First>>),
                 [NewReq EXCEPT !.loc = <<where[p], First>>])
    BY <1>6 DEF BeginList
  <2> QED BY <2>1, AcceptStill DEF NewReq
<1> QED BY <1>1, <1>2, <1>3, <1>4, <1>5, <1>6

(* Neither does a write but for its creation, its rename and its removal. *)
LEMMA WriteStill ==
  ASSUME TypeOK, NEW r \in Reqs,
         \/ WriteTarget(r) \/ MarkStaged(r) \/ CopyBody(r) \/ Confirm(r) \/ Verify(r)
         \/ StampOf(r) \/ UnmarkStaging(r)
  PROVE  Keeps
<1>1. req[r] \in ReqType
  BY DEF TypeOK
<1>2. ASSUME NEW q, Becomes(r, q), q.in = req[r].in, q.file = req[r].file PROVE Keeps
  BY <1>2, BecomesStill
<1>3. ASSUME WriteTarget(r) PROVE Keeps
  <2> DEFINE i == Lstat(req[r].loc)
             q == [req[r] EXCEPT !.pc = "stage", !.origin = i, !.born = Born(i)]
  <2>1. Return(r) \/ Becomes(r, q)
    BY <1>3 DEF WriteTarget
  <2>2. q.in = req[r].in /\ q.file = req[r].file
    BY <1>1 DEF ReqType
  <2> HIDE DEF q
  <2> QED BY <1>2, <2>1, <2>2, ReturnStill
<1>4. ASSUME NEW n, entry' = entry, req' = [req EXCEPT ![r].pc = n] PROVE Keeps
  <2> DEFINE q == [req[r] EXCEPT !.pc = n]
  <2>1. q.in = req[r].in /\ q.file = req[r].file
    BY <1>1 DEF ReqType
  <2>2. \A s \in Reqs: req'[s] = IF s = r THEN q ELSE req[s]
    BY <1>4 DEF TypeOK
  <2> HIDE DEF q
  <2> QED BY <1>4, <2>1, <2>2 DEF Keeps
<1>5. ASSUME MarkStaged(r) PROVE Keeps
  BY <1>4, <1>5 DEF MarkStaged, fs
<1>6. ASSUME CopyBody(r) PROVE Keeps
  BY <1>4, <1>6, AbandonStill DEF CopyBody
<1>7. ASSUME Confirm(r) PROVE Keeps
  <2> DEFINE q == [req[r] EXCEPT !.pc = "verify", !.stage = 0]
  <2>1. Abandon(r) \/ Becomes(r, q)
    BY <1>7 DEF Confirm
  <2>2. q.in = req[r].in /\ q.file = req[r].file
    BY <1>1 DEF ReqType
  <2> HIDE DEF q
  <2> QED BY <1>2, <2>1, <2>2, AbandonStill
<1>8. ASSUME Verify(r) PROVE Keeps
  <2> DEFINE q == [req[r] EXCEPT !.pc = "commit", !.quiet = TRUE]
  <2>1. Abandon(r) \/ Becomes(r, q)
    BY <1>8 DEF Verify
  <2>2. q.in = req[r].in /\ q.file = req[r].file
    BY <1>1 DEF ReqType
  <2> HIDE DEF q
  <2> QED BY <1>2, <2>1, <2>2, AbandonStill
<1>9. ASSUME StampOf(r) PROVE Keeps
  <2> DEFINE q == [req[r] EXCEPT !.pc = "unmark", !.told = TimeOf(Stat(req[r].loc))]
  <2>1. Becomes(r, q)
    BY <1>9 DEF StampOf
  <2>2. q.in = req[r].in /\ q.file = req[r].file
    BY <1>1 DEF ReqType
  <2> HIDE DEF q
  <2> QED BY <1>2, <2>1, <2>2
<1>10. ASSUME UnmarkStaging(r) PROVE Keeps
  <2> DEFINE q == Ended(req[r])
  <2>1. entry' = entry /\ req' = [req EXCEPT ![r] = q]
    BY <1>10 DEF UnmarkStaging, Perform
  <2>2. q.in = NoRoot /\ q.file = 0
    BY EndedStill
  <2> HIDE DEF q
  <2>3. \A s \in Reqs: req'[s] = IF s = r THEN q ELSE req[s]
    BY <2>1 DEF TypeOK
  <2> QED BY <2>1, <2>2, <2>3 DEF Keeps
<1> QED BY <1>3, <1>5, <1>6, <1>7, <1>8, <1>9, <1>10

(* Neither do the looks, nor reading and listing after their first calls. *)
LEMMA LookStill ==
  ASSUME TypeOK, NEW r \in Reqs,
         \/ LookBeforeCreate(r) \/ LookBeforeRename(r) \/ LookBeforeDelete(r) \/ ServeContent(r)
         \/ SkipStaging(r)
  PROVE  Keeps
<1>1. req[r] \in ReqType
  BY DEF TypeOK
<1>2. ASSUME NEW q, Becomes(r, q), q.in \in {NoRoot, req[r].in}, q.file \in {0, req[r].file}
      PROVE  Keeps
  BY <1>2, BecomesStill
<1>3. ASSUME LookBeforeCreate(r) \/ LookBeforeRename(r) PROVE Keeps
  <2> DEFINE q == [req[r] EXCEPT !.pc = "act", !.quiet = TRUE]
  <2>1. Return(r) \/ Becomes(r, q)
    BY <1>3 DEF LookBeforeCreate, LookBeforeRename
  <2>2. q.in = req[r].in /\ q.file = req[r].file
    BY <1>1 DEF ReqType
  <2> HIDE DEF q
  <2> QED BY <1>2, <2>1, <2>2, ReturnStill
<1>4. ASSUME LookBeforeDelete(r) PROVE Keeps
  <2> DEFINE i == Lstat(req[r].loc)
             m == Kind(i) \in {"dir", "full"} /\ req[r].may
             q == [req[r] EXCEPT !.pc = "act", !.quiet = TRUE, !.may = m]
  <2>1. Return(r) \/ Becomes(r, q)
    BY <1>4 DEF LookBeforeDelete
  <2> HIDE DEF m
  <2>2. q.in = req[r].in /\ q.file = req[r].file
    BY <1>1 DEF ReqType
  <2> HIDE DEF q
  <2> QED BY <1>2, <2>1, <2>2, ReturnStill
<1>5. Ended(req[r]) \in ReqType /\ Ended(req[r]).in = NoRoot /\ Ended(req[r]).file = 0
  BY <1>1, EndedType, EndedStill
<1>6. ASSUME ServeContent(r) PROVE Keeps
  <2> DEFINE q == [Ended(req[r]) EXCEPT !.served = TimeOf(req[r].file)]
  <2>1. Becomes(r, q)
    BY <1>6 DEF ServeContent
  <2>2. q.in = NoRoot /\ q.file = 0
    BY <1>5 DEF ReqType
  <2> HIDE DEF q
  <2> QED BY <1>2, <2>1, <2>2
<1>7. ASSUME SkipStaging(r) PROVE Keeps
  <2> DEFINE hidden == {n \in req[r].shown: <<req[r].loc[1], n>> \in staging}
             q == [Ended(req[r]) EXCEPT !.shown = @ \ hidden]
  <2>1. Becomes(r, q)
    BY <1>7 DEF SkipStaging
  <2> HIDE DEF hidden
  <2>2. q.in = NoRoot /\ q.file = 0
    BY <1>5 DEF ReqType
  <2> HIDE DEF q
  <2> QED BY <1>2, <2>1, <2>2
<1> QED BY <1>3, <1>4, <1>6, <1>7

(* A name that changes is one the request may change. *)
Alters(r) ==
  \A d \in Dirs, n \in Entries: entry'[d][n] # entry[d][n] =>
    /\ req'[r] # req[r]
    /\ Restricted => SameRoot(r, d)
    /\ entry[d][n] # 0 => Takes(r, <<d, n>>)

(* What is taken up is in the root of the request. *)
TakesUp ==
  \A s \in Reqs:
    /\ Restricted /\ req'[s].in \notin {NoRoot, req[s].in} => SameRoot(s, req'[s].in)
    /\ Restricted /\ req'[s].file \notin {0, req[s].file} =>
         \E l \in NamesOf(req'[s].file): SameRoot(s, l[1])

(* A system call on an authorized path works in its root, or not at all. *)
LEMMA ReachedRoot ==
  ASSUME LInv, NEW r \in Reqs, req[r].pc \notin {"idle", "done"}, NEW l \in Spots,
         l = req[r].loc \/ (req[r].kind = "rename" /\ l = req[r].to),
         boundary[req[r].loc[1]] = boundary[l[1]], Reached(l[1]) # NoRoot
  PROVE  /\ ~LetGo /\ Reached(l[1]) \in Dirs /\ Entry(l) \in Spots /\ Entry(l) \in Locations
         /\ Lstat(l) = IdOf(Entry(l)) /\ Entry(l)[1] = Reached(l[1])
         /\ Restricted => SameRoot(r, Reached(l[1]))
<1>1. TypeOK /\ Confined(req[r])
  BY DEF LInv, RequestOK
<1>2. Within(l[1])
  BY <1>1 DEF Confined
<1>3. /\ Reached(l[1]) \in Dirs /\ Entry(l) \in Spots /\ Entry(l) \in Locations
      /\ Lstat(l) = IdOf(Entry(l))
  BY <1>1, LookedUp, Constant
<1>4. ~LetGo
  BY DEF Reached, LetGo
<1>5. Restricted => Reached(l[1]) = where[l[1]] /\ boundary[where[l[1]]] = boundary[l[1]]
  BY DEF Reached
<1>6. Restricted => SameRoot(r, Reached(l[1]))
  BY <1>2, <1>5 DEF Within, SameRoot
<1> QED BY <1>3, <1>4, <1>6 DEF Entry

(* A step of a request takes up nothing for another one. *)
LEMMA Elsewhere ==
  ASSUME TypeOK, NEW r \in Reqs, NEW p \in ReqType,
         req' = [req EXCEPT ![r] = p] \/ req' = Disturbed([req EXCEPT ![r] = p], r),
         p.in \in {NoRoot, req[r].in} \/ (Restricted => SameRoot(r, p.in)),
         p.file \in {0, req[r].file}
  PROVE  TakesUp /\ req'[r] = p
<1>1. ASSUME NEW s \in Reqs, s # r
      PROVE  req'[s].in = req[s].in /\ req'[s].file = req[s].file
  <2>1. req[s] \in ReqType
    BY DEF TypeOK
  <2>2. req'[s] = req[s] \/ req'[s] = [req[s] EXCEPT !.quiet = FALSE]
    BY <1>1 DEF TypeOK, Disturbed
  <2> QED BY <2>1, <2>2 DEF ReqType
<1>2. req'[r] = p
  BY DEF TypeOK, Disturbed
<1>3. ASSUME NEW s \in Reqs
      PROVE  /\ Restricted /\ req'[s].in \notin {NoRoot, req[s].in} => SameRoot(s, req'[s].in)
             /\ req'[s].file \in {0, req[s].file}
  <2>1. CASE s = r
    BY <1>2, <2>1
  <2>2. CASE s # r
    BY <1>1, <2>2
  <2> QED BY <2>1, <2>2
<1> QED BY <1>2, <1>3 DEF TakesUp

(* The file that is opened has a name in the root. *)
LEMMA OpenFileReach ==
  ASSUME LInv, NEW r \in Reqs, OpenFile(r)
  PROVE  Keeps \/ (entry' = entry /\ TakesUp)
<1> DEFINE l == req[r].loc
           i == Stat(l)
           p == [req[r] EXCEPT !.pc = "serve", !.file = i, !.told = TimeOf(i)]
<1>1. TypeOK /\ req[r].pc = "begun" /\ req[r] \in ReqType /\ l \in Spots
  BY DEF LInv, TypeOK, OpenFile, Begun, At
<1>2. CASE Return(r)
  BY <1>1, <1>2, ReturnStill
<1>3. CASE Kind(i) = "file" /\ Becomes(r, p)
  <2>1. entry' = entry /\ req' = [req EXCEPT ![r] = p]
    BY <1>3 DEF Becomes, Perform
  <2>2. p.file = i /\ p.in = req[r].in
    BY <1>1 DEF ReqType
  <2> HIDE DEF p
  <2>3. \A s \in Reqs: req'[s] = IF s = r THEN p ELSE req[s]
    BY <1>1, <2>1 DEF TypeOK
  <2>4. i # 0
    BY <1>3 DEF Kind, Inode, NoInode
  <2>5. Reached(l[1]) # NoRoot
    <3> SUFFICES ASSUME Reached(l[1]) = NoRoot PROVE FALSE
      OBVIOUS
    <3>1. Lstat(l) = 0
      BY DEF Lstat
    <3>2. Kind(0) # "link"
      BY DEF Kind, Inode, NoInode
    <3> QED BY <2>4, <3>1, <3>2 DEF Stat
  <2>6. /\ Entry(l) \in Locations /\ Lstat(l) = IdOf(Entry(l)) /\ Entry(l)[1] = Reached(l[1])
        /\ Restricted => SameRoot(r, Reached(l[1]))
    BY <1>1, <2>5, ReachedRoot
  <2>7. ASSUME Restricted PROVE \E m \in NamesOf(i): SameRoot(r, m[1])
    <3>1. CASE Kind(Lstat(l)) # "link"
      <4>1. i = Lstat(l)
        BY <3>1 DEF Stat
      <4>2. Entry(l) \in NamesOf(i) /\ SameRoot(r, Entry(l)[1])
        BY <2>6, <2>7, <4>1 DEF NamesOf
      <4> QED BY <4>2
    <3>2. CASE Kind(Lstat(l)) = "link"
      <4> DEFINE t == Leads(Entry(l))
      <4>1. i = IdOf(t) /\ boundary[t[1]] = boundary[l[1]]
        BY <2>4, <2>7, <3>2 DEF Stat
      <4>2. t \in Spots
        BY <1>1, <3>2, LookedUp
      <4>3. t \in NamesOf(i)
        BY <4>1, <4>2, Constant DEF NamesOf
      <4>4. Within(l[1])
        BY <1>1 DEF LInv, RequestOK, Confined
      <4>5. SameRoot(r, t[1])
        BY <2>7, <4>1, <4>4 DEF Within, SameRoot
      <4> QED BY <4>3, <4>5
    <3> QED BY <3>1, <3>2
  <2>8. TakesUp
    BY <2>2, <2>3, <2>7 DEF TakesUp
  <2> QED BY <2>1, <2>8
<1> QED BY <1>2, <1>3 DEF OpenFile

(* The directory that is listed is in the root. *)
LEMMA ReadNamesReach ==
  ASSUME LInv, NEW r \in Reqs, ReadNames(r)
  PROVE  Keeps \/ (entry' = entry /\ TakesUp)
<1> DEFINE d == Reached(req[r].loc[1])
           n == {m \in Entries: IdOf(<<d, m>>) # 0}
           p == [req[r] EXCEPT !.pc = "skip", !.in = d, !.shown = n]
<1>1. TypeOK /\ req[r].pc = "begun" /\ req[r] \in ReqType /\ req[r].loc \in Spots
  BY DEF LInv, TypeOK, ReadNames, Begun, At
<1>2. CASE Return(r)
  BY <1>1, <1>2, ReturnStill
<1>3. CASE d # NoRoot /\ Becomes(r, p)
  <2>1. entry' = entry /\ req' = [req EXCEPT ![r] = p]
    BY <1>3 DEF Becomes, Perform
  <2>2. d \in Dirs /\ (Restricted => SameRoot(r, d))
    BY <1>1, <1>3, ReachedRoot
  <2>3. n \subseteq Entries
    OBVIOUS
  <2> HIDE DEF d, n
  <2>4. p \in ReqType /\ p.file = req[r].file /\ p.in = d
    BY <1>1, <2>2, <2>3 DEF ReqType
  <2> HIDE DEF p
  <2>5. TakesUp
    BY <1>1, <2>1, <2>2, <2>4, Elsewhere
  <2> QED BY <2>1, <2>5
<1> QED BY <1>2, <1>3 DEF ReadNames

(* The staging file is created in the root, under a name that is free. *)
LEMMA CreateStagedReach ==
  ASSUME LInv, NEW r \in Reqs, CreateStaged(r)
  PROVE  Keeps \/ (Alters(r) /\ TakesUp)
<1> DEFINE d == Reached(req[r].loc[1])
           e == Set(<<d, r>>, Fresh)
           p == [req[r] EXCEPT !.pc = "mark", !.stage = Fresh, !.in = d]
<1>1. TypeOK /\ req[r].pc = "stage" /\ req[r] \in ReqType /\ req[r].loc \in Spots /\ r \in Entries
  BY Constant DEF LInv, TypeOK, CreateStaged, At
<1>2. CASE Return(r)
  BY <1>1, <1>2, ReturnStill
<1>3. CASE /\ d # NoRoot /\ ~Full /\ entry' = e
           /\ req' = [req EXCEPT ![r].pc = "mark", ![r].stage = Fresh, ![r].in = d]
  <2>1. Fresh \in Ids
    BY <1>1, <1>3, FreshId
  <2>2. d \in Dirs /\ (Restricted => SameRoot(r, d))
    BY <1>1, <1>3, ReachedRoot
  <2>3. \A c \in Dirs: entry[c][r] = 0
    BY <1>1, NothingStaged DEF Holding
  <2>4. req' = [req EXCEPT ![r] = p]
    BY <1>1, <1>3 DEF TypeOK
  <2> HIDE DEF d
  <2>5. \A c \in Dirs, n \in Entries: e[c][n] = IF c = d /\ n = r THEN Fresh ELSE entry[c][n]
    BY <1>1, <2>1, <2>2, SetName
  <2>6. p \in ReqType /\ p.file = req[r].file /\ p.in = d /\ p.pc = "mark"
    BY <1>1, <2>1, <2>2, Constant DEF ReqType
  <2> HIDE DEF p, e
  <2>7. TakesUp /\ req'[r] = p
    BY <1>1, <2>2, <2>4, <2>6, Elsewhere
  <2>8. Alters(r)
    BY <1>1, <1>3, <2>2, <2>3, <2>5, <2>6, <2>7 DEF Alters
  <2> QED BY <2>7, <2>8
<1> QED BY <1>2, <1>3 DEF CreateStaged, Perform

(* The rename replaces in the root, and what its write has seen or what came *)
(* later.                                                                    *)
LEMMA CommitReach ==
  ASSUME LInv, NEW r \in Reqs, Commit(r)
  PROVE  Keeps \/ (Alters(r) /\ TakesUp)
<1> DEFINE l == Entry(req[r].loc)
           s == <<l[1], r>>
           e == Moved(s, l, IdOf(s))
           p == [req[r] EXCEPT !.pc = "stamp", !.quiet = FALSE]
<1>1. /\ TypeOK /\ req[r].pc = "commit" /\ req[r] \in ReqType /\ req[r].loc \in Spots
      /\ r \in Entries /\ Looked(req[r])
  BY Constant DEF LInv, TypeOK, RequestOK, Commit, At
<1>2. CASE Abandon(r)
  BY <1>1, <1>2, AbandonStill
<1>3. CASE /\ l[1] # NoRoot
           /\ entry' = [entry EXCEPT ![l[1]][l[2]] = IdOf(s), ![l[1]][r] = 0]
           /\ req' = Disturbed([req EXCEPT ![r].pc = "stamp", ![r].quiet = FALSE], r)
  <2>1. l[1] = Reached(req[r].loc[1])
    BY DEF Entry
  <2>2. /\ ~LetGo /\ l \in Spots /\ l \in Locations /\ Lstat(req[r].loc) = IdOf(l) /\ l[1] \in Dirs
        /\ Restricted => SameRoot(r, l[1])
    BY <1>1, <1>3, <2>1, ReachedRoot
  <2>3. s \in Locations /\ s[1] = l[1] /\ s[2] = r
    BY <1>1, <2>2 DEF Locations
  <2>4. entry' = e
    BY <1>3, <2>3 DEF Moved
  <2>5. IdOf(s) \in Ids \union {0}
    BY <1>1, <2>3, FileTypes
  <2>6. [req EXCEPT ![r].pc = "stamp", ![r].quiet = FALSE] = [req EXCEPT ![r] = p]
    BY <1>1 DEF TypeOK
  <2>7. req' = Disturbed([req EXCEPT ![r] = p], r)
    BY <1>3, <2>6
  <2>8. p \in ReqType /\ p.file = req[r].file /\ p.in = req[r].in /\ p.pc = "stamp"
    BY <1>1 DEF ReqType
  <2> HIDE DEF l, s, p
  <2>9. \A c \in Dirs, n \in Entries:
          e[c][n] = IF c = s[1] /\ n = s[2] THEN 0
                    ELSE IF c = l[1] /\ n = l[2] THEN IdOf(s) ELSE entry[c][n]
    BY <1>1, <2>2, <2>3, <2>5, MoveAt
  <2> HIDE DEF e
  <2>10. TakesUp /\ req'[r] = p
    BY <1>1, <2>7, <2>8, Elsewhere
  <2>11. ASSUME IdOf(l) # 0, req[r].quiet
         PROVE  IsItsFile(r, IdOf(l)) \/ TakesLinkToIt(r, l)
    <3>1. Sees(req[r])
      BY <1>1, <2>2, <2>11 DEF Looked
    <3>2. req[r].origin # 0
      BY <2>2, <2>11, <3>1 DEF Sees
    <3>3. Stat(req[r].loc) = req[r].origin /\ Born(req[r].origin) = req[r].born
      BY <1>1, <3>1, <3>2 DEF Sees, Looked
    <3>4. req[r].expected \in {Unchecked, TimeOf(Stat(req[r].loc))}
      BY <3>1, <3>2, <3>3 DEF Sees
    <3>5. ~HasOtherNames(r, Stat(req[r].loc))
      BY <3>1, <3>2 DEF Sees, HasOtherNames
    <3>6. IsItsFile(r, Stat(req[r].loc))
      BY <3>2, <3>3, <3>4, <3>5 DEF IsItsFile
    <3>7. Stat(req[r].loc) = IdOf(l) \/ IsLink(l)
      BY <2>2 DEF Stat, IsLink
    <3> QED BY <3>6, <3>7 DEF TakesLinkToIt
  <2>12. ASSUME NEW c \in Dirs, NEW n \in Entries, entry'[c][n] # entry[c][n]
         PROVE  /\ req'[r] # req[r] /\ (Restricted => SameRoot(r, c))
                /\ entry[c][n] # 0 => Takes(r, <<c, n>>)
    <3>1. c = l[1] /\ (n = r \/ n = l[2])
      BY <2>3, <2>4, <2>9, <2>12
    <3>2. n = r \/ <<c, n>> = l
      BY <2>2, <3>1 DEF Locations
    <3>3. ASSUME entry[c][n] # 0, n # r, req[r].quiet
          PROVE  IsItsFile(r, IdOf(l)) \/ TakesLinkToIt(r, l)
      BY <2>11, <3>1, <3>3 DEF IdOf
    <3>4. ASSUME entry[c][n] # 0 PROVE Takes(r, <<c, n>>)
      <4>1. CASE n = r
        BY <1>1, <4>1 DEF Takes, At
      <4>2. CASE n # r /\ <<c, n>> = l
        BY <1>1, <3>3, <3>4, <4>2 DEF Takes, At
      <4> QED BY <3>2, <4>1, <4>2
    <3> QED BY <1>1, <2>2, <2>8, <2>10, <3>1, <3>4
  <2> QED BY <2>10, <2>12 DEF Alters
<1> QED BY <1>2, <1>3 DEF Commit, Perform

(* The removal takes the staging file and nothing else. *)
LEMMA RemoveStagedReach ==
  ASSUME LInv, NEW r \in Reqs, RemoveStaged(r)
  PROVE  Alters(r) /\ TakesUp
<1> DEFINE d == Reached(req[r].loc[1])
           p == [req[r] EXCEPT !.pc = "unmark"]
<1>1. TypeOK /\ req[r].pc = "remove" /\ req[r] \in ReqType /\ req[r].loc \in Spots /\ r \in Entries
  BY Constant DEF LInv, TypeOK, RemoveStaged, At
<1>2. req' = [req EXCEPT ![r] = p]
  BY <1>1 DEF RemoveStaged, Perform, TypeOK
<1>3. p \in ReqType /\ p.file = req[r].file /\ p.in = req[r].in /\ p.pc = "unmark"
  BY <1>1 DEF ReqType
<1>4. entry' = IF d = NoRoot THEN entry ELSE Set(<<d, r>>, 0)
  BY DEF RemoveStaged, Perform
<1>5. d # NoRoot => d \in Dirs /\ (Restricted => SameRoot(r, d))
  BY <1>1, ReachedRoot
<1> HIDE DEF d, p
<1>6. TakesUp /\ req'[r] = p
  BY <1>1, <1>2, <1>3, Elsewhere
<1>7. ASSUME NEW c \in Dirs, NEW n \in Entries, entry'[c][n] # entry[c][n]
      PROVE  /\ req'[r] # req[r] /\ (Restricted => SameRoot(r, c))
             /\ entry[c][n] # 0 => Takes(r, <<c, n>>)
  <2>1. d # NoRoot /\ entry' = Set(<<d, r>>, 0)
    BY <1>4, <1>7
  <2>2. entry'[c][n] = IF c = d /\ n = r THEN 0 ELSE entry[c][n]
    BY <1>1, <1>5, <2>1, SetName
  <2>3. c = d /\ n = r
    BY <1>7, <2>2
  <2> QED BY <1>1, <1>3, <1>5, <1>6, <2>1, <2>3 DEF Takes, At
<1> QED BY <1>6, <1>7 DEF Alters

(* Create, Rename and Delete are over when they have acted. *)
LEMMA ActReach ==
  ASSUME LInv, NEW r \in Reqs, At(r, "act"),
         req' = Disturbed([req EXCEPT ![r] = Ended(@)], r),
         \A c \in Dirs, n \in Entries: entry'[c][n] # entry[c][n] =>
           /\ Restricted => SameRoot(r, c)
           /\ entry[c][n] # 0 => Takes(r, <<c, n>>)
  PROVE  Alters(r) /\ TakesUp
<1> DEFINE p == Ended(req[r])
<1>1. TypeOK /\ req[r] \in ReqType /\ req[r].pc = "act"
  BY DEF LInv, TypeOK, At
<1>2. p \in ReqType /\ p.pc = "done" /\ p.in = NoRoot /\ p.file = 0
  BY <1>1, EndedType, EndedStill
<1>3. req' = Disturbed([req EXCEPT ![r] = p], r)
  BY <1>1 DEF TypeOK
<1> HIDE DEF p
<1>4. TakesUp /\ req'[r] = p
  BY <1>1, <1>2, <1>3, Elsewhere
<1>5. req'[r] # req[r]
  BY <1>1, <1>2, <1>4
<1> QED BY <1>4, <1>5 DEF Alters

(* Create takes a free name in the root. *)
LEMMA CreateReach ==
  ASSUME LInv, NEW r \in Reqs, Create(r)
  PROVE  Keeps \/ (Alters(r) /\ TakesUp)
<1> DEFINE l == Entry(req[r].loc)
<1>1. TypeOK /\ At(r, "act") /\ req[r].pc = "act" /\ req[r].loc \in Spots
  BY DEF LInv, TypeOK, Create, At
<1>2. CASE Return(r)
  BY <1>1, <1>2, ReturnStill
<1>3. CASE /\ Reached(req[r].loc[1]) # NoRoot /\ Lstat(req[r].loc) = 0 /\ ~Full
           /\ entry' = Set(l, Fresh)
           /\ req' = Disturbed([req EXCEPT ![r] = Ended(@)], r)
  <2>1. /\ l \in Locations /\ Lstat(req[r].loc) = IdOf(l) /\ l[1] = Reached(req[r].loc[1])
        /\ Restricted => SameRoot(r, l[1])
    BY <1>1, <1>3, ReachedRoot
  <2> HIDE DEF l
  <2>2. \A c \in Dirs, n \in Entries:
          entry'[c][n] = IF c = l[1] /\ n = l[2] THEN Fresh ELSE entry[c][n]
    BY <1>1, <1>3, <2>1, FreshId, SetAt
  <2>3. entry[l[1]][l[2]] = 0
    BY <1>3, <2>1 DEF IdOf
  <2> QED BY <1>1, <1>3, <2>1, <2>2, <2>3, ActReach
<1> QED BY <1>2, <1>3 DEF Create, Perform

(* Rename takes what it was asked to, and replaces only what came after its  *)
(* look.                                                                     *)
LEMMA RenameReach ==
  ASSUME LInv, NEW r \in Reqs, Rename(r)
  PROVE  Keeps \/ (Alters(r) /\ TakesUp)
<1> DEFINE l == Entry(req[r].loc)
           t == Entry(req[r].to)
           e == [entry EXCEPT ![t[1]][t[2]] = IdOf(l), ![l[1]][l[2]] = 0]
<1>1. /\ TypeOK /\ At(r, "act") /\ req[r].pc = "act" /\ req[r].loc \in Spots
      /\ req[r].kind = "rename" /\ req[r].to \in Spots /\ Looked(req[r])
  BY DEF LInv, TypeOK, RequestOK, Rename, At
<1>2. CASE Return(r)
  BY <1>1, <1>2, ReturnStill
<1>3. CASE /\ boundary[req[r].loc[1]] = boundary[req[r].to[1]]
           /\ l[1] # NoRoot /\ t[1] # NoRoot
           /\ entry' = IF IdOf(l) = IdOf(t) THEN entry ELSE e
           /\ req' = Disturbed([req EXCEPT ![r] = Ended(@)], r)
  <2>1. Reached(req[r].loc[1]) # NoRoot /\ Reached(req[r].to[1]) # NoRoot
    BY <1>3 DEF Entry
  <2>2. l \in Locations /\ l[1] = Reached(req[r].loc[1]) /\ (Restricted => SameRoot(r, l[1]))
    BY <1>1, <2>1, ReachedRoot
  <2>3. /\ ~LetGo /\ t \in Locations /\ t[1] = Reached(req[r].to[1])
        /\ Lstat(req[r].to) = IdOf(t) /\ (Restricted => SameRoot(r, t[1]))
    BY <1>1, <1>3, <2>1, ReachedRoot
  <2>4. req[r].quiet => IdOf(t) = 0
    BY <1>1, <2>3 DEF Looked
  <2>5. l = Entry(req[r].loc)
    OBVIOUS
  <2> HIDE DEF l, t
  <2>6. e = Moved(l, t, IdOf(l)) /\ IdOf(l) \in Ids \union {0}
    BY <1>1, <2>2, FileTypes DEF Moved
  <2> HIDE DEF e
  <2>7. \A c \in Dirs, n \in Entries:
          e[c][n] = IF c = l[1] /\ n = l[2] THEN 0
                    ELSE IF c = t[1] /\ n = t[2] THEN IdOf(l) ELSE entry[c][n]
    BY <1>1, <2>2, <2>3, <2>6, MoveAt
  <2>8. ASSUME NEW c \in Dirs, NEW n \in Entries, entry'[c][n] # entry[c][n]
        PROVE  /\ Restricted => SameRoot(r, c)
               /\ entry[c][n] # 0 => Takes(r, <<c, n>>)
    <3>1. entry'[c][n] = e[c][n]
      BY <1>3, <2>8
    <3>2. \/ c = l[1] /\ n = l[2]
          \/ c = t[1] /\ n = t[2]
      BY <2>7, <2>8, <3>1
    <3>3. CASE c = l[1] /\ n = l[2]
      <4>1. <<c, n>> = Entry(req[r].loc)
        BY <2>2, <2>5, <3>3, Constant
      <4> QED BY <1>1, <2>2, <3>3, <4>1 DEF Takes
    <3>4. CASE c = t[1] /\ n = t[2]
      <4>1. entry[c][n] # 0 => ~req[r].quiet
        BY <2>4, <3>4 DEF IdOf
      <4> QED BY <1>1, <2>3, <3>4, <4>1 DEF Takes
    <3> QED BY <3>2, <3>3, <3>4
  <2> QED BY <1>1, <1>3, <2>8, ActReach
<1> QED BY <1>2, <1>3 DEF Rename, Perform

(* Delete takes what it was asked to. *)
LEMMA DeleteReach ==
  ASSUME LInv, NEW r \in Reqs, Delete(r)
  PROVE  Keeps \/ (Alters(r) /\ TakesUp)
<1> DEFINE l == Entry(req[r].loc)
           i == Lstat(req[r].loc)
<1>1. /\ TypeOK /\ At(r, "act") /\ req[r].pc = "act" /\ req[r].loc \in Spots
      /\ req[r].kind = "delete"
  BY DEF LInv, TypeOK, Delete, At
<1>2. CASE Return(r)
  BY <1>1, <1>2, ReturnStill
<1>3. CASE /\ Reached(req[r].loc[1]) # NoRoot /\ (Kind(i) = "full" => req[r].may)
           /\ entry' = Set(l, 0) /\ req' = Disturbed([req EXCEPT ![r] = Ended(@)], r)
  <2>1. /\ l \in Locations /\ i = IdOf(l) /\ l[1] = Reached(req[r].loc[1])
        /\ Restricted => SameRoot(r, l[1])
    BY <1>1, <1>3, ReachedRoot
  <2> HIDE DEF l, i
  <2>2. \A c \in Dirs, n \in Entries:
          entry'[c][n] = IF c = l[1] /\ n = l[2] THEN 0 ELSE entry[c][n]
    BY <1>1, <1>3, <2>1, SetAt
  <2>3. ASSUME NEW c \in Dirs, NEW n \in Entries, entry'[c][n] # entry[c][n]
        PROVE  /\ Restricted => SameRoot(r, c)
               /\ entry[c][n] # 0 => Takes(r, <<c, n>>)
    <3>1. c = l[1] /\ n = l[2] /\ <<c, n>> = l
      BY <2>1, <2>2, <2>3, Constant
    <3>2. Takes(r, l)
      BY <1>1, <1>3, <2>1 DEF Takes
    <3> QED BY <2>1, <3>1, <3>2
  <2> QED BY <1>1, <1>3, <2>3, ActReach
<1>4. Kind(i) = "full" => Kind(i) \in {"none", "full"}
  OBVIOUS
<1> QED BY <1>2, <1>3, <1>4 DEF Delete, Perform

(* A step of the hub keeps every name, or takes something up, or is a change *)
(* that one request makes.                                                   *)
LEMMA HubReach ==
  ASSUME LInv, [Next]_vars, edits' = edits
  PROVE  \/ Keeps
         \/ entry' = entry /\ TakesUp
         \/ \E r \in Reqs: Alters(r) /\ TakesUp
<1>1. TypeOK /\ edits \in Nat
  BY Constant DEF LInv, TypeOK
<1>2. ASSUME NEW r \in Reqs, Write(r) PROVE Keeps \/ (Alters(r) /\ TakesUp)
  BY <1>1, <1>2, BeginStill, WriteStill, CreateStagedReach, CommitReach, RemoveStagedReach
  DEF Write
<1>3. ASSUME NEW r \in Reqs, Change(r) PROVE Keeps \/ (Alters(r) /\ TakesUp)
  BY <1>1, <1>3, BeginStill, LookStill, CreateReach, RenameReach, DeleteReach DEF Change
<1>4. ASSUME NEW r \in Reqs, Look(r) PROVE Keeps \/ (entry' = entry /\ TakesUp)
  BY <1>1, <1>4, BeginStill, LookStill, OpenFileReach, ReadNamesReach DEF Look
<1>5. ASSUME Close PROVE Keeps
  BY <1>5 DEF Close, fs, Keeps
<1>6. ~(EditInPlace \/ Fill \/ Put \/ Take \/ Move \/ HardLink \/ PlantLink \/ SwapDirectory)
  <2>1. edits' # edits + 1
    BY <1>1
  <2> QED BY <2>1 DEF EditInPlace, Fill, Put, Take, Move, HardLink, PlantLink, SwapDirectory, Edit
<1>7. ASSUME UNCHANGED vars PROVE Keeps
  BY <1>7 DEF vars, fs, Keeps
<1> QED BY <1>2, <1>3, <1>4, <1>5, <1>6, <1>7 DEF Next, Others

(* A directory that is not what it was has a name that is not what it was. *)
LEMMA NameChanged ==
  ASSUME TypeOK, TypeOK', NEW d \in Dirs, entry'[d] # entry[d]
  PROVE  \E n \in Entries: entry'[d][n] # entry[d][n]
<1>1. entry[d] \in [Entries -> 0..MaxInodes]
  BY DEF TypeOK
<1>2. entry'[d] \in [Entries -> 0..MaxInodes]
  BY DEF TypeOK
<1> QED BY <1>1, <1>2

(* What a hub with roots changes, lists or opens is in the root of the path  *)
(* it authorized, although another process replaces directories by links at  *)
(* any moment (guard.go Resolve, confine.go Confined).                       *)
THEOREM NothingOutsideTheRoot == Spec => StaysInside
<1> DEFINE Inside ==
      Restricted /\ edits' = edits =>
        /\ \A d \in Dirs: entry'[d] # entry[d] => \E r \in Reqs: req'[r] # req[r] /\ SameRoot(r, d)
        /\ \A r \in Reqs:
             /\ req'[r].in \notin {NoRoot, req[r].in} => SameRoot(r, req'[r].in)
             /\ req'[r].file \notin {0, req[r].file} =>
                  \E l \in NamesOf(req'[r].file): SameRoot(r, l[1])
<1>1. ASSUME LInv, LInv', [Next]_vars PROVE Inside
  <2> SUFFICES ASSUME Restricted, edits' = edits
               PROVE  /\ \A d \in Dirs: entry'[d] # entry[d] =>
                           \E r \in Reqs: req'[r] # req[r] /\ SameRoot(r, d)
                      /\ TakesUp
    BY DEF TakesUp
  <2>1. Keeps => entry' = entry /\ TakesUp
    BY DEF Keeps, TakesUp
  <2>2. TakesUp
    BY <1>1, <2>1, HubReach
  <2>3. ASSUME NEW d \in Dirs, entry'[d] # entry[d]
        PROVE  \E r \in Reqs: req'[r] # req[r] /\ SameRoot(r, d)
    <3>1. PICK r \in Reqs: Alters(r)
      BY <1>1, <2>1, <2>3, HubReach
    <3>2. TypeOK /\ TypeOK'
      BY <1>1 DEF LInv
    <3>3. PICK n \in Entries: entry'[d][n] # entry[d][n]
      BY <2>3, <3>2, NameChanged
    <3> QED BY <3>1, <3>3 DEF Alters
  <2> QED BY <2>2, <2>3
<1>2. LInv /\ LInv' /\ [Next]_vars => [Inside]_vars
  BY <1>1
<1> QED BY <1>2, LocalFilesInvariant, PTL DEF Spec, StaysInside

(* What a step of the hub takes from a name is what its request was asked to *)
(* take, or staged itself, or the file the write began with, or a symbolic   *)
(* link that has taken the name of that file and leads to it; otherwise      *)
(* somebody changed the file system after the request's last look            *)
(* (confirmUnchanged, Rename, Delete).  The case of the link cannot be       *)
(* dropped: EntryIsTheOneBegunWith fails.                                    *)
THEOREM NoLossUnseen == Spec => NothingTakenUnseen
<1> DEFINE Seen ==
      edits' = edits =>
        \A l \in Locations:
          ~Free(l) /\ entry'[l[1]][l[2]] # IdOf(l) =>
            \E r \in Reqs: req'[r] # req[r] /\ Takes(r, l)
<1>1. ASSUME LInv, [Next]_vars PROVE Seen
  <2> SUFFICES ASSUME edits' = edits, NEW l \in Locations,
                      ~Free(l), entry'[l[1]][l[2]] # IdOf(l)
               PROVE  \E r \in Reqs: req'[r] # req[r] /\ Takes(r, l)
    OBVIOUS
  <2>1. l[1] \in Dirs /\ l[2] \in Entries /\ l = <<l[1], l[2]>>
    BY Constant
  <2>2. entry[l[1]][l[2]] # 0 /\ entry'[l[1]][l[2]] # entry[l[1]][l[2]]
    BY DEF Free, IdOf
  <2>3. PICK r \in Reqs: Alters(r)
    BY <1>1, <2>2, HubReach DEF Keeps
  <2> QED BY <2>1, <2>2, <2>3 DEF Alters
<1>2. LInv /\ [Next]_vars => [Seen]_vars
  BY <1>1
<1> QED BY <1>2, LocalFilesInvariant, PTL DEF Spec, NothingTakenUnseen
=============================================================================
