--------------------------- MODULE HostTrustProofs ---------------------------
(***************************************************************************)
(* Proofs about the host registry and the trust of host keys, for every    *)
(* set of hosts, names, endpoints, credentials, keys and calls and every   *)
(* bound.  First the registry alone: its invariant relates the three       *)
(* places a revision is kept -- the watermarks bound every revision ever   *)
(* issued, and a registered host sits exactly at its watermark, so that    *)
(* the next revision is always a fresh one.  Then the calls of the API:    *)
(* they step as the registry does, so that what is proved of it is known   *)
(* of its revisions; their invariant adds who holds a challenge: the       *)
(* store, one call, or the history of confirmations, never two of them.    *)
(***************************************************************************)
EXTENDS HostTrust, FiniteSetTheorems, TLAPS

(* The watermarks cover everything ever issued. *)
MarksCoverIssued ==
  \A r \in issued: r.rev <= marks[r.id].rev /\ r.connRev <= marks[r.id].connRev

(* A registered host is the last record issued for its identifier. *)
HostAtMark ==
  \A h \in Hosts: Present(h) =>
    /\ hosts[h] \in issued
    /\ hosts[h].id = h
    /\ hosts[h].rev = marks[h].rev
    /\ hosts[h].connRev = marks[h].connRev

(* A local record has nothing but a name. *)
LocalsBare ==
  \A h \in Hosts: Present(h) /\ hosts[h].type = "local" =>
    hosts[h].endpoint = Keep /\ hosts[h].login = Keep /\ hosts[h].key = Keep

MarksOrdered == \A h \in Hosts: marks[h].connRev <= marks[h].rev

SettingsLatest ==
  /\ \A s \in issuedSettings: s.rev \in Nat /\ s.rev <= settings.rev
  /\ issuedSettings \subseteq [default: Hosts \union {Absent}, rev: Nat \ {0}]

RevisionInv ==
  /\ MarksOrdered /\ MarksCoverIssued /\ HostAtMark
  /\ RevisionNamesContent /\ ConnectionRevisionNamesConnection

SettingsInv ==
  SettingsLatest /\ SettingsRevisionNamesDefault /\ DefaultRegistered

IInv == TypeOK /\ RevisionInv /\ SettingsInv /\ SingleLocal /\ LocalsBare

-----------------------------------------------------------------------------
(* What every writing operation has in common: the new record follows the    *)
(* watermark, and it either has a fresh connection revision or keeps the     *)
(* connection of the record it replaces.                                     *)
Successor(r) ==
  /\ r \in Record
  /\ r.rev = marks[r.id].rev + 1
  /\ r.connRev <= r.rev
  /\ \/ r.connRev > marks[r.id].connRev
     \/ /\ Present(r.id)
        /\ r.connRev = hosts[r.id].connRev
        /\ Connection(r) = Connection(hosts[r.id])

LEMMA InitInv == Init => IInv
<1> SUFFICES ASSUME Init PROVE IInv
  OBVIOUS
<1>1. PICK name \in Names:
        LET r == LocalRecord(Local, 1, 1, name)
        IN /\ hosts = [h \in Hosts |-> IF h = Local THEN r ELSE Absent]
           /\ marks = [h \in Hosts |-> IF h = Local THEN [rev |-> 1, connRev |-> 1]
                                                    ELSE [rev |-> 0, connRev |-> 0]]
           /\ settings = [default |-> Local, rev |-> 1]
           /\ issued = {r}
           /\ issuedSettings = {settings}
  BY DEF Init
<1> DEFINE r == LocalRecord(Local, 1, 1, name)
<1>2. r \in Record
  BY RegistryAssumption DEF LocalRecord, Record, Revisions
<1>3. TypeOK
  BY <1>1, <1>2, RegistryAssumption DEF TypeOK
<1>4. r.id = Local /\ r.rev = 1 /\ r.connRev = 1 /\ r.type = "local"
  BY DEF LocalRecord
<1>5. r # Absent
  BY <1>2, AbsentAssumption
<1>6. RevisionInv
  BY <1>1, <1>4, <1>5, RegistryAssumption
  DEF RevisionInv, MarksOrdered, MarksCoverIssued, HostAtMark, Present,
      RevisionNamesContent, ConnectionRevisionNamesConnection
<1>7. SettingsInv
  BY <1>1, <1>5, RegistryAssumption
  DEF SettingsInv, SettingsLatest, SettingsRevisionNamesDefault,
      DefaultRegistered, Present
<1>8. SingleLocal
  BY <1>1 DEF SingleLocal, Present
<1>9. LocalsBare
  BY <1>1, <1>5 DEF LocalsBare, Present, LocalRecord
<1> QED
  BY <1>3, <1>6, <1>7, <1>8, <1>9 DEF IInv

LEMMA PutRevisions ==
  ASSUME IInv, NEW r, Successor(r), Put(r)
  PROVE  /\ TypeOK'
         /\ RevisionInv'
         /\ SettingsInv'
<1>1. /\ r \in Record /\ r.id \in Hosts
      /\ r.rev \in Nat /\ r.connRev \in Nat /\ r.rev <= MaxRevision
      /\ r # Absent
  BY RegistryAssumption, AbsentAssumption DEF Successor, Record, Revisions
<1>2. /\ marks \in [Hosts -> [rev: 0..MaxRevision, connRev: 0..MaxRevision]]
      /\ hosts \in [Hosts -> Record \union {Absent}]
  BY DEF IInv, TypeOK
<1>3. /\ marks'[r.id].rev = r.rev
      /\ r.connRev >= marks[r.id].connRev
      /\ marks'[r.id].connRev = r.connRev
      /\ \A h \in Hosts: h # r.id => marks'[h] = marks[h] /\ hosts'[h] = hosts[h]
      /\ hosts'[r.id] = r
  BY <1>1, <1>2, RegistryAssumption
  DEF Put, Successor, MaxOf, IInv, RevisionInv, HostAtMark
<1>4. TypeOK'
  <2>1. marks' \in [Hosts -> [rev: 0..MaxRevision, connRev: 0..MaxRevision]]
    <3> DEFINE m == [rev |-> MaxOf(marks[r.id].rev, r.rev),
                     connRev |-> MaxOf(marks[r.id].connRev, r.connRev)]
    <3>1. /\ r.rev \in 0..MaxRevision /\ r.connRev \in 0..MaxRevision
          /\ marks[r.id].rev \in 0..MaxRevision
          /\ marks[r.id].connRev \in 0..MaxRevision
      BY <1>1, <1>2, RegistryAssumption DEF Successor
    <3>2. m \in [rev: 0..MaxRevision, connRev: 0..MaxRevision]
      BY <3>1 DEF MaxOf
    <3>3. marks' = [marks EXCEPT ![r.id] = m]
      BY DEF Put
    <3> QED
      BY <1>2, <3>2, <3>3
  <2> QED
    BY <1>1, <1>2, <2>1 DEF IInv, TypeOK, Put
<1>5. issued \subseteq Record /\ \A s \in issued: s.id \in Hosts /\ s.rev \in Nat /\ s.connRev \in Nat
  BY RegistryAssumption DEF IInv, TypeOK, Record, Revisions
<1>6. MarksOrdered'
  BY <1>1, <1>2, <1>3 DEF Successor, IInv, RevisionInv, MarksOrdered
<1>7. MarksCoverIssued'
  <2> SUFFICES ASSUME NEW s \in issued'
               PROVE  s.rev <= marks'[s.id].rev /\ s.connRev <= marks'[s.id].connRev
    BY DEF MarksCoverIssued
  <2>1. CASE s = r
    BY <1>1, <1>3, <2>1
  <2>2. CASE s \in issued
    BY <1>1, <1>2, <1>3, <1>5, <2>2
    DEF IInv, RevisionInv, MarksCoverIssued, Successor
  <2> QED
    BY <2>1, <2>2 DEF Put
<1>8. HostAtMark'
  BY <1>1, <1>3 DEF HostAtMark, Present, Put, IInv, RevisionInv
<1>9. RevisionNamesContent'
  <2>1. \A s \in issued: s.id = r.id => s.rev < r.rev
    BY <1>1, <1>2, <1>5 DEF IInv, RevisionInv, MarksCoverIssued, Successor
  <2> QED
    BY <1>1, <1>5, <2>1 DEF RevisionNamesContent, IInv, RevisionInv, Put
<1>10. ConnectionRevisionNamesConnection'
  <2>1. \A s \in issued: s.id = r.id /\ s.connRev = r.connRev => Connection(s) = Connection(r)
    <3> SUFFICES ASSUME NEW s \in issued, s.id = r.id, s.connRev = r.connRev
                 PROVE  Connection(s) = Connection(r)
      OBVIOUS
    <3>1. s.connRev <= marks[r.id].connRev
      BY DEF IInv, RevisionInv, MarksCoverIssued
    <3>2. /\ Present(r.id) /\ r.connRev = hosts[r.id].connRev
          /\ Connection(r) = Connection(hosts[r.id])
      BY <1>1, <1>2, <1>5, <3>1 DEF Successor
    <3>3. hosts[r.id] \in issued /\ hosts[r.id].id = r.id
      BY <1>1, <3>2 DEF IInv, RevisionInv, HostAtMark
    <3> QED
      BY <3>2, <3>3 DEF IInv, RevisionInv, ConnectionRevisionNamesConnection
  <2> SUFFICES ASSUME NEW s \in issued', NEW t \in issued', s.id = t.id, s.connRev = t.connRev
               PROVE  Connection(s) = Connection(t)
    BY DEF ConnectionRevisionNamesConnection
  <2>2. s \in issued \union {r} /\ t \in issued \union {r}
    BY DEF Put
  <2> QED
    BY <2>1, <2>2 DEF IInv, RevisionInv, ConnectionRevisionNamesConnection
<1>11. SettingsInv'
  BY <1>1, <1>3 DEF SettingsInv, SettingsLatest, SettingsRevisionNamesDefault,
                    DefaultRegistered, Present, Put, IInv, TypeOK
<1> QED
  BY <1>4, <1>6, <1>7, <1>8, <1>9, <1>10, <1>11 DEF RevisionInv

(* The records the operations write are such successors. *)
LEMMA CreateLocalSuccessor ==
  ASSUME IInv, NEW h \in Hosts, NEW name \in Names, CreateLocal(h, name)
  PROVE  LET r == LocalRecord(h, NextRevisions(h).rev, NextRevisions(h).connRev, name)
         IN Successor(r) /\ Put(r)
<1> DEFINE r == LocalRecord(h, NextRevisions(h).rev, NextRevisions(h).connRev, name)
<1>1. /\ marks[h].rev \in Nat /\ marks[h].connRev \in Nat
      /\ marks[h].connRev <= marks[h].rev /\ marks[h].rev < MaxRevision
  BY DEF IInv, TypeOK, RevisionInv, MarksOrdered, CreateLocal
<1>2. r.id = h /\ r.rev = marks[h].rev + 1 /\ r.connRev = marks[h].connRev + 1
  BY DEF LocalRecord, NextRevisions
<1>3. r \in Record
  BY <1>1, RegistryAssumption DEF LocalRecord, NextRevisions, Record, Revisions
<1>4. Successor(r)
  BY <1>1, <1>2, <1>3 DEF Successor
<1> QED
  BY <1>4 DEF CreateLocal

LEMMA CreateSSHSuccessor ==
  ASSUME IInv, NEW h \in Hosts, NEW name \in Names, NEW endpoint \in Endpoints,
         NEW login \in Logins, NEW key \in Keys \union {Keep},
         CreateSSH(h, name, endpoint, login, key)
  PROVE  LET r == SSHRecord(h, NextRevisions(h).rev, NextRevisions(h).connRev,
                            name, endpoint, login, key)
         IN Successor(r) /\ Put(r)
<1> DEFINE r == SSHRecord(h, NextRevisions(h).rev, NextRevisions(h).connRev,
                          name, endpoint, login, key)
<1>1. /\ marks[h].rev \in Nat /\ marks[h].connRev \in Nat
      /\ marks[h].connRev <= marks[h].rev /\ marks[h].rev < MaxRevision
  BY DEF IInv, TypeOK, RevisionInv, MarksOrdered, CreateSSH
<1>2. r.id = h /\ r.rev = marks[h].rev + 1 /\ r.connRev = marks[h].connRev + 1
  BY DEF SSHRecord, NextRevisions
<1>3. r \in Record
  BY <1>1, RegistryAssumption DEF SSHRecord, NextRevisions, Record, Revisions
<1>4. Successor(r)
  BY <1>1, <1>2, <1>3 DEF Successor
<1> QED
  BY <1>4 DEF CreateSSH

LEMMA PresentFacts ==
  ASSUME IInv, NEW h \in Hosts, Present(h)
  PROVE  /\ hosts[h] \in Record /\ hosts[h].id = h
         /\ hosts[h].rev = marks[h].rev /\ hosts[h].connRev = marks[h].connRev
         /\ marks[h].rev \in Nat /\ marks[h].connRev \in Nat
         /\ marks[h].connRev <= marks[h].rev /\ marks[h].connRev >= 1
<1>1. hosts[h] \in Record
  BY DEF IInv, TypeOK, Present
<1>2. hosts[h].connRev \in Revisions
  BY <1>1 DEF Record
<1> QED
  BY <1>1, <1>2, RegistryAssumption
  DEF IInv, TypeOK, RevisionInv, HostAtMark, MarksOrdered, Revisions

LEMMA UpdateLocalSuccessor ==
  ASSUME IInv, NEW h \in Hosts, NEW name \in Names, NEW expected \in Revisions,
         UpdateLocal(h, name, expected)
  PROVE  LET r == LocalRecord(h, hosts[h].rev + 1, hosts[h].connRev, name)
         IN Successor(r) /\ Put(r)
<1> DEFINE r == LocalRecord(h, hosts[h].rev + 1, hosts[h].connRev, name)
<1>1. Present(h) /\ hosts[h].rev < MaxRevision /\ hosts[h].type = "local" /\ Put(r)
  BY DEF UpdateLocal
<1>2. r \in Record
  BY <1>1, PresentFacts, RegistryAssumption DEF LocalRecord, Record, Revisions
<1>3. hosts[h] \in issued
  BY <1>1 DEF IInv, RevisionInv, HostAtMark
<1>4. Connection(r) = Connection(hosts[h])
  BY <1>1 DEF IInv, LocalsBare, Connection, LocalRecord, Present
<1>5. r.id = h /\ r.rev = hosts[h].rev + 1 /\ r.connRev = hosts[h].connRev
  BY DEF LocalRecord
<1> QED
  BY <1>1, <1>2, <1>4, <1>5, PresentFacts DEF Successor

LEMMA UpdateSSHSuccessor ==
  ASSUME IInv, NEW h \in Hosts, NEW name \in Names,
         NEW endpoint \in Endpoints \union {Keep}, NEW login \in Logins \union {Keep},
         NEW key \in Keys \union {Keep}, NEW expected \in Revisions,
         UpdateSSH(h, name, endpoint, login, key, expected)
  PROVE  LET r == UpdatedSSH(hosts[h], name, endpoint, login, key)
         IN Successor(r) /\ Put(r)
<1> DEFINE old == hosts[h]
           newEndpoint == IF endpoint = Keep THEN old.endpoint ELSE endpoint
           newKey == UpdatedKey(old, newEndpoint, key)
           newLogin == IF login = Keep THEN old.login ELSE login
           changed == newEndpoint # old.endpoint \/ login # Keep \/ newKey # old.key
           connRev == IF changed THEN old.rev + 1 ELSE old.connRev
           r == UpdatedSSH(hosts[h], name, endpoint, login, key)
<1>1. Present(h) /\ old.rev < MaxRevision /\ old.type = "ssh" /\ Put(r)
  BY DEF UpdateSSH
<1>2. /\ old \in Record /\ old.id = h /\ old.rev = marks[h].rev
      /\ old.connRev = marks[h].connRev /\ marks[h].connRev <= marks[h].rev
      /\ marks[h].rev \in Nat /\ marks[h].connRev \in Nat /\ marks[h].connRev >= 1
  BY <1>1, PresentFacts
<1>3. r = SSHRecord(old.id, old.rev + 1, connRev, name, newEndpoint, newLogin, newKey)
  BY DEF UpdatedSSH
<1>4. /\ newEndpoint \in Endpoints \union {Keep}
      /\ newLogin \in Logins \union {Keep}
      /\ newKey \in Keys \union {Keep}
  BY <1>2 DEF UpdatedKey, Record
<1>5. connRev \in Revisions /\ old.rev + 1 \in Revisions /\ connRev <= old.rev + 1
  BY <1>1, <1>2, RegistryAssumption DEF Revisions
<1>6. r \in Record
  BY <1>2, <1>3, <1>4, <1>5 DEF SSHRecord, Record
<1>7. /\ r.id = h /\ r.rev = old.rev + 1 /\ r.connRev = connRev
      /\ Connection(r) = <<"ssh", newEndpoint, newLogin, newKey>>
  BY <1>2, <1>3 DEF SSHRecord, Connection
<1>8. CASE changed
  BY <1>1, <1>2, <1>5, <1>6, <1>7, <1>8 DEF Successor
<1>9. CASE ~changed
  <2>1. Connection(r) = Connection(old) /\ r.connRev = old.connRev
    BY <1>1, <1>7, <1>9 DEF Connection
  <2> QED
    BY <1>1, <1>2, <1>5, <1>6, <1>7, <2>1 DEF Successor
<1> QED
  BY <1>1, <1>8, <1>9

-----------------------------------------------------------------------------
(* Each operation preserves the inductive invariant. *)

LEMMA CreateLocalInv ==
  ASSUME IInv, NEW h \in Hosts, NEW name \in Names, CreateLocal(h, name)
  PROVE  IInv'
<1> DEFINE r == LocalRecord(h, NextRevisions(h).rev, NextRevisions(h).connRev, name)
<1>1. Successor(r) /\ Put(r)
  BY CreateLocalSuccessor
<1>2. TypeOK' /\ RevisionInv' /\ SettingsInv'
  BY <1>1, PutRevisions
<1>3. /\ r.id = h /\ r.type = "local" /\ r.endpoint = Keep /\ r.login = Keep
      /\ r.key = Keep
  BY DEF LocalRecord
<1>4. hosts' = [hosts EXCEPT ![h] = r]
  BY <1>1, <1>3 DEF Put
<1>5. hosts \in [Hosts -> Record \union {Absent}]
  BY DEF IInv, TypeOK
<1>6. SingleLocal'
  BY <1>4, <1>5 DEF SingleLocal, Present, CreateLocal
<1>7. LocalsBare'
  BY <1>3, <1>4, <1>5 DEF IInv, LocalsBare, Present
<1> QED
  BY <1>2, <1>6, <1>7 DEF IInv

LEMMA CreateSSHInv ==
  ASSUME IInv, NEW h \in Hosts, NEW name \in Names, NEW endpoint \in Endpoints,
         NEW login \in Logins, NEW key \in Keys \union {Keep},
         CreateSSH(h, name, endpoint, login, key)
  PROVE  IInv'
<1> DEFINE r == SSHRecord(h, NextRevisions(h).rev, NextRevisions(h).connRev,
                          name, endpoint, login, key)
<1>1. Successor(r) /\ Put(r)
  BY CreateSSHSuccessor
<1>2. TypeOK' /\ RevisionInv' /\ SettingsInv'
  BY <1>1, PutRevisions
<1>3. r.id = h /\ r.type = "ssh"
  BY DEF SSHRecord
<1>4. hosts' = [hosts EXCEPT ![h] = r]
  BY <1>1, <1>3 DEF Put
<1>5. hosts \in [Hosts -> Record \union {Absent}]
  BY DEF IInv, TypeOK
<1>6. SingleLocal'
  BY <1>3, <1>4, <1>5 DEF IInv, SingleLocal, Present
<1>7. LocalsBare'
  BY <1>3, <1>4, <1>5 DEF IInv, LocalsBare, Present
<1> QED
  BY <1>2, <1>6, <1>7 DEF IInv

LEMMA UpdateLocalInv ==
  ASSUME IInv, NEW h \in Hosts, NEW name \in Names, NEW expected \in Revisions,
         UpdateLocal(h, name, expected)
  PROVE  IInv'
<1> DEFINE r == LocalRecord(h, hosts[h].rev + 1, hosts[h].connRev, name)
<1>1. Successor(r) /\ Put(r)
  BY UpdateLocalSuccessor
<1>2. TypeOK' /\ RevisionInv' /\ SettingsInv'
  BY <1>1, PutRevisions
<1>3. /\ r.id = h /\ r.type = "local" /\ r.endpoint = Keep /\ r.login = Keep
      /\ r.key = Keep
  BY DEF LocalRecord
<1>4. hosts' = [hosts EXCEPT ![h] = r]
  BY <1>1, <1>3 DEF Put
<1>5. hosts \in [Hosts -> Record \union {Absent}]
  BY DEF IInv, TypeOK
<1>6. SingleLocal'
  BY <1>4, <1>5 DEF IInv, SingleLocal, Present, UpdateLocal
<1>7. LocalsBare'
  BY <1>3, <1>4, <1>5 DEF IInv, LocalsBare, Present
<1> QED
  BY <1>2, <1>6, <1>7 DEF IInv

LEMMA UpdateSSHInv ==
  ASSUME IInv, NEW h \in Hosts, NEW name \in Names,
         NEW endpoint \in Endpoints \union {Keep}, NEW login \in Logins \union {Keep},
         NEW key \in Keys \union {Keep}, NEW expected \in Revisions,
         UpdateSSH(h, name, endpoint, login, key, expected)
  PROVE  IInv'
<1> DEFINE r == UpdatedSSH(hosts[h], name, endpoint, login, key)
<1>1. Successor(r) /\ Put(r)
  BY UpdateSSHSuccessor
<1>2. TypeOK' /\ RevisionInv' /\ SettingsInv'
  BY <1>1, PutRevisions
<1>3. r.id = h /\ r.type = "ssh"
  BY PresentFacts DEF UpdatedSSH, SSHRecord, UpdateSSH
<1>4. hosts' = [hosts EXCEPT ![h] = r]
  BY <1>1, <1>3 DEF Put
<1>5. hosts \in [Hosts -> Record \union {Absent}]
  BY DEF IInv, TypeOK
<1>6. SingleLocal'
  BY <1>3, <1>4, <1>5 DEF IInv, SingleLocal, Present
<1>7. LocalsBare'
  BY <1>3, <1>4, <1>5 DEF IInv, LocalsBare, Present
<1> QED
  BY <1>2, <1>6, <1>7 DEF IInv

LEMMA DeleteInv ==
  ASSUME IInv, NEW h \in Hosts, NEW expected, Delete(h, expected)
  PROVE  IInv'
<1>1. /\ Present(h) /\ hosts' = [hosts EXCEPT ![h] = Absent]
      /\ hosts \in [Hosts -> Record \union {Absent}]
      /\ issued' = issued
  BY DEF IInv, TypeOK, Delete
<1>2. marks' = marks
  <2>1. /\ MaxOf(marks[h].rev, hosts[h].rev) = marks[h].rev
        /\ MaxOf(marks[h].connRev, hosts[h].connRev) = marks[h].connRev
    BY <1>1, PresentFacts DEF MaxOf
  <2>2. marks \in [Hosts -> [rev: 0..MaxRevision, connRev: 0..MaxRevision]]
    BY DEF IInv, TypeOK
  <2>3. marks[h] = [rev |-> marks[h].rev, connRev |-> marks[h].connRev]
    BY <2>2
  <2> QED
    BY <2>1, <2>2, <2>3 DEF Delete
<1>3. settings \in [default: Hosts \union {Absent}, rev: Nat \ {0}]
  BY DEF IInv, TypeOK
<1>4. TypeOK'
  BY <1>1, <1>2, <1>3 DEF IInv, TypeOK, Delete
<1>5. RevisionInv'
  <2>1. HostAtMark'
    BY <1>1, <1>2 DEF IInv, RevisionInv, HostAtMark, Present
  <2> QED
    BY <1>1, <1>2, <2>1
    DEF IInv, RevisionInv, MarksOrdered, MarksCoverIssued,
        RevisionNamesContent, ConnectionRevisionNamesConnection
<1>6. SettingsInv'
  <2>1. CASE settings.default = h
    BY <1>1, <1>3, <2>1
    DEF IInv, SettingsInv, SettingsLatest, SettingsRevisionNamesDefault,
        DefaultRegistered, Delete
  <2>2. CASE settings.default # h
    BY <1>1, <1>3, <2>2
    DEF IInv, TypeOK, SettingsInv, SettingsLatest, SettingsRevisionNamesDefault,
        DefaultRegistered, Present, Delete
  <2> QED
    BY <2>1, <2>2
<1>7. SingleLocal' /\ LocalsBare'
  BY <1>1 DEF IInv, SingleLocal, LocalsBare, Present
<1> QED
  BY <1>4, <1>5, <1>6, <1>7 DEF IInv

LEMMA UpdateDefaultInv ==
  ASSUME IInv, NEW h \in Hosts \union {Absent}, NEW expected,
         UpdateDefaultHost(h, expected)
  PROVE  IInv'
<1>1. /\ UNCHANGED <<hosts, marks, issued>>
      /\ settings' = [default |-> h, rev |-> settings.rev + 1]
      /\ issuedSettings' = issuedSettings \union {settings'}
      /\ h # Absent => Present(h)
      /\ settings \in [default: Hosts \union {Absent}, rev: Nat \ {0}]
  BY DEF IInv, TypeOK, UpdateDefaultHost
<1>2. TypeOK'
  BY <1>1 DEF IInv, TypeOK
<1>3. SettingsInv'
  BY <1>1 DEF IInv, SettingsInv, SettingsLatest, SettingsRevisionNamesDefault,
              DefaultRegistered, Present
<1>4. RevisionInv' /\ SingleLocal' /\ LocalsBare'
  BY <1>1 DEF IInv, RevisionInv, MarksOrdered, MarksCoverIssued, HostAtMark,
      RevisionNamesContent, ConnectionRevisionNamesConnection, SingleLocal,
      LocalsBare, Present
<1> QED
  BY <1>2, <1>3, <1>4 DEF IInv

LEMMA NextInv == IInv /\ [Next]_vars => IInv'
<1> SUFFICES ASSUME IInv, [Next]_vars PROVE IInv'
  OBVIOUS
<1>1. CASE UNCHANGED vars
  BY <1>1 DEF vars, IInv, TypeOK, RevisionInv, MarksOrdered, MarksCoverIssued,
      HostAtMark, RevisionNamesContent, ConnectionRevisionNamesConnection,
      SettingsInv, SettingsLatest, SettingsRevisionNamesDefault,
      DefaultRegistered, SingleLocal, LocalsBare, Present
<1>2. CASE Next
  BY <1>2, CreateLocalInv, CreateSSHInv, UpdateLocalInv, UpdateSSHInv,
     DeleteInv, UpdateDefaultInv DEF Next
<1> QED
  BY <1>1, <1>2

(* The tables stay well-formed, and the invariant behind all of the results  *)
(* below holds in every state of Registry's operations.                      *)
THEOREM RegistryInvariant == Spec => []IInv
<1> QED
  BY InitInv, NextInv, PTL DEF Spec

(* A revision names one content for ever (Registry.saveUpdate). *)
THEOREM RevisionsNameContent == Spec => []RevisionNamesContent
<1>1. IInv => RevisionNamesContent
  BY DEF IInv, RevisionInv
<1> QED
  BY <1>1, RegistryInvariant, PTL

(* A connection revision names one way of reaching a host, across edits,     *)
(* removals and new registrations of the identifier (Store.NextRevisions).   *)
THEOREM ConnectionRevisionsNameConnection == Spec => []ConnectionRevisionNamesConnection
<1>1. IInv => ConnectionRevisionNamesConnection
  BY DEF IInv, RevisionInv
<1> QED
  BY <1>1, RegistryInvariant, PTL

(* A settings revision names one default host, the default host is           *)
(* registered, and there is at most one local connection.                    *)
THEOREM DefaultHostStaysSafe == Spec => [](DefaultHostSafe /\ SingleLocal)
<1>1. IInv => DefaultHostSafe /\ SingleLocal
  BY DEF IInv, SettingsInv, DefaultHostSafe
<1> QED
  BY <1>1, RegistryInvariant, PTL
(* Every table and counter of the registry stays well-formed.                *)
THEOREM RegistryTypes == Spec => []TypeOK
<1>1. IInv => TypeOK
  BY DEF IInv
<1> QED
  BY <1>1, RegistryInvariant, PTL

-----------------------------------------------------------------------------
(* The registry implements HostIdentity: a written record either issues a    *)
(* fresh connection revision or changes nothing HostIdentity can see.        *)
Current == [h \in Hosts |-> IF Present(h) THEN hosts[h].connRev ELSE 0]
Used    == [h \in Hosts |-> marks[h].connRev]

LEMMA PutSimulates ==
  ASSUME IInv, NEW r, Successor(r), Put(r)
  PROVE  \/ \E h \in Hosts: Identity!Issue(h)
         \/ UNCHANGED <<Current, Used>>
<1> DEFINE h == r.id
<1>1. /\ r \in Record /\ h \in Hosts /\ r # Absent
      /\ r.connRev \in Nat /\ r.connRev >= 1 /\ r.connRev <= MaxRevision
  BY RegistryAssumption, AbsentAssumption DEF Successor, Record, Revisions
<1>2. /\ marks \in [Hosts -> [rev: 0..MaxRevision, connRev: 0..MaxRevision]]
      /\ hosts \in [Hosts -> Record \union {Absent}]
      /\ marks[h].connRev \in Nat
  BY <1>1 DEF IInv, TypeOK
<1>3. r.connRev >= marks[h].connRev
  BY <1>1, <1>2, PresentFacts DEF Successor
<1>4. /\ hosts' = [hosts EXCEPT ![h] = r]
      /\ marks'[h].connRev = r.connRev
      /\ \A g \in Hosts: g # h => marks'[g] = marks[g]
  BY <1>1, <1>2, <1>3 DEF Put, MaxOf
<1>5. /\ Current' = [Current EXCEPT ![h] = r.connRev]
      /\ Used' = [Used EXCEPT ![h] = r.connRev]
  BY <1>1, <1>2, <1>4 DEF Current, Used, Present
<1>6. CASE r.connRev > marks[h].connRev
  <2>1. r.connRev \in (Used[h] + 1)..MaxRevision
    BY <1>1, <1>2, <1>6, RegistryAssumption DEF Used
  <2>2. Identity!Issue(h)
    BY <1>5, <2>1 DEF Identity!Issue, Current, Used
  <2> QED
    BY <1>1, <2>2
<1>7. CASE Present(h) /\ r.connRev = hosts[h].connRev
  <2>1. Current[h] = r.connRev /\ Used[h] = r.connRev
    BY <1>1, <1>7, PresentFacts DEF Current, Used
  <2> QED
    BY <1>1, <1>5, <2>1 DEF Current, Used
<1> QED
  BY <1>6, <1>7 DEF Successor

LEMMA DeleteSimulates ==
  ASSUME IInv, NEW h \in Hosts, NEW expected, Delete(h, expected)
  PROVE  Identity!Retire(h)
<1>1. /\ Present(h) /\ hosts' = [hosts EXCEPT ![h] = Absent]
      /\ hosts \in [Hosts -> Record \union {Absent}]
      /\ marks \in [Hosts -> [rev: 0..MaxRevision, connRev: 0..MaxRevision]]
  BY DEF IInv, TypeOK, Delete
<1>2. MaxOf(marks[h].connRev, hosts[h].connRev) = marks[h].connRev
  BY <1>1, PresentFacts DEF MaxOf
<1>3. \A g \in Hosts: marks'[g].connRev = marks[g].connRev
  BY <1>1, <1>2 DEF Delete
<1>4. Used' = Used
  BY <1>3 DEF Used
<1>5. Current' = [Current EXCEPT ![h] = 0]
  BY <1>1 DEF Current, Present
<1>6. Current[h] # 0
  BY <1>1, PresentFacts DEF Current
<1> QED
  BY <1>4, <1>5, <1>6 DEF Identity!Retire, Current, Used

LEMMA InitSimulates == Init => Identity!Init
<1> SUFFICES ASSUME Init PROVE Identity!Init
  OBVIOUS
<1>1. PICK name \in Names:
        LET r == LocalRecord(Local, 1, 1, name)
        IN /\ hosts = [h \in Hosts |-> IF h = Local THEN r ELSE Absent]
           /\ marks = [h \in Hosts |-> IF h = Local THEN [rev |-> 1, connRev |-> 1]
                                                    ELSE [rev |-> 0, connRev |-> 0]]
  BY DEF Init
<1>2. LocalRecord(Local, 1, 1, name) # Absent
  BY RegistryAssumption, AbsentAssumption DEF LocalRecord, Record, Revisions
<1>3. LocalRecord(Local, 1, 1, name).connRev = 1
  BY DEF LocalRecord
<1>4. \A h \in Hosts: Current[h] = Used[h] /\ Current[h] \in {0, 1}
  BY <1>1, <1>2, <1>3 DEF Current, Used, Present
<1> QED
  BY <1>4 DEF Identity!Init, Current, Used

LEMMA NextSimulates ==
  IInv /\ [Next]_vars => [Identity!Next]_<<Current, Used>>
<1> SUFFICES ASSUME IInv, [Next]_vars
             PROVE  Identity!Next \/ UNCHANGED <<Current, Used>>
  OBVIOUS
<1>1. CASE UNCHANGED vars
  BY <1>1 DEF vars, Current, Used, Present
<1>2. ASSUME NEW h \in Hosts, NEW name \in Names, CreateLocal(h, name)
      PROVE  Identity!Next \/ UNCHANGED <<Current, Used>>
  BY <1>2, CreateLocalSuccessor, PutSimulates DEF Identity!Next
<1>3. ASSUME NEW h \in Hosts, NEW name \in Names, NEW endpoint \in Endpoints,
             NEW login \in Logins, NEW key \in Keys \union {Keep},
             CreateSSH(h, name, endpoint, login, key)
      PROVE  Identity!Next \/ UNCHANGED <<Current, Used>>
  BY <1>3, CreateSSHSuccessor, PutSimulates DEF Identity!Next
<1>4. ASSUME NEW h \in Hosts, NEW name \in Names, NEW expected \in Revisions,
             UpdateLocal(h, name, expected)
      PROVE  Identity!Next \/ UNCHANGED <<Current, Used>>
  BY <1>4, UpdateLocalSuccessor, PutSimulates DEF Identity!Next
<1>5. ASSUME NEW h \in Hosts, NEW name \in Names,
             NEW endpoint \in Endpoints \union {Keep},
             NEW login \in Logins \union {Keep}, NEW key \in Keys \union {Keep},
             NEW expected \in Revisions,
             UpdateSSH(h, name, endpoint, login, key, expected)
      PROVE  Identity!Next \/ UNCHANGED <<Current, Used>>
  BY <1>5, UpdateSSHSuccessor, PutSimulates DEF Identity!Next
<1>6. ASSUME NEW h \in Hosts, NEW expected, Delete(h, expected)
      PROVE  Identity!Next \/ UNCHANGED <<Current, Used>>
  BY <1>6, DeleteSimulates DEF Identity!Next
<1>7. ASSUME NEW h \in Hosts \union {Absent}, NEW expected,
             UpdateDefaultHost(h, expected)
      PROVE  UNCHANGED <<Current, Used>>
  BY <1>7 DEF UpdateDefaultHost, Current, Used, Present
<1> QED
  BY <1>1, <1>2, <1>3, <1>4, <1>5, <1>6, <1>7 DEF Next

(* Whatever the rest of the hub concludes from HostIdentity holds of the     *)
(* identifiers and connection revisions the registry gives it.               *)
THEOREM RegistryImplementsIdentity == Spec => ImplementsIdentity
<1>1. [Identity!Next]_<<Current, Used>> => [Identity!Next]_Identity!identityVars
  BY DEF Identity!identityVars, Current, Used
<1> QED
  BY <1>1, InitSimulates, NextSimulates, RegistryInvariant, PTL
  DEF Spec, ImplementsIdentity, Identity!Spec

-----------------------------------------------------------------------------
(* The calls of the API: probes, confirmations, edits and removals.           *)

(* Challenges are numbered as they are made; those of a host that does not   *)
(* exist yet name an endpoint.                                               *)
ChallengesNumbered ==
  /\ IsFiniteSet(made)
  /\ \A ch \in made: ch.token <= Cardinality(made)
  /\ \A ch, ch2 \in made: ch.token = ch2.token => ch = ch2
  /\ \A ch \in made: ch.host = Draft => ch.endpoint \in Endpoints

(* What a call holds: a record it read, a challenge it redeemed. *)
HasRead(c) == calls[c].at \in {"probing", "updating", "confirming", "pinning"}
HasRedeemed(c) == calls[c].at \in {"creating", "pinning"}

CallsHold ==
  \A c \in Calls:
    /\ HasRead(c) => calls[c].old \in issued
    /\ HasRedeemed(c) => calls[c].by \in made \ challenges
    /\ calls[c].at = "creating" => calls[c].by.host = Draft
    /\ calls[c].at = "pinning" =>
         Matches(calls[c].by, calls[c].old.id, calls[c].old.rev, calls[c].old.endpoint)

(* A redeemed challenge is held once: no two calls hold it, and one that was *)
(* confirmed is held by nobody and not in the store.                         *)
HeldOnce ==
  /\ \A c, d \in Calls:
       HasRedeemed(c) /\ HasRedeemed(d) /\ calls[c].by = calls[d].by => c = d
  /\ \A pinned \in confirmed:
       /\ pinned[1] \notin challenges
       /\ \A c \in Calls: HasRedeemed(c) => calls[c].by # pinned[1]

TInv ==
  /\ IInv /\ TrustTypeOK /\ ChallengesNumbered /\ CallsHold /\ HeldOnce
  /\ ConfirmationBinds /\ TrustIsDecided

-----------------------------------------------------------------------------
(* What a call holds, by where it is. *)
LEMMA CallFacts ==
  ASSUME TrustTypeOK, NEW c \in Calls
  PROVE  /\ calls[c] = Idle <=> calls[c].at = "idle"
         /\ HasRead(c) => calls[c].old \in Record
         /\ HasRedeemed(c) => calls[c].by \in Challenge
<1>1. calls[c] \in Call
  BY DEF TrustTypeOK
<1>2. Idle.at = "idle"
  BY DEF Idle
<1>3. calls[c].at = "idle" => calls[c] \in [at: {"idle"}]
  BY <1>1 DEF Call
<1>4. \A x \in [at: {"idle"}]: x = [at |-> "idle"]
  OBVIOUS
<1>5. HasRead(c) => calls[c].old \in Record
  BY <1>1 DEF Call, HasRead
<1>6. HasRedeemed(c) => calls[c].by \in Challenge
  BY <1>1 DEF Call, HasRedeemed
<1> QED
  BY <1>2, <1>3, <1>4, <1>5, <1>6 DEF Idle


-----------------------------------------------------------------------------
(* Every step of a call is a step of the registry or leaves it alone. *)

(* What the call that creates a host saves, from the challenge it holds.     *)
LEMMA CreationFacts ==
  ASSUME TInv, NEW c \in Calls, NEW h \in Hosts, NEW name \in Names, NEW login \in Logins,
         CreateConfirmed(c, h, name, login)
  PROVE  /\ calls[c].by.endpoint \in Endpoints /\ calls[c].by.key \in Keys
         /\ CreateSSH(h, name, calls[c].by.endpoint, login, calls[c].by.key)
<1>1. calls[c].at = "creating" /\ CreateSSH(h, name, calls[c].by.endpoint, login, calls[c].by.key)
  BY DEF CreateConfirmed
<1>2. HasRedeemed(c) /\ calls[c].by \in made /\ calls[c].by.host = Draft
  BY <1>1 DEF TInv, CallsHold, HasRedeemed
<1>3. calls[c].by.endpoint \in Endpoints
  BY <1>2 DEF TInv, ChallengesNumbered
<1>4. calls[c].by.key \in Shown
  BY <1>2 DEF TInv, TrustTypeOK, Challenge
<1> QED
  BY <1>1, <1>3, <1>4, TrustAssumption

(* What confirmHostTrust saves: what it read, at the revision it read, which *)
(* is still what is registered.                                              *)
LEMMA PinFacts ==
  ASSUME TInv, NEW c \in Calls, PinKey(c)
  PROVE  LET old == calls[c].old
             ch == calls[c].by
         IN /\ old \in issued /\ old \in Record /\ old = hosts[old.id]
            /\ ch \in made \ challenges /\ ch \in Challenge /\ ch.key \in Keys
            /\ Matches(ch, old.id, old.rev, old.endpoint)
            /\ UpdateSSH(old.id, old.name, old.endpoint, Keep, ch.key, old.rev)
<1> DEFINE old == calls[c].old
           ch == calls[c].by
<1>1. /\ calls[c].at = "pinning"
      /\ UpdateSSH(old.id, old.name, old.endpoint, Keep, ch.key, old.rev)
  BY DEF PinKey
<1>2. /\ old \in issued /\ old \in Record /\ ch \in made \ challenges
      /\ Matches(ch, old.id, old.rev, old.endpoint)
  BY <1>1, CallFacts DEF TInv, CallsHold, HasRead, HasRedeemed
<1>3. ch \in Challenge /\ ch.key \in Keys
  BY <1>2, TrustAssumption DEF TInv, TrustTypeOK, Challenge
<1>4. /\ Present(old.id) /\ hosts[old.id].rev = old.rev /\ old.id \in Hosts
  BY <1>1, <1>2 DEF UpdateSSH, Record
<1>5. hosts[old.id] \in issued /\ hosts[old.id].id = old.id
  BY <1>4 DEF TInv, IInv, RevisionInv, HostAtMark
<1>6. old = hosts[old.id]
  BY <1>2, <1>4, <1>5 DEF TInv, IInv, RevisionInv, RevisionNamesContent
<1> QED
  BY <1>1, <1>2, <1>3, <1>6

LEMMA TrustStepsRegistry ==
  ASSUME TInv, TrustNext
  PROVE  Next \/ UNCHANGED vars
<1>1. ASSUME NEW h \in Hosts, NEW name \in Names, CreateHost(h, name) PROVE Next
  BY <1>1, TrustAssumption DEF CreateHost, Next
<1>2. ASSUME NEW h \in Hosts \union {Absent}, NEW expected \in 1..MaxSettings,
             UpdateHostSettings(h, expected)
      PROVE  Next
  BY <1>2 DEF UpdateHostSettings, Next
<1>3. ASSUME NEW c \in Calls, NEW h \in Hosts, NEW name \in Names, NEW login \in Logins,
             CreateConfirmed(c, h, name, login)
      PROVE  Next
  BY <1>3, CreationFacts DEF Next
<1>4. ASSUME NEW c \in Calls, NEW name \in Names, NEW expected \in Revisions,
             UpdateHost(c, name, expected)
      PROVE  Next
  <2>1. calls[c].old.id \in Hosts
    BY <1>4, CallFacts DEF UpdateHost, HasRead, TInv, Record
  <2> QED
    BY <1>4, <2>1, TrustAssumption DEF UpdateHost, Next
<1>5. ASSUME NEW c \in Calls, PinKey(c) PROVE Next
  <2> DEFINE old == calls[c].old
  <2>1. /\ old.id \in Hosts /\ old.name \in Names /\ old.endpoint \in Endpoints \union {Keep}
        /\ old.rev \in Revisions /\ calls[c].by.key \in Keys \union {Keep}
        /\ UpdateSSH(old.id, old.name, old.endpoint, Keep, calls[c].by.key, old.rev)
    BY <1>5, PinFacts DEF Record
  <2> QED
    BY <2>1 DEF Next
<1>6. ASSUME NEW c \in Calls, NEW h \in Hosts, NEW expected \in Revisions \union {0},
             DeleteHost(c, h, expected)
      PROVE  Next
  BY <1>6 DEF DeleteHost, Next
<1> QED
  BY <1>1, <1>2, <1>3, <1>4, <1>5, <1>6
  DEF TrustNext, ProbeDraft, Expire, ReadHost, ProbeHost, RedeemForDraft, RedeemForHost,
      Return, Restart

LEMMA HistoryGrows ==
  ASSUME Next \/ UNCHANGED vars
  PROVE  issued \subseteq issued'
<1>1. ASSUME NEW r, Put(r) PROVE issued \subseteq issued'
  BY <1>1 DEF Put
<1>2. ASSUME NEW h, NEW expected, Delete(h, expected) \/ UpdateDefaultHost(h, expected)
      PROVE  issued \subseteq issued'
  BY <1>2 DEF Delete, UpdateDefaultHost
<1> QED
  BY <1>1, <1>2 DEF Next, vars, CreateLocal, CreateSSH, UpdateLocal, UpdateSSH

-----------------------------------------------------------------------------
(* Who holds a challenge. *)

(* A new challenge has a number of its own. *)
LEMMA ChallengeMade ==
  ASSUME TInv, NEW h \in Hosts \union {Draft}, NEW rev \in 0..MaxRevision,
         NEW endpoint \in Endpoints \union {Keep}, NEW key \in Shown,
         h = Draft => endpoint \in Endpoints,
         CreateChallenge(h, rev, endpoint, key)
  PROVE  /\ ChallengesNumbered' /\ challenges' \subseteq made' /\ made' \subseteq Challenge
         /\ made \subseteq made'
         /\ \A ch \in made: ch \in challenges' => ch \in challenges
<1> DEFINE n == Cardinality(made) + 1
           new == [token |-> n, host |-> h, rev |-> rev, endpoint |-> endpoint, key |-> key]
<1>1. /\ IsFiniteSet(made) /\ Cardinality(made) \in Nat
      /\ \A ch \in made: ch.token <= Cardinality(made)
      /\ \A ch, ch2 \in made: ch.token = ch2.token => ch = ch2
      /\ \A ch \in made: ch.host = Draft => ch.endpoint \in Endpoints
  BY FS_CardinalityType DEF TInv, ChallengesNumbered
<1>2. n <= MaxChallenges /\ challenges' = challenges \union {new} /\ made' = made \union {new}
  BY DEF CreateChallenge
<1>3. /\ challenges \subseteq made /\ made \subseteq Challenge
      /\ \A ch \in made: ch.token \in Nat
  BY TrustAssumption DEF TInv, TrustTypeOK, Challenge
<1>4. new \notin made
  BY <1>1, <1>3
<1>5. IsFiniteSet(made') /\ Cardinality(made') = n
  BY <1>1, <1>2, <1>4, FS_AddElement
<1>6. new \in Challenge /\ new.token = n /\ new.host = h /\ new.endpoint = endpoint
  BY <1>1, <1>2, TrustAssumption DEF Challenge
<1> HIDE DEF new
<1>7. \A ch \in made': ch.token <= n
  BY <1>1, <1>2, <1>3, <1>6
<1>8. \A ch, ch2 \in made': ch.token = ch2.token => ch = ch2
  BY <1>1, <1>2, <1>3, <1>6
<1>9. \A ch \in made': ch.host = Draft => ch.endpoint \in Endpoints
  BY <1>1, <1>2, <1>6
<1>10. ChallengesNumbered'
  BY <1>5, <1>7, <1>8, <1>9 DEF ChallengesNumbered
<1> QED
  BY <1>2, <1>3, <1>4, <1>6, <1>10

(* A step that redeems and confirms nothing: calls keep what they hold or    *)
(* let go of it.                                                             *)
LEMMA HoldKept ==
  ASSUME TInv, made \subseteq made', issued \subseteq issued', confirmed' = confirmed,
         \A ch \in made: ch \in challenges' => ch \in challenges,
         \A c \in Calls:
           \/ calls'[c] = calls[c]
           \/ /\ calls'[c].at \notin {"creating", "pinning"}
              /\ calls'[c].at \in {"probing", "updating", "confirming"} => calls'[c].old \in issued'
  PROVE  CallsHold' /\ HeldOnce'
<1>1. /\ \A c \in Calls: HasRedeemed(c)' => HasRedeemed(c) /\ calls'[c] = calls[c]
      /\ \A c \in Calls: HasRead(c)' => calls'[c].old \in issued'
  BY DEF HasRedeemed, HasRead, TInv, CallsHold
<1>2. \A c \in Calls: HasRedeemed(c) => calls[c].by \in made \ challenges
  BY DEF TInv, CallsHold
<1>3. \A pinned \in confirmed: pinned[1] \in made
  BY DEF TInv, TrustTypeOK
<1>4. CallsHold'
  BY <1>1, <1>2 DEF TInv, CallsHold, HasRedeemed, HasRead, Matches
<1>5. HeldOnce'
  BY <1>1, <1>3 DEF TInv, HeldOnce
<1> QED
  BY <1>4, <1>5

(* A redeemed challenge leaves the store in the hand of one call.            *)
LEMMA HoldRedeemed ==
  ASSUME TInv, NEW c \in Calls, NEW ch \in challenges,
         RedeemForDraft(c, ch) \/ RedeemForHost(c, ch)
  PROVE  CallsHold' /\ HeldOnce'
<1>1. /\ challenges' = challenges \ {ch} /\ UNCHANGED <<vars, made, confirmed>>
      /\ challenges \subseteq made /\ calls \in [Calls -> Call]
  BY DEF TInv, TrustTypeOK, RedeemForDraft, RedeemForHost, Confirm
<1>2. /\ \A d \in Calls \ {c}: calls'[d] = calls[d]
      /\ calls'[c].by = ch
      /\ \/ calls'[c].at = "creating" /\ ch.host = Draft
         \/ /\ calls'[c].at = "pinning" /\ calls'[c].old = calls[c].old /\ HasRead(c)
            /\ Matches(ch, calls[c].old.id, calls[c].old.rev, calls[c].old.endpoint)
  BY <1>1 DEF RedeemForDraft, RedeemForHost, Goto, Confirm, HasRead, Matches
<1>3. /\ \A d \in Calls: HasRedeemed(d) => calls[d].by \in made \ challenges
      /\ \A d \in Calls: HasRead(d) => calls[d].old \in issued
  BY DEF TInv, CallsHold
<1>4. UNCHANGED issued
  BY <1>1 DEF vars
<1>5. \A d \in Calls \ {c}: (HasRedeemed(d)' <=> HasRedeemed(d)) /\ (HasRead(d)' <=> HasRead(d))
  BY <1>2 DEF HasRedeemed, HasRead
<1>6. CallsHold'
  <2> SUFFICES ASSUME NEW d \in Calls
               PROVE  /\ HasRead(d)' => calls'[d].old \in issued
                      /\ HasRedeemed(d)' => calls'[d].by \in made \ challenges'
                      /\ calls'[d].at = "creating" => calls'[d].by.host = Draft
                      /\ calls'[d].at = "pinning" =>
                           Matches(calls'[d].by, calls'[d].old.id, calls'[d].old.rev,
                                   calls'[d].old.endpoint)
    BY <1>1, <1>4 DEF CallsHold, Matches
  <2>1. CASE d = c
    BY <1>1, <1>2, <1>3, <2>1 DEF HasRead
  <2>2. CASE d # c
    BY <1>1, <1>2, <1>3, <1>5, <2>2 DEF TInv, CallsHold
  <2> QED
    BY <2>1, <2>2
<1>7. HeldOnce'
  BY <1>1, <1>2, <1>3, <1>5 DEF TInv, HeldOnce
<1> QED
  BY <1>6, <1>7

(* A call that pins a key gives its challenge to the history.                *)
LEMMA HoldConfirmed ==
  ASSUME TInv, NEW c \in Calls, NEW r, HasRedeemed(c), issued \subseteq issued',
         confirmed' = confirmed \union {<<calls[c].by, r>>},
         UNCHANGED <<challenges, made>>,
         calls'[c].at \in {"idle", "hook"},
         \A d \in Calls \ {c}: calls'[d] = calls[d]
  PROVE  CallsHold' /\ HeldOnce'
<1>1. \A d \in Calls: /\ HasRedeemed(d) => calls[d].by \in made \ challenges
                      /\ HasRead(d) => calls[d].old \in issued
  BY DEF TInv, CallsHold
<1>2. ~HasRedeemed(c)' /\ ~HasRead(c)'
  BY DEF HasRedeemed, HasRead
<1>3. \A d \in Calls \ {c}: (HasRedeemed(d)' <=> HasRedeemed(d)) /\ (HasRead(d)' <=> HasRead(d))
  BY DEF HasRedeemed, HasRead
<1>4. CallsHold'
  <2> SUFFICES ASSUME NEW d \in Calls
               PROVE  /\ HasRead(d)' => calls'[d].old \in issued'
                      /\ HasRedeemed(d)' => calls'[d].by \in made \ challenges
                      /\ calls'[d].at = "creating" => calls'[d].by.host = Draft
                      /\ calls'[d].at = "pinning" =>
                           Matches(calls'[d].by, calls'[d].old.id, calls'[d].old.rev,
                                   calls'[d].old.endpoint)
    BY DEF CallsHold, Matches
  <2>1. CASE d = c
    BY <1>2, <2>1
  <2>2. CASE d # c
    BY <1>1, <1>3, <2>2 DEF TInv, CallsHold
  <2> QED
    BY <2>1, <2>2
<1>5. \A d \in Calls \ {c}: HasRedeemed(d) => calls[d].by # calls[c].by
  BY DEF TInv, HeldOnce
<1>6. HeldOnce'
  BY <1>1, <1>2, <1>3, <1>5 DEF TInv, HeldOnce
<1> QED
  BY <1>4, <1>6

(* A confirmation as the administrator saw it.                               *)
LEMMA ConfirmedBinds ==
  ASSUME TInv, NEW c \in Calls, NEW r, HasRedeemed(c),
         confirmed' = confirmed \union {<<calls[c].by, r>>},
         r.endpoint = calls[c].by.endpoint, r.key = calls[c].by.key,
         calls[c].by.host # Draft => r.id = calls[c].by.host /\ r.rev = calls[c].by.rev + 1
  PROVE  ConfirmationBinds'
<1> DEFINE ch == calls[c].by
<1>1. ch \in made /\ \A pinned \in confirmed: pinned[1] \in made /\ pinned[1] # ch
  BY DEF TInv, CallsHold, HeldOnce, TrustTypeOK
<1>2. \A pinned \in confirmed: pinned[1].token # ch.token
  BY <1>1 DEF TInv, ChallengesNumbered
<1> DEFINE new == <<ch, r>>
<1>3. new[1] = ch /\ new[2] = r
  OBVIOUS
<1>4. confirmed' = confirmed \union {new}
  OBVIOUS
<1> HIDE DEF new
<1> SUFFICES ASSUME NEW pinned \in confirmed'
             PROVE  /\ pinned[2].endpoint = pinned[1].endpoint /\ pinned[2].key = pinned[1].key
                    /\ pinned[1].host # Draft =>
                         pinned[2].id = pinned[1].host /\ pinned[2].rev = pinned[1].rev + 1
                    /\ \A other \in confirmed':
                         other[1].token = pinned[1].token => other[2] = pinned[2]
  BY DEF ConfirmationBinds
<1>5. CASE pinned \in confirmed
  BY <1>2, <1>3, <1>4, <1>5 DEF TInv, ConfirmationBinds
<1>6. CASE pinned = new
  BY <1>2, <1>3, <1>4, <1>6
<1> QED
  BY <1>4, <1>5, <1>6

(* What is saved is what is registered afterwards. *)
LEMMA SavedIsRegistered ==
  ASSUME IInv, NEW r, Successor(r), Put(r)
  PROVE  /\ r \in Record /\ r.id \in Hosts
         /\ hosts' = [hosts EXCEPT ![r.id] = r] /\ hosts'[r.id] = r /\ hosts'[r.id] # Absent
         /\ issued' = issued \union {r}
<1>1. r \in Record /\ r.id \in Hosts /\ r # Absent
  BY AbsentAssumption DEF Successor, Record
<1>2. hosts \in [Hosts -> Record \union {Absent}]
  BY DEF IInv, TypeOK
<1> QED
  BY <1>1, <1>2 DEF Put, Present

-----------------------------------------------------------------------------
(* The calls stay where the handlers can be. *)

LEMMA CallShapes ==
  /\ Idle \in Call /\ Idle.at = "idle"
  /\ \A h \in Hosts, kind \in {"connection", "metadata", "removed"}:
       Hook(h, kind) \in Call /\ Hook(h, kind).at = "hook"
  /\ \A at \in {"probing", "updating", "confirming"}, old \in Record:
       [at |-> at, old |-> old] \in Call
  /\ \A by \in Challenge: [at |-> "creating", by |-> by] \in Call
  /\ \A old \in Record, by \in Challenge: [at |-> "pinning", old |-> old, by |-> by] \in Call
<1> QED
  BY DEF Idle, Hook, Call

LEMMA TrustTypesNext ==
  ASSUME TInv, [TrustNext]_allVars, IInv', issued \subseteq issued'
  PROVE  TrustTypeOK'
<1>1. /\ challenges \subseteq made /\ made \subseteq Challenge
      /\ calls \in [Calls -> Call] /\ confirmed \subseteq made \X issued
  BY DEF TInv, TrustTypeOK
<1>2. ASSUME challenges' \subseteq challenges, UNCHANGED <<made, confirmed>>,
             calls' \in [Calls -> Call]
      PROVE  TrustTypeOK'
  BY <1>1, <1>2 DEF TrustTypeOK
<1>3. ASSUME NEW c \in Calls, NEW h \in Hosts, HasRedeemed(c), hosts'[h] # Absent,
             confirmed' = confirmed \union {<<calls[c].by, hosts'[h]>>},
             UNCHANGED <<challenges, made>>, calls' \in [Calls -> Call]
      PROVE  TrustTypeOK'
  <2>1. calls[c].by \in made
    BY <1>3 DEF TInv, CallsHold
  <2>2. hosts'[h] \in issued'
    BY <1>3 DEF IInv, RevisionInv, HostAtMark, Present
  <2> QED
    BY <1>1, <1>3, <2>1, <2>2 DEF TrustTypeOK
<1>4. CASE UNCHANGED allVars
  BY <1>1, <1>4 DEF allVars, trustVars, vars, TrustTypeOK
<1>5. ASSUME NEW endpoint \in Endpoints, NEW key \in ProbeEndpoint(endpoint),
             ProbeDraft(endpoint, key)
      PROVE  TrustTypeOK'
  <2>1. 0 \in 0..MaxRevision
    BY RegistryAssumption
  <2>2. challenges' \subseteq made' /\ made' \subseteq Challenge /\ made \subseteq made'
    BY <1>5, <2>1, ChallengeMade DEF ProbeDraft, ProbeEndpoint
  <2> QED
    BY <1>1, <1>5, <2>2 DEF ProbeDraft, TrustTypeOK
<1>6. ASSUME NEW c \in Calls, NEW key \in Shown, ProbeHost(c, key) PROVE TrustTypeOK'
  <2> DEFINE old == calls[c].old
  <2>1. old \in Record
    BY <1>6, CallFacts DEF TInv, ProbeHost, HasRead
  <2>2. /\ old.id \in Hosts \union {Draft} /\ old.rev \in 0..MaxRevision
        /\ old.endpoint \in Endpoints \union {Keep} /\ old.id # Draft
    BY <2>1, RegistryAssumption, TrustAssumption DEF Record, Revisions
  <2>3. challenges' \subseteq made' /\ made' \subseteq Challenge /\ made \subseteq made'
    BY <1>6, <2>2, ChallengeMade DEF ProbeHost
  <2> QED
    BY <1>1, <1>6, <2>3, CallShapes DEF ProbeHost, Goto, TrustTypeOK
<1>7. ASSUME NEW c \in Calls, NEW h \in Hosts, NEW at \in {"probing", "updating", "confirming"},
             NEW types, ReadHost(c, at, h, types)
      PROVE  TrustTypeOK'
  <2>1. hosts[h] \in Record
    BY <1>7 DEF ReadHost, Present, TInv, IInv, TypeOK
  <2> QED
    BY <1>1, <1>2, <1>7, <2>1, CallShapes DEF ReadHost, Goto
<1>8. ASSUME NEW c \in Calls, NEW ch \in challenges, RedeemForDraft(c, ch) \/ RedeemForHost(c, ch)
      PROVE  TrustTypeOK'
  <2>1. calls[c].at = "confirming" => calls[c].old \in Record
    BY CallFacts DEF TInv, HasRead
  <2>2. ch \in Challenge
    BY <1>1
  <2>3. calls' \in [Calls -> Call]
    BY <1>1, <1>8, <2>1, <2>2, CallShapes DEF RedeemForDraft, RedeemForHost, Goto
  <2> QED
    BY <1>2, <1>8, <2>3 DEF RedeemForDraft, RedeemForHost, Confirm
<1>9. ASSUME NEW c \in Calls, NEW h \in Hosts, NEW name \in Names, NEW login \in Logins,
             CreateConfirmed(c, h, name, login)
      PROVE  TrustTypeOK'
  <2> DEFINE r == SSHRecord(h, NextRevisions(h).rev, NextRevisions(h).connRev,
                            name, calls[c].by.endpoint, login, calls[c].by.key)
  <2>1. Successor(r) /\ Put(r)
    BY <1>9, CreationFacts, CreateSSHSuccessor DEF TInv
  <2>2. r.id = h
    BY DEF SSHRecord
  <2>3. hosts'[h] # Absent
    BY <2>1, <2>2, SavedIsRegistered DEF TInv
  <2> QED
    BY <1>1, <1>3, <1>9, <2>3, CallShapes DEF CreateConfirmed, Goto, HasRedeemed
<1>10. ASSUME NEW c \in Calls, NEW name \in Names, NEW expected \in Revisions,
              UpdateHost(c, name, expected)
       PROVE  TrustTypeOK'
  <2>1. calls[c].old.id \in Hosts
    BY <1>10, CallFacts DEF UpdateHost, HasRead, TInv, Record
  <2>2. HookKind(calls[c].old, hosts'[calls[c].old.id]) \in {"connection", "metadata"}
    BY DEF HookKind
  <2>3. calls' \in [Calls -> Call]
    BY <1>1, <1>10, <2>1, <2>2, CallShapes DEF UpdateHost, Goto
  <2> QED
    BY <1>2, <1>10, <2>3 DEF UpdateHost
<1>11. ASSUME NEW c \in Calls, PinKey(c) PROVE TrustTypeOK'
  <2> DEFINE old == calls[c].old
             r == UpdatedSSH(hosts[old.id], old.name, old.endpoint, Keep, calls[c].by.key)
  <2>1. /\ old.id \in Hosts /\ old.name \in Names /\ old.endpoint \in Endpoints \union {Keep}
        /\ old.rev \in Revisions /\ calls[c].by.key \in Keys \union {Keep}
        /\ UpdateSSH(old.id, old.name, old.endpoint, Keep, calls[c].by.key, old.rev)
    BY <1>11, PinFacts DEF Record
  <2>2. Successor(r) /\ Put(r)
    BY <2>1, UpdateSSHSuccessor DEF TInv
  <2>3. r.id = old.id
    BY <1>11, PinFacts DEF UpdatedSSH, SSHRecord
  <2>4. hosts'[old.id] # Absent
    BY <2>2, <2>3, SavedIsRegistered DEF TInv
  <2>5. HookKind(calls[c].old, hosts'[calls[c].old.id]) \in {"connection", "metadata"}
    BY DEF HookKind
  <2>6. calls' \in [Calls -> Call]
    BY <1>1, <1>11, <2>1, <2>5, CallShapes DEF PinKey, Goto
  <2>7. /\ HasRedeemed(c) /\ UNCHANGED <<challenges, made>>
        /\ confirmed' = confirmed \union {<<calls[c].by, hosts'[old.id]>>}
    BY <1>11 DEF PinKey, HasRedeemed
  <2> QED
    BY <1>3, <2>1, <2>4, <2>6, <2>7
<1>12. ASSUME NEW c \in Calls, NEW h \in Hosts, NEW expected, DeleteHost(c, h, expected)
       PROVE  TrustTypeOK'
  BY <1>1, <1>2, <1>12, CallShapes DEF DeleteHost, Goto
<1>13. ASSUME NEW c \in Calls, Return(c) PROVE TrustTypeOK'
  BY <1>1, <1>2, <1>13, CallShapes DEF Return, Goto
<1>14. CASE Restart
  BY <1>1, <1>2, <1>14, CallShapes DEF Restart
<1>15. ASSUME NEW ch \in challenges, Expire(ch) PROVE TrustTypeOK'
  BY <1>1, <1>2, <1>15 DEF Expire
<1>16. CASE UNCHANGED trustVars
  BY <1>1, <1>2, <1>16 DEF trustVars
<1> QED
  BY <1>4, <1>5, <1>6, <1>7, <1>8, <1>9, <1>10, <1>11, <1>12, <1>13, <1>14, <1>15, <1>16
  DEF TrustNext, CreateHost, UpdateHostSettings

-----------------------------------------------------------------------------
(* Every step keeps challenges where they belong and confirmations binding.  *)

LEMMA HoldersNext ==
  ASSUME TInv, [TrustNext]_allVars, issued \subseteq issued'
  PROVE  ChallengesNumbered' /\ CallsHold' /\ HeldOnce' /\ ConfirmationBinds'
<1>1. /\ challenges \subseteq made /\ calls \in [Calls -> Call]
      /\ ChallengesNumbered /\ ConfirmationBinds
  BY DEF TInv, TrustTypeOK
<1>2. UNCHANGED made => ChallengesNumbered'
  BY <1>1 DEF ChallengesNumbered
<1>3. UNCHANGED confirmed => ConfirmationBinds'
  BY <1>1 DEF ConfirmationBinds
<1>4. CASE UNCHANGED <<challenges, calls, made, confirmed>>
  BY <1>1, <1>2, <1>3, <1>4, HoldKept DEF TInv, CallsHold, HasRead
<1>5. ASSUME NEW endpoint \in Endpoints, NEW key \in ProbeEndpoint(endpoint),
             ProbeDraft(endpoint, key)
      PROVE  ChallengesNumbered' /\ CallsHold' /\ HeldOnce' /\ ConfirmationBinds'
  <2>1. 0 \in 0..MaxRevision
    BY RegistryAssumption
  <2>2. /\ ChallengesNumbered' /\ made \subseteq made'
        /\ \A ch \in made: ch \in challenges' => ch \in challenges
    BY <1>5, <2>1, ChallengeMade DEF ProbeDraft, ProbeEndpoint
  <2>3. CallsHold' /\ HeldOnce'
    BY <1>5, <2>2, HoldKept DEF ProbeDraft
  <2> QED
    BY <1>3, <1>5, <2>2, <2>3 DEF ProbeDraft
<1>6. ASSUME NEW c \in Calls, NEW key \in Shown, ProbeHost(c, key)
      PROVE  ChallengesNumbered' /\ CallsHold' /\ HeldOnce' /\ ConfirmationBinds'
  <2> DEFINE old == calls[c].old
  <2>1. old \in Record
    BY <1>6, CallFacts DEF TInv, ProbeHost, HasRead
  <2>2. /\ old.id \in Hosts \union {Draft} /\ old.rev \in 0..MaxRevision
        /\ old.endpoint \in Endpoints \union {Keep} /\ old.id # Draft
    BY <2>1, RegistryAssumption, TrustAssumption DEF Record, Revisions
  <2>3. /\ ChallengesNumbered' /\ made \subseteq made'
        /\ \A ch \in made: ch \in challenges' => ch \in challenges
    BY <1>6, <2>2, ChallengeMade DEF ProbeHost
  <2>4. \A d \in Calls: calls'[d] = calls[d] \/ calls'[d].at = "idle"
    BY <1>1, <1>6, CallShapes DEF ProbeHost, Goto
  <2>5. CallsHold' /\ HeldOnce'
    BY <1>6, <2>3, <2>4, HoldKept DEF ProbeHost
  <2> QED
    BY <1>3, <1>6, <2>3, <2>5 DEF ProbeHost
<1>7. ASSUME challenges' \subseteq challenges, UNCHANGED <<made, confirmed>>,
             \A d \in Calls: \/ calls'[d] = calls[d]
                             \/ calls'[d].at \in {"idle", "hook"}
                             \/ /\ calls'[d].at \in {"probing", "updating", "confirming"}
                                /\ calls'[d].old \in issued'
      PROVE  ChallengesNumbered' /\ CallsHold' /\ HeldOnce' /\ ConfirmationBinds'
  <2>1. \A d \in Calls:
          \/ calls'[d] = calls[d]
          \/ /\ calls'[d].at \notin {"creating", "pinning"}
             /\ calls'[d].at \in {"probing", "updating", "confirming"} => calls'[d].old \in issued'
    BY <1>7
  <2>2. CallsHold' /\ HeldOnce'
    BY <1>7, <2>1, HoldKept
  <2> QED
    BY <1>2, <1>3, <1>7, <2>2
<1>8. ASSUME NEW c \in Calls, NEW h \in Hosts, NEW at \in {"probing", "updating", "confirming"},
             NEW types, ReadHost(c, at, h, types)
      PROVE  ChallengesNumbered' /\ CallsHold' /\ HeldOnce' /\ ConfirmationBinds'
  <2>1. hosts[h] \in issued
    BY <1>8 DEF ReadHost, TInv, IInv, RevisionInv, HostAtMark
  <2>2. /\ calls'[c].at = at /\ calls'[c].old = hosts[h]
        /\ \A d \in Calls \ {c}: calls'[d] = calls[d]
    BY <1>1, <1>8 DEF ReadHost, Goto
  <2> QED
    BY <1>7, <1>8, <2>1, <2>2 DEF ReadHost
<1>9. ASSUME NEW c \in Calls, NEW ch \in challenges, RedeemForDraft(c, ch) \/ RedeemForHost(c, ch)
      PROVE  ChallengesNumbered' /\ CallsHold' /\ HeldOnce' /\ ConfirmationBinds'
  BY <1>2, <1>3, <1>9, HoldRedeemed DEF RedeemForDraft, RedeemForHost
<1>10. ASSUME NEW c \in Calls, NEW h \in Hosts, NEW name \in Names, NEW login \in Logins,
              CreateConfirmed(c, h, name, login)
       PROVE  ChallengesNumbered' /\ CallsHold' /\ HeldOnce' /\ ConfirmationBinds'
  <2> DEFINE ch == calls[c].by
             r == SSHRecord(h, NextRevisions(h).rev, NextRevisions(h).connRev,
                            name, ch.endpoint, login, ch.key)
  <2>1. Successor(r) /\ Put(r) /\ r.id = h /\ r.endpoint = ch.endpoint /\ r.key = ch.key
    BY <1>10, CreationFacts, CreateSSHSuccessor DEF TInv, SSHRecord
  <2>2. hosts'[h] = r
    BY <2>1, SavedIsRegistered DEF TInv
  <2>3. /\ HasRedeemed(c) /\ UNCHANGED <<challenges, made>>
        /\ confirmed' = confirmed \union {<<ch, hosts'[h]>>}
        /\ ch.host = Draft
    BY <1>10 DEF CreateConfirmed, HasRedeemed, TInv, CallsHold
  <2>4. calls'[c].at = "idle" /\ \A d \in Calls \ {c}: calls'[d] = calls[d]
    BY <1>1, <1>10, CallShapes DEF CreateConfirmed, Goto
  <2> HIDE DEF r
  <2>5. CallsHold' /\ HeldOnce'
    BY <2>3, <2>4, HoldConfirmed
  <2>6. ConfirmationBinds'
    BY <2>1, <2>2, <2>3, ConfirmedBinds
  <2> QED
    BY <1>2, <2>3, <2>5, <2>6
<1>11. ASSUME NEW c \in Calls, PinKey(c)
       PROVE  ChallengesNumbered' /\ CallsHold' /\ HeldOnce' /\ ConfirmationBinds'
  <2> DEFINE old == calls[c].old
             ch == calls[c].by
             r == UpdatedSSH(hosts[old.id], old.name, old.endpoint, Keep, ch.key)
  <2>1. /\ old \in Record /\ old = hosts[old.id] /\ ch.key \in Keys
        /\ ch.host = old.id /\ ch.rev = old.rev /\ ch.endpoint = old.endpoint
        /\ UpdateSSH(old.id, old.name, old.endpoint, Keep, ch.key, old.rev)
    BY <1>11, PinFacts DEF Matches
  <2>2. Successor(r) /\ Put(r)
    BY <2>1, UpdateSSHSuccessor DEF TInv, Record
  <2>3. /\ r.id = old.id /\ r.rev = old.rev + 1 /\ r.endpoint = old.endpoint /\ r.key = ch.key
    BY <2>1, RegistryAssumption DEF UpdatedSSH, UpdatedKey, SSHRecord
  <2>4. hosts'[old.id] = r
    BY <2>2, <2>3, SavedIsRegistered DEF TInv
  <2>5. /\ HasRedeemed(c) /\ UNCHANGED <<challenges, made>>
        /\ confirmed' = confirmed \union {<<ch, hosts'[old.id]>>}
    BY <1>11 DEF PinKey, HasRedeemed
  <2>6. old.id \in Hosts
    BY <2>1 DEF Record
  <2>7. Hook(old.id, HookKind(old, hosts'[old.id])).at = "hook"
    BY DEF Hook
  <2>8. calls'[c].at = "hook" /\ \A d \in Calls \ {c}: calls'[d] = calls[d]
    BY <1>1, <1>11, <2>7 DEF PinKey, Goto
  <2> HIDE DEF r
  <2>9. CallsHold' /\ HeldOnce'
    BY <2>5, <2>8, HoldConfirmed
  <2>10. ConfirmationBinds'
    BY <2>1, <2>3, <2>4, <2>5, ConfirmedBinds
  <2> QED
    BY <1>2, <2>5, <2>9, <2>10
<1>12. ASSUME NEW c \in Calls, NEW name \in Names, NEW expected \in Revisions,
              UpdateHost(c, name, expected)
       PROVE  ChallengesNumbered' /\ CallsHold' /\ HeldOnce' /\ ConfirmationBinds'
  <2>1. calls'[c].at = "hook" /\ \A d \in Calls \ {c}: calls'[d] = calls[d]
    BY <1>1, <1>12 DEF UpdateHost, Goto, Hook
  <2> QED
    BY <1>7, <1>12, <2>1 DEF UpdateHost
<1>13. ASSUME NEW c \in Calls, NEW h \in Hosts, NEW expected, DeleteHost(c, h, expected)
       PROVE  ChallengesNumbered' /\ CallsHold' /\ HeldOnce' /\ ConfirmationBinds'
  <2>1. calls'[c].at = "hook" /\ \A d \in Calls \ {c}: calls'[d] = calls[d]
    BY <1>1, <1>13 DEF DeleteHost, Goto, Hook
  <2> QED
    BY <1>7, <1>13, <2>1 DEF DeleteHost
<1>14. ASSUME NEW c \in Calls, Return(c)
       PROVE  ChallengesNumbered' /\ CallsHold' /\ HeldOnce' /\ ConfirmationBinds'
  <2>1. calls'[c].at = "idle" /\ \A d \in Calls \ {c}: calls'[d] = calls[d]
    BY <1>1, <1>14 DEF Return, Goto, Idle
  <2> QED
    BY <1>7, <1>14, <2>1 DEF Return
<1>15. CASE Restart
  BY <1>1, <1>7, <1>15 DEF Restart, Idle
<1>16. ASSUME NEW ch \in challenges, Expire(ch)
       PROVE  ChallengesNumbered' /\ CallsHold' /\ HeldOnce' /\ ConfirmationBinds'
  BY <1>7, <1>16 DEF Expire
<1> QED
  BY <1>4, <1>5, <1>6, <1>8, <1>9, <1>10, <1>11, <1>12, <1>13, <1>14, <1>15, <1>16
  DEF TrustNext, CreateHost, UpdateHostSettings, allVars, trustVars

-----------------------------------------------------------------------------
(* Every pinned key was somebody's decision. *)

(* What is decided stays decided while the histories grow and every new      *)
(* record carries no key, one that is vouched for, or the key and endpoint   *)
(* of the record it replaces.                                                *)
LEMMA DecidedKept ==
  ASSUME TrustIsDecided, confirmed \subseteq confirmed', made \subseteq made', UNCHANGED issued
  PROVE  TrustIsDecided'
<1>1. \A s: Vouched(s) => Vouched(s)'
  BY DEF Vouched
<1> QED
  BY <1>1 DEF TrustIsDecided

LEMMA DecidedSaved ==
  ASSUME IInv, TrustIsDecided, NEW r, Successor(r), Put(r),
         confirmed \subseteq confirmed', made \subseteq made',
         \/ r.key = Keep
         \/ Vouched(r)'
         \/ Present(r.id) /\ hosts[r.id].endpoint = r.endpoint /\ hosts[r.id].key = r.key
  PROVE  TrustIsDecided'
<1>1. issued' = issued \union {r} /\ r \in Record /\ r.id \in Hosts
  BY SavedIsRegistered
<1>2. /\ \A q \in issued: q.id = r.id => q.rev < r.rev
      /\ \A q \in issued': q.rev \in Nat
      /\ issued \subseteq Record
  <2>1. \A q \in issued: q \in Record /\ q.rev <= marks[q.id].rev
    BY DEF IInv, TypeOK, RevisionInv, MarksCoverIssued
  <2>2. marks[r.id].rev \in Nat /\ r.rev = marks[r.id].rev + 1
    BY <1>1 DEF IInv, TypeOK, Successor
  <2>3. \A q \in Record: q.rev \in Nat
    BY RegistryAssumption DEF Record, Revisions
  <2> QED
    BY <1>1, <2>1, <2>2, <2>3
<1>3. \A s: Vouched(s) => Vouched(s)'
  BY DEF Vouched
<1> SUFFICES ASSUME NEW q \in issued', q.key # Keep
             PROVE  \E s \in issued':
                      /\ s.id = q.id /\ s.rev <= q.rev /\ Vouched(s)'
                      /\ \A p \in issued': p.id = q.id /\ p.rev \in s.rev..q.rev =>
                           p.endpoint = s.endpoint /\ p.key = s.key
  BY DEF TrustIsDecided
<1>4. ASSUME NEW o \in issued, o.key # Keep
      PROVE  \E s \in issued:
               /\ s.id = o.id /\ s.rev <= o.rev /\ Vouched(s)'
               /\ \A p \in issued: p.id = o.id /\ p.rev \in s.rev..o.rev =>
                    p.endpoint = s.endpoint /\ p.key = s.key
  BY <1>3, <1>4 DEF TrustIsDecided
<1>5. CASE q \in issued
  <2>1. PICK s \in issued:
          /\ s.id = q.id /\ s.rev <= q.rev /\ Vouched(s)'
          /\ \A p \in issued: p.id = q.id /\ p.rev \in s.rev..q.rev =>
               p.endpoint = s.endpoint /\ p.key = s.key
    BY <1>4, <1>5
  <2>2. q.id = r.id => ~(r.rev \in s.rev..q.rev)
    BY <1>1, <1>2, <1>5, <2>1
  <2> QED
    BY <1>1, <2>1, <2>2
<1>6. CASE q = r /\ Vouched(r)'
  <2>1. \A p \in issued': p.id = r.id /\ p.rev \in r.rev..r.rev => p = r
    BY <1>1, <1>2
  <2> QED
    BY <1>1, <1>2, <1>6, <2>1
<1>7. CASE /\ q = r /\ Present(r.id)
           /\ hosts[r.id].endpoint = r.endpoint /\ hosts[r.id].key = r.key
  <2> DEFINE old == hosts[r.id]
  <2>1. old \in issued /\ old.id = r.id /\ old.rev = marks[r.id].rev
    BY <1>1, <1>7 DEF IInv, RevisionInv, HostAtMark
  <2>2. r.rev = old.rev + 1 /\ old.rev \in Nat
    BY <1>2, <1>1, <2>1 DEF Successor
  <2>3. PICK s \in issued:
          /\ s.id = old.id /\ s.rev <= old.rev /\ Vouched(s)'
          /\ \A p \in issued: p.id = old.id /\ p.rev \in s.rev..old.rev =>
               p.endpoint = s.endpoint /\ p.key = s.key
    BY <1>4, <1>7, <2>1
  <2>4. s.rev \in Nat /\ old.rev \in s.rev..old.rev
    BY <1>1, <1>2, <2>2, <2>3
  <2>5. old.endpoint = s.endpoint /\ old.key = s.key
    BY <2>1, <2>3, <2>4
  <2>6. ASSUME NEW p \in issued', p.id = r.id, p.rev \in s.rev..r.rev
        PROVE  p.endpoint = s.endpoint /\ p.key = s.key
    <3>1. CASE p = r
      BY <1>7, <2>5, <3>1
    <3>2. CASE p \in issued
      <4>1. p.rev < r.rev
        BY <1>2, <2>6, <3>2
      <4>2. p.rev \in s.rev..old.rev
        BY <1>1, <1>2, <2>2, <2>4, <2>6, <3>2, <4>1
      <4> QED
        BY <2>1, <2>3, <2>6, <3>2, <4>2
    <3> QED
      BY <1>1, <3>1, <3>2
  <2> QED
    BY <1>1, <1>2, <1>7, <2>1, <2>2, <2>3, <2>4, <2>6
<1> QED
  BY <1>1, <1>5, <1>6, <1>7

(* An edit without a confirmation: a key of the caller's, or the old one for *)
(* the old endpoint, or none.                                                *)
LEMMA EditDecided ==
  ASSUME IInv, NEW h \in Hosts, Present(h), NEW name, NEW endpoint, NEW login,
         NEW key \in Typed \union {Keep}
  PROVE  LET r == UpdatedSSH(hosts[h], name, endpoint, login, key)
         IN /\ r.id = h
            /\ \/ r.key = Keep
               \/ r.key \in Typed
               \/ hosts[h].endpoint = r.endpoint /\ hosts[h].key = r.key
<1>1. hosts[h].id = h
  BY PresentFacts
<1> QED
  BY <1>1 DEF UpdatedSSH, UpdatedKey, SSHRecord

LEMMA DecidedNext ==
  ASSUME TInv, [TrustNext]_allVars
  PROVE  TrustIsDecided'
<1>1. IInv /\ TrustIsDecided
  BY DEF TInv
<1>2. ASSUME NEW h \in Hosts, NEW name \in Names, CreateHost(h, name) PROVE TrustIsDecided'
  <2>1. CASE CreateLocal(h, name)
    <3> DEFINE r == LocalRecord(h, NextRevisions(h).rev, NextRevisions(h).connRev, name)
    <3>1. Successor(r) /\ Put(r)
      BY <1>1, <2>1, CreateLocalSuccessor
    <3>2. r.key = Keep
      BY DEF LocalRecord
    <3> HIDE DEF r
    <3> QED
      BY <1>1, <1>2, <3>1, <3>2, DecidedSaved DEF CreateHost, trustVars
  <2>2. ASSUME NEW endpoint \in Endpoints, NEW login \in Logins, NEW key \in Typed \union {Keep},
               CreateSSH(h, name, endpoint, login, key)
        PROVE  TrustIsDecided'
    <3>1. PICK r: r = SSHRecord(h, NextRevisions(h).rev, NextRevisions(h).connRev,
                                name, endpoint, login, key)
      OBVIOUS
    <3>2. Successor(r) /\ Put(r)
      BY <1>1, <2>2, <3>1, TrustAssumption, CreateSSHSuccessor
    <3>3. r.key = key
      BY <3>1 DEF SSHRecord
    <3>4. r.key = Keep \/ Vouched(r)'
      BY <3>3 DEF Vouched
    <3> QED
      BY <1>1, <1>2, <3>2, <3>4, DecidedSaved DEF CreateHost, trustVars
  <2> QED
    BY <1>2, <2>1, <2>2 DEF CreateHost
<1>3. ASSUME NEW c \in Calls, NEW h \in Hosts, NEW name \in Names, NEW login \in Logins,
             CreateConfirmed(c, h, name, login)
      PROVE  TrustIsDecided'
  <2> DEFINE ch == calls[c].by
  <2>0. PICK r: r = SSHRecord(h, NextRevisions(h).rev, NextRevisions(h).connRev,
                              name, ch.endpoint, login, ch.key)
    OBVIOUS
  <2>1. Successor(r) /\ Put(r) /\ r.id = h
    BY <1>3, <2>0, CreationFacts, CreateSSHSuccessor DEF TInv, SSHRecord
  <2>2. hosts'[h] = r
    BY <1>1, <2>1, SavedIsRegistered
  <2>3. ch \in made /\ made' = made /\ confirmed' = confirmed \union {<<ch, r>>}
    BY <1>3, <2>2 DEF CreateConfirmed, TInv, CallsHold, HasRedeemed
  <2>4. \E x \in made': <<x, r>> \in confirmed'
    BY <2>3
  <2>5. Vouched(r)'
    BY <2>4 DEF Vouched
  <2> QED
    BY <1>1, <2>1, <2>3, <2>5, DecidedSaved
<1>4. ASSUME NEW c \in Calls, PinKey(c) PROVE TrustIsDecided'
  <2> DEFINE old == calls[c].old
             ch == calls[c].by
  <2>0. PICK r: r = UpdatedSSH(hosts[old.id], old.name, old.endpoint, Keep, ch.key)
    OBVIOUS
  <2>1. /\ old \in Record /\ old = hosts[old.id] /\ ch.key \in Keys /\ ch \in made
        /\ UpdateSSH(old.id, old.name, old.endpoint, Keep, ch.key, old.rev)
    BY <1>4, PinFacts
  <2>2. Successor(r) /\ Put(r)
    BY <2>0, <2>1, UpdateSSHSuccessor DEF TInv, Record
  <2>3. r.id = old.id
    BY <2>0, <2>1 DEF UpdatedSSH, SSHRecord
  <2>4. hosts'[old.id] = r
    BY <1>1, <2>2, <2>3, SavedIsRegistered
  <2>5. made' = made /\ confirmed' = confirmed \union {<<ch, r>>}
    BY <1>4, <2>4 DEF PinKey
  <2>6. \E x \in made': <<x, r>> \in confirmed'
    BY <2>1, <2>5
  <2>7. Vouched(r)'
    BY <2>6 DEF Vouched
  <2> QED
    BY <1>1, <2>2, <2>5, <2>7, DecidedSaved
<1>5. ASSUME NEW c \in Calls, NEW name \in Names, NEW expected \in Revisions,
             UpdateHost(c, name, expected)
      PROVE  TrustIsDecided'
  <2>1. PICK h: h = calls[c].old.id /\ h \in Hosts
    BY <1>5, CallFacts DEF UpdateHost, HasRead, TInv, Record
  <2>2. UNCHANGED <<made, confirmed>>
    BY <1>5 DEF UpdateHost
  <2>3. CASE UpdateLocal(h, name, expected)
    <3> DEFINE r == LocalRecord(h, hosts[h].rev + 1, hosts[h].connRev, name)
    <3>1. Successor(r) /\ Put(r)
      BY <1>1, <2>1, <2>3, UpdateLocalSuccessor
    <3>2. r.key = Keep
      BY DEF LocalRecord
    <3> HIDE DEF r
    <3> QED
      BY <1>1, <2>2, <3>1, <3>2, DecidedSaved
  <2>4. ASSUME NEW endpoint \in Endpoints \union {Keep}, NEW login \in Logins \union {Keep},
               NEW key \in Typed \union {Keep},
               UpdateSSH(h, name, endpoint, login, key, expected)
        PROVE  TrustIsDecided'
    <3>1. PICK r: r = UpdatedSSH(hosts[h], name, endpoint, login, key)
      OBVIOUS
    <3>2. Successor(r) /\ Put(r) /\ Present(h)
      BY <1>1, <2>1, <2>4, <3>1, TrustAssumption, UpdateSSHSuccessor DEF UpdateSSH
    <3>3. /\ r.id = h
          /\ \/ r.key = Keep
             \/ r.key \in Typed
             \/ hosts[h].endpoint = r.endpoint /\ hosts[h].key = r.key
      BY <1>1, <2>1, <3>1, <3>2, EditDecided
    <3>4. r.key \in Typed => Vouched(r)'
      BY DEF Vouched
    <3> QED
      BY <1>1, <2>2, <3>2, <3>3, <3>4, DecidedSaved
  <2> QED
    BY <1>5, <2>1, <2>3, <2>4 DEF UpdateHost
<1>6. ASSUME UNCHANGED <<issued, confirmed>>, made \subseteq made' PROVE TrustIsDecided'
  BY <1>1, <1>6, DecidedKept
<1>7. CASE UNCHANGED allVars
  BY <1>6, <1>7 DEF allVars, vars, trustVars
<1>8. ASSUME NEW c \in Calls, NEW h, NEW expected, DeleteHost(c, h, expected)
      PROVE  TrustIsDecided'
  BY <1>6, <1>8 DEF DeleteHost, Delete
<1>9. ASSUME NEW h, NEW expected, UpdateHostSettings(h, expected) PROVE TrustIsDecided'
  BY <1>6, <1>9 DEF UpdateHostSettings, UpdateDefaultHost, trustVars
<1>10. ASSUME \/ \E endpoint, key: ProbeDraft(endpoint, key)
              \/ \E ch: Expire(ch)
              \/ \E c, h, at, types: ReadHost(c, at, h, types)
              \/ \E c, key: ProbeHost(c, key)
              \/ \E c, ch: RedeemForDraft(c, ch) \/ RedeemForHost(c, ch)
              \/ \E c: Return(c)
              \/ Restart
       PROVE  TrustIsDecided'
  BY <1>6, <1>10
  DEF ProbeDraft, Expire, ReadHost, ProbeHost, RedeemForDraft, RedeemForHost, Return,
      Restart, CreateChallenge, vars
<1> QED
  BY <1>2, <1>3, <1>4, <1>5, <1>7, <1>8, <1>9, <1>10 DEF TrustNext

-----------------------------------------------------------------------------
(* Every change of a connection is told. *)

(* A record a call read, however old, has an earlier connection revision     *)
(* than one saved now, unless the save keeps the connection.                 *)
LEMMA SaveTold ==
  ASSUME IInv, NEW old \in issued, NEW r, Successor(r), Put(r), r.id = old.id,
         Present(r.id), Connection(r) # Connection(hosts[r.id])
  PROVE  HookKind(old, r) = "connection"
<1>1. r.connRev > marks[r.id].connRev
  BY DEF Successor
<1>2. old.connRev <= marks[r.id].connRev /\ old \in Record /\ r \in Record
  BY SavedIsRegistered DEF IInv, TypeOK, RevisionInv, MarksCoverIssued
<1>3. old.connRev \in Nat /\ r.connRev \in Nat /\ marks[r.id].connRev \in Nat
  BY <1>2, RegistryAssumption DEF Record, Revisions, IInv, TypeOK
<1> QED
  BY <1>1, <1>2, <1>3 DEF HookKind

(* The hook is the one for h, when h changed. *)
Told(h) ==
  \E c \in Calls: calls'[c] = Hook(h, IF hosts'[h] # Absent THEN "connection" ELSE "removed")

Changed(h) ==
  /\ Present(h)
  /\ hosts'[h] = Absent \/ Connection(hosts'[h]) # Connection(hosts[h])

LEMMA TrustTells ==
  ASSUME TInv, [TrustNext]_allVars, NEW h \in Hosts, Changed(h)
  PROVE  Told(h)
<1>1. IInv /\ calls \in [Calls -> Call] /\ hosts \in [Hosts -> Record \union {Absent}]
  BY DEF TInv, TrustTypeOK, IInv, TypeOK
<1>2. hosts' # hosts
  BY DEF Changed, Present
<1>3. ASSUME NEW r, Successor(r), Put(r)
      PROVE  r.id = h /\ hosts'[h] = r /\ r # Absent /\ Connection(r) # Connection(hosts[h])
  <2>1. /\ r \in Record /\ r.id \in Hosts
        /\ hosts' = [hosts EXCEPT ![r.id] = r] /\ hosts'[r.id] = r /\ hosts'[r.id] # Absent
    BY <1>1, <1>3, SavedIsRegistered
  <2>2. r.id = h
    BY <1>1, <2>1 DEF Changed, Present
  <2> QED
    BY <2>1, <2>2 DEF Changed
<1>4. ASSUME NEW c \in Calls, calls[c].old \in issued, NEW r, Successor(r), Put(r),
             r.id = calls[c].old.id,
             Goto(c, Hook(calls[c].old.id, HookKind(calls[c].old, hosts'[calls[c].old.id])))
      PROVE  Told(h)
  <2>1. r.id = h /\ hosts'[h] = r /\ r # Absent /\ Connection(r) # Connection(hosts[h])
    BY <1>3, <1>4
  <2>2. HookKind(calls[c].old, r) = "connection"
    BY <1>1, <1>4, <2>1, SaveTold DEF Changed
  <2>3. calls'[c] = Hook(h, "connection")
    BY <1>1, <1>4, <2>1, <2>2 DEF Goto
  <2> QED
    BY <2>1, <2>3 DEF Told
<1>5. ASSUME NEW c \in Calls, NEW name \in Names, NEW expected \in Revisions,
             UpdateHost(c, name, expected)
      PROVE  Told(h)
  <2>1. calls[c].old \in issued /\ calls[c].old.id \in Hosts
    BY <1>5, CallFacts DEF UpdateHost, HasRead, TInv, CallsHold, Record
  <2>2. PICK g: g = calls[c].old.id /\ g \in Hosts
    BY <2>1
  <2>3. CASE UpdateLocal(g, name, expected)
    <3>1. PICK r: r = LocalRecord(g, hosts[g].rev + 1, hosts[g].connRev, name)
      OBVIOUS
    <3>2. Successor(r) /\ Put(r) /\ r.id = g
      BY <1>1, <2>2, <2>3, <3>1, UpdateLocalSuccessor DEF LocalRecord
    <3> QED
      BY <1>4, <1>5, <2>1, <2>2, <3>2 DEF UpdateHost
  <2>4. ASSUME NEW endpoint \in Endpoints \union {Keep}, NEW login \in Logins \union {Keep},
               NEW key \in Typed \union {Keep},
               UpdateSSH(g, name, endpoint, login, key, expected)
        PROVE  Told(h)
    <3>1. PICK r: r = UpdatedSSH(hosts[g], name, endpoint, login, key)
      OBVIOUS
    <3>2. Successor(r) /\ Put(r) /\ Present(g)
      BY <1>1, <2>2, <2>4, <3>1, TrustAssumption, UpdateSSHSuccessor DEF UpdateSSH
    <3>3. r.id = g
      BY <1>1, <2>2, <3>1, <3>2, EditDecided
    <3> QED
      BY <1>4, <1>5, <2>1, <2>2, <3>2, <3>3 DEF UpdateHost
  <2> QED
    BY <1>5, <2>2, <2>3, <2>4 DEF UpdateHost
<1>6. ASSUME NEW c \in Calls, PinKey(c) PROVE Told(h)
  <2> DEFINE old == calls[c].old
             ch == calls[c].by
  <2>1. PICK r: r = UpdatedSSH(hosts[old.id], old.name, old.endpoint, Keep, ch.key)
    OBVIOUS
  <2>2. /\ old \in Record /\ old \in issued /\ old = hosts[old.id] /\ ch.key \in Keys
        /\ UpdateSSH(old.id, old.name, old.endpoint, Keep, ch.key, old.rev)
    BY <1>6, PinFacts
  <2>3. Successor(r) /\ Put(r)
    BY <2>1, <2>2, UpdateSSHSuccessor DEF TInv, Record
  <2>4. r.id = old.id
    BY <2>1, <2>2 DEF UpdatedSSH, SSHRecord
  <2> QED
    BY <1>4, <1>6, <2>2, <2>3, <2>4 DEF PinKey
<1>7. ASSUME NEW c \in Calls, NEW g \in Hosts, NEW expected, DeleteHost(c, g, expected)
      PROVE  Told(h)
  <2>1. hosts' = [hosts EXCEPT ![g] = Absent]
    BY <1>7 DEF DeleteHost, Delete
  <2>2. g = h /\ hosts'[h] = Absent
    BY <1>1, <2>1 DEF Changed, Present
  <2>3. calls'[c] = Hook(h, "removed")
    BY <1>1, <1>7, <2>2 DEF DeleteHost, Goto
  <2> QED
    BY <2>2, <2>3 DEF Told
<1>8. ASSUME NEW g \in Hosts, NEW name \in Names, CreateHost(g, name) PROVE FALSE
  <2>1. ~Present(g)
    BY <1>8 DEF CreateHost, CreateLocal, CreateSSH
  <2>2. CASE CreateLocal(g, name)
    <3>1. PICK r: r = LocalRecord(g, NextRevisions(g).rev, NextRevisions(g).connRev, name)
      OBVIOUS
    <3>2. Successor(r) /\ Put(r) /\ r.id = g
      BY <1>1, <2>2, <3>1, CreateLocalSuccessor DEF LocalRecord
    <3> QED
      BY <1>3, <2>1, <3>2 DEF Changed
  <2>3. ASSUME NEW endpoint \in Endpoints, NEW login \in Logins, NEW key \in Typed \union {Keep},
               CreateSSH(g, name, endpoint, login, key)
        PROVE  FALSE
    <3>1. PICK r: r = SSHRecord(g, NextRevisions(g).rev, NextRevisions(g).connRev,
                                name, endpoint, login, key)
      OBVIOUS
    <3>2. Successor(r) /\ Put(r) /\ r.id = g
      BY <1>1, <2>3, <3>1, TrustAssumption, CreateSSHSuccessor DEF SSHRecord
    <3> QED
      BY <1>3, <2>1, <3>2 DEF Changed
  <2> QED
    BY <1>8, <2>2, <2>3 DEF CreateHost
<1>9. ASSUME NEW c \in Calls, NEW g \in Hosts, NEW name \in Names, NEW login \in Logins,
             CreateConfirmed(c, g, name, login)
      PROVE  FALSE
  <2>1. PICK r: r = SSHRecord(g, NextRevisions(g).rev, NextRevisions(g).connRev,
                              name, calls[c].by.endpoint, login, calls[c].by.key)
    OBVIOUS
  <2>2. Successor(r) /\ Put(r) /\ r.id = g /\ ~Present(g)
    BY <1>9, <2>1, CreationFacts, CreateSSHSuccessor DEF TInv, SSHRecord, CreateSSH
  <2> QED
    BY <1>3, <2>2 DEF Changed
<1> QED
  BY <1>2, <1>5, <1>6, <1>7, <1>8, <1>9
  DEF TrustNext, allVars, vars, trustVars, ProbeDraft, Expire, UpdateHostSettings,
      UpdateDefaultHost, ReadHost, ProbeHost, RedeemForDraft, RedeemForHost, Return, Restart

-----------------------------------------------------------------------------
(* The invariant holds from the start, and in every step. *)

LEMMA TrustInitInv == TrustInit => TInv
<1> SUFFICES ASSUME TrustInit PROVE TInv
  OBVIOUS
<1>1. IInv /\ Init /\ challenges = {} /\ made = {} /\ confirmed = {}
      /\ calls = [c \in Calls |-> Idle]
  BY InitInv DEF TrustInit
<1>2. \A c \in Calls: calls[c] = Idle /\ calls[c].at = "idle"
  BY <1>1 DEF Idle
<1>3. TrustTypeOK
  BY <1>1, CallShapes DEF TrustTypeOK
<1>4. ChallengesNumbered
  BY <1>1, FS_EmptySet DEF ChallengesNumbered
<1>5. CallsHold /\ HeldOnce
  BY <1>1, <1>2 DEF CallsHold, HeldOnce, HasRead, HasRedeemed
<1>6. ConfirmationBinds
  BY <1>1 DEF ConfirmationBinds
<1>7. \A r \in issued: r.key = Keep
  BY <1>1 DEF Init, LocalRecord
<1>8. TrustIsDecided
  BY <1>7 DEF TrustIsDecided
<1> QED
  BY <1>1, <1>3, <1>4, <1>5, <1>6, <1>8 DEF TInv

(* A step of the API is a step of the registry or leaves it alone. *)
LEMMA TrustNextRegistry == TInv /\ [TrustNext]_allVars => [Next]_vars
  BY TrustStepsRegistry DEF allVars

LEMMA TrustNextInv == TInv /\ [TrustNext]_allVars => TInv'
<1> SUFFICES ASSUME TInv, [TrustNext]_allVars PROVE TInv'
  OBVIOUS
<1>1. [Next]_vars
  BY TrustNextRegistry
<1>2. IInv'
  BY <1>1, NextInv DEF TInv
<1>3. issued \subseteq issued'
  BY <1>1, HistoryGrows
<1>4. TrustTypeOK'
  BY <1>2, <1>3, TrustTypesNext
<1>5. ChallengesNumbered' /\ CallsHold' /\ HeldOnce' /\ ConfirmationBinds'
  BY <1>3, HoldersNext
<1>6. TrustIsDecided'
  BY DecidedNext
<1> QED
  BY <1>2, <1>4, <1>5, <1>6 DEF TInv

(* The invariant behind the results below: who holds a challenge, and whose  *)
(* decision a pinned key is.                                                 *)
THEOREM TrustInvariant == TrustSpec => []TInv
<1> QED
  BY TrustInitInv, TrustNextInv, PTL DEF TrustSpec

(* Challenges, calls and confirmations stay well-formed.                     *)
THEOREM TrustTypes == TrustSpec => []TrustTypeOK
<1>1. TInv => TrustTypeOK
  BY DEF TInv
<1> QED
  BY <1>1, TrustInvariant, PTL

(* The handlers of the host API only do to the registry what Registry        *)
(* allows: whatever is proved of the registry holds under them.              *)
THEOREM TrustImplementsRegistry == TrustSpec => Spec
<1>1. TrustInit => Init
  BY DEF TrustInit
<1> QED
  BY <1>1, TrustNextRegistry, TrustInvariant, PTL DEF TrustSpec, Spec

(* With challenges, probes and confirmations racing edits, the hosts are     *)
(* still identities that the rest of the hub can rely on.                    *)
THEOREM TrustKeepsIdentities == TrustSpec => ImplementsIdentity
<1> QED
  BY TrustImplementsRegistry, RegistryImplementsIdentity, PTL

(* A confirmation pins the key for the endpoint and the revision the         *)
(* administrator saw, and once (TrustStore.Confirm, confirmHostTrust).       *)
THEOREM ConfirmationsBind == TrustSpec => []ConfirmationBinds
<1>1. TInv => ConfirmationBinds
  BY DEF TInv
<1> QED
  BY <1>1, TrustInvariant, PTL

(* Every pinned key goes back to a confirmation or to a key handed in for    *)
(* this host, with that endpoint and key kept since (resolveHostKeyUpdate).  *)
THEOREM PinnedKeysAreDecided == TrustSpec => []TrustIsDecided
<1>1. TInv => TrustIsDecided
  BY DEF TInv
<1> QED
  BY <1>1, TrustInvariant, PTL

(* The call that changes how a host is reached, or removes it, goes on to    *)
(* the hook that revokes what was opened (updateHost, confirmHostTrust,      *)
(* deleteHost).                                                              *)
THEOREM ChangesAreAlwaysTold == TrustSpec => ChangesAreTold
<1> DEFINE Tells ==
      \A h \in Hosts:
        /\ Present(h)
        /\ ~Present(h)' \/ Connection(hosts'[h]) # Connection(hosts[h])
        => \E c \in Calls: calls'[c] = Hook(h, IF Present(h)' THEN "connection" ELSE "removed")
<1>1. TInv /\ [TrustNext]_allVars => Tells
  <2> SUFFICES ASSUME TInv, [TrustNext]_allVars, NEW h \in Hosts,
                      Present(h),
                      ~Present(h)' \/ Connection(hosts'[h]) # Connection(hosts[h])
               PROVE  \E c \in Calls:
                        calls'[c] = Hook(h, IF Present(h)' THEN "connection" ELSE "removed")
    OBVIOUS
  <2>1. Changed(h)
    BY DEF Changed, Present
  <2> QED
    BY <2>1, TrustTells DEF Told, Present
<1>2. TInv /\ [TrustNext]_allVars => [Tells]_allVars
  BY <1>1
<1> QED
  BY <1>2, TrustInvariant, PTL DEF TrustSpec, ChangesAreTold
=============================================================================
