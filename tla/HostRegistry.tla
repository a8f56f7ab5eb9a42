---------------------------- MODULE HostRegistry ----------------------------
(***************************************************************************)
(* The host registry (host/registry.go) over its store (host/store.go).    *)
(* Every operation runs under Registry.mu and writes in one transaction,   *)
(* so it is one step; nothing is kept outside the database, so a restart   *)
(* of the hub changes no variable of this module.                          *)
(***************************************************************************)
EXTENDS Naturals, FiniteSets

CONSTANTS
  Hosts,        \* host identifiers a caller may use
  Local,        \* the identifier of the bootstrapped local host
  Names, Endpoints, Logins, Keys,  \* display names; address and port;
                \* user name with credential; pinned host keys
  Absent,       \* the value of an unregistered host
  Keep,         \* an input field left empty
  MaxRevision,  \* host revisions stay at or below this (a bound)
  MaxSettings   \* explicit changes of the default stop at this revision (a bound)

ASSUME RegistryAssumption ==
  /\ Local \in Hosts
  /\ MaxRevision \in Nat \ {0} /\ MaxSettings \in Nat
  /\ Absent \notin Hosts
  /\ Keep \notin Endpoints \union Logins \union Keys
  /\ Names # {}

VARIABLES
  hosts,           \* table hosts: the record of every identifier, or Absent
  marks,           \* table revision_watermarks, zero where there is no row
  settings,        \* table settings: the default host and its revision
  issued,          \* history: every record ever committed
  issuedSettings   \* history: every value settings had

vars == <<hosts, marks, settings, issued, issuedSettings>>

Revisions == 1..MaxRevision

Record ==
  [id: Hosts, rev: Revisions, connRev: Revisions, name: Names,
   type: {"local", "ssh"}, endpoint: Endpoints \union {Keep},
   login: Logins \union {Keep}, key: Keys \union {Keep}]

Present(h) == hosts[h] # Absent

ASSUME AbsentAssumption == Absent \notin Record

(* How a record's host is reached. *)
Connection(r) == <<r.type, r.endpoint, r.login, r.key>>

LocalRecord(h, rev, connRev, name) ==
  [id |-> h, rev |-> rev, connRev |-> connRev, name |-> name, type |-> "local",
   endpoint |-> Keep, login |-> Keep, key |-> Keep]

SSHRecord(h, rev, connRev, name, endpoint, login, key) ==
  [id |-> h, rev |-> rev, connRev |-> connRev, name |-> name, type |-> "ssh",
   endpoint |-> endpoint, login |-> login, key |-> key]

MaxOf(a, b) == IF a > b THEN a ELSE b

(* initializeFreshDatabase: the local host is registered and the default. *)
Init ==
  \E name \in Names:
    LET r == LocalRecord(Local, 1, 1, name)
    IN /\ hosts = [h \in Hosts |-> IF h = Local THEN r ELSE Absent]
       /\ marks = [h \in Hosts |-> IF h = Local THEN [rev |-> 1, connRev |-> 1]
                                                ELSE [rev |-> 0, connRev |-> 0]]
       /\ settings = [default |-> Local, rev |-> 1]
       /\ issued = {r}
       /\ issuedSettings = {settings}

-----------------------------------------------------------------------------
(* Store operations. *)

(* Mutant of NextRevisions: a recreated host starts again. *)
RevisionsRestart(h) == [rev |-> 1, connRev |-> 1]
(* Mutant of NextRevisions: one revision is skipped. *)
RevisionsSkip(h) == [rev |-> marks[h].rev + 2, connRev |-> marks[h].connRev + 2]

(* NextRevisions: one above the watermarks; with no watermark this is 1, 1. *)
NextRevisions(h) == [rev |-> marks[h].rev + 1, connRev |-> marks[h].connRev + 1]

(* Mutant of Put: the watermark is forgotten. *)
PutUnmarked(r) ==
  /\ hosts' = [hosts EXCEPT ![r.id] = r]
  /\ issued' = issued \union {r}
  /\ UNCHANGED <<marks, settings, issuedSettings>>

(* The transaction of Put: the row and the watermark together. *)
Put(r) ==
  /\ hosts' = [hosts EXCEPT ![r.id] = r]
  /\ marks' = [marks EXCEPT ![r.id] =
                 [rev |-> MaxOf(@.rev, r.rev), connRev |-> MaxOf(@.connRev, r.connRev)]]
  /\ issued' = issued \union {r}
  /\ UNCHANGED <<settings, issuedSettings>>

-----------------------------------------------------------------------------
(* Registry operations. *)

(* saveNew of a local host: at most one may be registered. *)
CreateLocal(h, name) ==
  /\ ~Present(h)
  /\ \A g \in Hosts: Present(g) => hosts[g].type # "local"
  /\ marks[h].rev < MaxRevision
  /\ Put(LocalRecord(h, NextRevisions(h).rev, NextRevisions(h).connRev, name))

CreateSSH(h, name, endpoint, login, key) ==
  /\ ~Present(h)
  /\ marks[h].rev < MaxRevision
  /\ Put(SSHRecord(h, NextRevisions(h).rev, NextRevisions(h).connRev,
                   name, endpoint, login, key))

(* saveUpdate: only the revision the caller has seen may be replaced, and   *)
(* the connection type stays.  A local host has nothing but its name.       *)
UpdateLocal(h, name, expected) ==
  /\ Present(h) /\ hosts[h].rev = expected
  /\ hosts[h].type = "local"
  /\ expected < MaxRevision
  /\ Put(LocalRecord(h, hosts[h].rev + 1, hosts[h].connRev, name))

(* Mutant of UpdatedKey: the key stays whatever the endpoint. *)
KeyCarried(old, endpoint, key) == IF key # Keep THEN key ELSE old.key

(* resolveHostKeyUpdate: a key pinned for one endpoint is not carried over   *)
(* to another.                                                               *)
UpdatedKey(old, endpoint, key) ==
  IF key # Keep THEN key
  ELSE IF endpoint # old.endpoint THEN Keep ELSE old.key

(* Mutant of UpdatedSSH: a newly pinned host key does not count as a change. *)
KeyUnnoticed(old, name, endpoint, login, key) ==
  LET newEndpoint == IF endpoint = Keep THEN old.endpoint ELSE endpoint
      newKey == UpdatedKey(old, newEndpoint, key)
      changed == newEndpoint # old.endpoint \/ login # Keep
  IN SSHRecord(old.id, old.rev + 1,
               IF changed THEN old.rev + 1 ELSE old.connRev,
               name, newEndpoint, IF login = Keep THEN old.login ELSE login, newKey)

(* saveUpdateSSH.  Supplied credentials count as changed even when equal. *)
UpdatedSSH(old, name, endpoint, login, key) ==
  LET newEndpoint == IF endpoint = Keep THEN old.endpoint ELSE endpoint
      newKey == UpdatedKey(old, newEndpoint, key)
      changed == newEndpoint # old.endpoint \/ login # Keep \/ newKey # old.key
  IN SSHRecord(old.id, old.rev + 1,
               IF changed THEN old.rev + 1 ELSE old.connRev,
               name, newEndpoint, IF login = Keep THEN old.login ELSE login, newKey)

UpdateSSH(h, name, endpoint, login, key, expected) ==
  /\ Present(h) /\ hosts[h].rev = expected
  /\ hosts[h].type = "ssh"
  /\ expected < MaxRevision
  /\ Put(UpdatedSSH(hosts[h], name, endpoint, login, key))

(* Mutant of Delete: clearing the default is not a new revision. *)
DeleteSameSettings(h, expected) ==
  /\ Present(h)
  /\ expected = 0 \/ hosts[h].rev = expected
  /\ hosts' = [hosts EXCEPT ![h] = Absent]
  /\ settings' = [settings EXCEPT !.default = IF @ = h THEN Absent ELSE @]
  /\ issuedSettings' = issuedSettings \union {settings'}
  /\ UNCHANGED <<marks, issued>>

(* Delete: an expected revision of zero removes whatever is there.  The      *)
(* default host is cleared in the same transaction.                          *)
Delete(h, expected) ==
  /\ Present(h)
  /\ expected = 0 \/ hosts[h].rev = expected
  /\ hosts' = [hosts EXCEPT ![h] = Absent]
  /\ marks' = [marks EXCEPT ![h] =
                 [rev |-> MaxOf(@.rev, hosts[h].rev),
                  connRev |-> MaxOf(@.connRev, hosts[h].connRev)]]
  /\ settings' = IF settings.default = h
                 THEN [default |-> Absent, rev |-> settings.rev + 1]
                 ELSE settings
  /\ issuedSettings' = issuedSettings \union {settings'}
  /\ UNCHANGED issued

(* UpdateDefaultHost: to a registered host, or to none. *)
UpdateDefaultHost(h, expected) ==
  /\ settings.rev = expected /\ expected < MaxSettings
  /\ h # Absent => Present(h)
  /\ settings' = [default |-> h, rev |-> settings.rev + 1]
  /\ issuedSettings' = issuedSettings \union {settings'}
  /\ UNCHANGED <<hosts, marks, issued>>

Next ==
  \/ \E h \in Hosts, name \in Names:
       \/ CreateLocal(h, name)
       \/ \E endpoint \in Endpoints, login \in Logins, key \in Keys \union {Keep}:
            CreateSSH(h, name, endpoint, login, key)
       \/ \E expected \in Revisions:
            \/ UpdateLocal(h, name, expected)
            \/ \E endpoint \in Endpoints \union {Keep}, login \in Logins \union {Keep},
                  key \in Keys \union {Keep}:
                 UpdateSSH(h, name, endpoint, login, key, expected)
  \/ \E h \in Hosts, expected \in Revisions \union {0}: Delete(h, expected)
  \/ \E h \in Hosts \union {Absent}, expected \in 1..MaxSettings:
       UpdateDefaultHost(h, expected)

Spec == Init /\ [][Next]_vars

-----------------------------------------------------------------------------
(* Type invariant: tables hold well-formed rows, histories what the tables   *)
(* held.                                                                     *)
TypeOK ==
  /\ hosts \in [Hosts -> Record \union {Absent}]
  /\ marks \in [Hosts -> [rev: 0..MaxRevision, connRev: 0..MaxRevision]]
  /\ settings \in [default: Hosts \union {Absent}, rev: Nat \ {0}]
  /\ issued \subseteq Record
  /\ settings \in issuedSettings

(* A revision names one content for ever: a caller that submits the revision *)
(* it read edits the very record it read, even when the host was removed and *)
(* registered again in between (Registry.saveUpdate with the watermarks of   *)
(* NextRevisions).                                                           *)
RevisionNamesContent ==
  \A r, s \in issued: r.id = s.id /\ r.rev = s.rev => r = s

(* A connection revision names one way of reaching a host for ever: tickets, *)
(* leases and pools made for an earlier configuration or an earlier life of  *)
(* the identifier can never match a later one.                               *)
ConnectionRevisionNamesConnection ==
  \A r, s \in issued:
    r.id = s.id /\ r.connRev = s.connRev => Connection(r) = Connection(s)

(* Two callers that change the default from the same settings revision       *)
(* cannot both succeed, and a removal that clears the default counts as a    *)
(* change.                                                                   *)
SettingsRevisionNamesDefault ==
  \A s, t \in issuedSettings: s.rev = t.rev => s = t

(* The default host is registered or cleared.                                *)
DefaultRegistered == settings.default # Absent => Present(settings.default)

(* Whatever callers race for the setting, the default host can be trusted.   *)
DefaultHostSafe == SettingsRevisionNamesDefault /\ DefaultRegistered

(* At most one local connection exists whatever identifier it uses: part of  *)
(* the inductive invariant.                                                  *)
SingleLocal ==
  \A g, h \in Hosts:
    Present(g) /\ Present(h) /\ hosts[g].type = "local" /\ hosts[h].type = "local" => g = h

(* The registry provides the host identities the rest of the hub relies on. *)
Identity == INSTANCE HostIdentity WITH
              current <- [h \in Hosts |-> IF Present(h) THEN hosts[h].connRev ELSE 0],
              used    <- [h \in Hosts |-> marks[h].connRev]

ImplementsIdentity == Identity!Spec
=============================================================================
