---------------------------- MODULE HostIdentity ----------------------------
(***************************************************************************)
(* What the rest of the hub relies on when it names a host by its          *)
(* identifier and connection revision -- tickets, connection pools,        *)
(* attachments, file operations: a host has at most one connection         *)
(* revision at a time, a new one is larger than every revision the         *)
(* identifier ever had, and removal does not forget that.                  *)
(***************************************************************************)
EXTENDS Naturals

CONSTANTS
  Hosts,       \* host identifiers
  MaxRevision  \* revisions stay below this (a bound)

VARIABLES
  current,  \* current[h]: connection revision of host h, 0 while unregistered
  used      \* used[h]: the largest connection revision h ever had

identityVars == <<current, used>>

Init ==
  /\ current \in [Hosts -> {0, 1}]
  /\ used = current

(* A registration, or an edit that changes how the host is reached. *)
Issue(h) ==
  \E n \in (used[h] + 1)..MaxRevision:
    /\ current' = [current EXCEPT ![h] = n]
    /\ used' = [used EXCEPT ![h] = n]

Retire(h) ==
  /\ current[h] # 0
  /\ current' = [current EXCEPT ![h] = 0]
  /\ UNCHANGED used

Next == \E h \in Hosts: Issue(h) \/ Retire(h)

Spec == Init /\ [][Next]_identityVars
=============================================================================
