SPECIFICATION TrustSpec
CONSTANTS
  Hosts = {local}
  Local = local
  Names = {a}
  Endpoints = {e1, e2}
  Logins = {l}
  Keys = {k1, k2}
  Absent = Absent
  Keep = Keep
  MaxRevision = 4
  MaxSettings = 2
  Calls = {c1, c2}
  Draft = Draft
  Typed = {}
  Shown = {k1, k2}
  MaxChallenges = 2
SYMMETRY Symmetry
INVARIANTS
  TypeOK
  RevisionNamesContent
  ConnectionRevisionNamesConnection
  DefaultHostSafe
  ConfirmationBinds
  TrustIsDecided
PROPERTIES
  ImplementsIdentity
  ChangesAreTold
