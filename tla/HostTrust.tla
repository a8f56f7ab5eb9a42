----------------------------- MODULE HostTrust -----------------------------
(***************************************************************************)
(* The trust of a host's server key: the store of challenges               *)
(* (host/trust.go) and the handlers of the host API                        *)
(* (transport/http/router.go) over the registry.  A handler reads the host,*)
(* talks to a server or redeems a challenge, and saves; other calls, the   *)
(* expiry of challenges and a restart of the hub come between its steps.   *)
(* Challenges live in memory only.                                         *)
(***************************************************************************)
EXTENDS HostRegistry

CONSTANTS
  Calls,         \* calls of the API that are under way at a time
  Draft,         \* the host of a challenge made before the host exists
  Typed,         \* keys a caller may hand in itself, without a challenge
  Shown,         \* keys servers present to a probe
  MaxChallenges  \* probes that got an answer (a bound)

ASSUME TrustAssumption ==
  /\ Draft \notin Hosts
  /\ Typed \subseteq Keys /\ Shown \subseteq Keys
  /\ MaxChallenges \in Nat

VARIABLES
  challenges,  \* TrustStore.challenges, those that have not expired
  calls,       \* where each call is, with the values it holds
  made,        \* history: every challenge made
  confirmed    \* history: the challenges redeemed, each with the record it pinned

trustVars == <<challenges, calls, made, confirmed>>
allVars == <<vars, trustVars>>

Challenge ==
  [token: 1..MaxChallenges, host: Hosts \union {Draft}, rev: 0..MaxRevision,
   endpoint: Endpoints \union {Keep}, key: Shown]

Hook(h, kind) == [at |-> "hook", host |-> h, kind |-> kind]
Idle == [at |-> "idle"]

Call ==
  [at: {"idle"}]
    \union [at: {"probing", "updating", "confirming"}, old: Record]
    \union [at: {"creating"}, by: Challenge]
    \union [at: {"pinning"}, old: Record, by: Challenge]
    \union [at: {"hook"}, host: Hosts, kind: {"connection", "metadata", "removed"}]

TrustInit ==
  /\ Init
  /\ challenges = {} /\ made = {} /\ confirmed = {}
  /\ calls = [c \in Calls |-> Idle]

Goto(c, state) == calls' = [calls EXCEPT ![c] = state]

-----------------------------------------------------------------------------
(* The store of challenges; each operation is one critical section.          *)

CreateChallenge(h, rev, endpoint, key) ==
  LET n == Cardinality(made) + 1
      new == [token |-> n, host |-> h, rev |-> rev, endpoint |-> endpoint, key |-> key]
  IN /\ n <= MaxChallenges
     /\ challenges' = challenges \union {new}
     /\ made' = made \union {new}

(* Mutant of Matches: the revision is not compared. *)
MatchesAnyRevision(ch, h, rev, endpoint) == ch.host = h /\ ch.endpoint = endpoint

(* Confirm's comparison: host, revision and endpoint are those of the probe. *)
Matches(ch, h, rev, endpoint) == ch.host = h /\ ch.rev = rev /\ ch.endpoint = endpoint

(* Confirm redeems a challenge; one that does not match stays.               *)
Confirm(ch, h, rev, endpoint) ==
  /\ ch \in challenges
  /\ Matches(ch, h, rev, endpoint)
  /\ challenges' = challenges \ {ch}

(* Every operation first sweeps the expired challenges, so that one past its *)
(* time is as good as gone.                                                  *)
Expire(ch) ==
  /\ ch \in challenges
  /\ challenges' = challenges \ {ch}
  /\ UNCHANGED <<vars, calls, made, confirmed>>

-----------------------------------------------------------------------------
(* Probes. *)

(* ProbeEndpoint: the key the server presents at the time, asked without     *)
(* credentials; a server may change its key, and a probe without an answer   *)
(* only returns.                                                             *)
ProbeEndpoint(endpoint) == Shown

ProbeDraft(endpoint, key) ==
  /\ CreateChallenge(Draft, 0, endpoint, key)
  /\ UNCHANGED <<vars, calls, confirmed>>

(* Handlers that begin with Get: what they read of the host stays with them. *)
ReadHost(c, at, h, types) ==
  /\ calls[c] = Idle
  /\ Present(h) /\ hosts[h].type \in types
  /\ Goto(c, [at |-> at, old |-> hosts[h]])
  /\ UNCHANGED <<vars, challenges, made, confirmed>>

(* The server read from the host answers with a key. *)
ProbeHost(c, key) ==
  /\ calls[c].at = "probing"
  /\ LET old == calls[c].old
     IN /\ key \in ProbeEndpoint(old.endpoint)
        /\ CreateChallenge(old.id, old.rev, old.endpoint, key)
  /\ Goto(c, Idle)
  /\ UNCHANGED <<vars, confirmed>>

-----------------------------------------------------------------------------
(* Creations. *)

(* createHost with a challenge: it is redeemed before the host is saved.     *)
RedeemForDraft(c, ch) ==
  /\ calls[c] = Idle
  /\ Confirm(ch, Draft, 0, ch.endpoint)
  /\ Goto(c, [at |-> "creating", by |-> ch])
  /\ UNCHANGED <<vars, made, confirmed>>

CreateConfirmed(c, h, name, login) ==
  /\ calls[c].at = "creating"
  /\ LET ch == calls[c].by
     IN /\ CreateSSH(h, name, ch.endpoint, login, ch.key)
        /\ confirmed' = confirmed \union {<<ch, hosts'[h]>>}
  /\ Goto(c, Idle)
  /\ UNCHANGED <<challenges, made>>

(* createHost without a challenge, or with a key of the caller's. *)
CreateHost(h, name) ==
  /\ \/ CreateLocal(h, name)
     \/ \E endpoint \in Endpoints, login \in Logins, key \in Typed \union {Keep}:
          CreateSSH(h, name, endpoint, login, key)
  /\ UNCHANGED trustVars

-----------------------------------------------------------------------------
(* Edits.  Which hook of the application runs after one is decided by the    *)
(* connection revisions of the host as it was read and as it was saved.      *)

(* Mutant of HookKind: the endpoint and the login decide, not the key. *)
HookKindOfAddress(old, new) ==
  IF <<new.endpoint, new.login>> # <<old.endpoint, old.login>> THEN "connection" ELSE "metadata"

HookKind(old, new) == IF new.connRev # old.connRev THEN "connection" ELSE "metadata"

UpdateHost(c, name, expected) ==
  /\ calls[c].at = "updating"
  /\ LET old == calls[c].old
     IN /\ \/ UpdateLocal(old.id, name, expected)
           \/ \E endpoint \in Endpoints \union {Keep}, login \in Logins \union {Keep},
                 key \in Typed \union {Keep}:
                UpdateSSH(old.id, name, endpoint, login, key, expected)
        /\ Goto(c, Hook(old.id, HookKind(old, hosts'[old.id])))
  /\ UNCHANGED <<challenges, made, confirmed>>

RedeemForHost(c, ch) ==
  /\ calls[c].at = "confirming"
  /\ LET old == calls[c].old
     IN /\ Confirm(ch, old.id, old.rev, old.endpoint)
        /\ Goto(c, [at |-> "pinning", old |-> old, by |-> ch])
  /\ UNCHANGED <<vars, made, confirmed>>

(* confirmHostTrust saves what it read of the host with the key redeemed.    *)
PinKey(c) ==
  /\ calls[c].at = "pinning"
  /\ LET old == calls[c].old
         ch == calls[c].by
     IN /\ UpdateSSH(old.id, old.name, old.endpoint, Keep, ch.key, old.rev)
        /\ confirmed' = confirmed \union {<<ch, hosts'[old.id]>>}
        /\ Goto(c, Hook(old.id, HookKind(old, hosts'[old.id])))
  /\ UNCHANGED <<challenges, made>>

DeleteHost(c, h, expected) ==
  /\ calls[c] = Idle
  /\ Delete(h, expected)
  /\ Goto(c, Hook(h, "removed"))
  /\ UNCHANGED <<challenges, made, confirmed>>

(* updateHostSettings *)
UpdateHostSettings(h, expected) ==
  /\ UpdateDefaultHost(h, expected)
  /\ UNCHANGED trustVars

(* A call returns: its hook has run, or a step of it failed.  A save whose   *)
(* write failed changed nothing.                                             *)
Return(c) ==
  /\ calls[c] # Idle
  /\ Goto(c, Idle)
  /\ UNCHANGED <<vars, challenges, made, confirmed>>

(* The hub stops and starts again: challenges and calls are gone.            *)
Restart ==
  /\ challenges' = {}
  /\ calls' = [c \in Calls |-> Idle]
  /\ UNCHANGED <<vars, made, confirmed>>

TrustNext ==
  \/ \E endpoint \in Endpoints: \E key \in ProbeEndpoint(endpoint): ProbeDraft(endpoint, key)
  \/ \E h \in Hosts, name \in Names: CreateHost(h, name)
  \/ \E ch \in challenges: Expire(ch)
  \/ \E h \in Hosts \union {Absent}, expected \in 1..MaxSettings:
       UpdateHostSettings(h, expected)
  \/ \E c \in Calls:
       \/ \E h \in Hosts:
            \/ ReadHost(c, "updating", h, {"local", "ssh"})
            \/ \E at \in {"probing", "confirming"}: ReadHost(c, at, h, {"ssh"})
            \/ \E expected \in Revisions \union {0}: DeleteHost(c, h, expected)
            \/ \E name \in Names, login \in Logins: CreateConfirmed(c, h, name, login)
       \/ \E key \in Shown: ProbeHost(c, key)
       \/ \E ch \in challenges: RedeemForDraft(c, ch) \/ RedeemForHost(c, ch)
       \/ \E name \in Names, expected \in Revisions: UpdateHost(c, name, expected)
       \/ PinKey(c)
       \/ Return(c)
  \/ Restart

TrustSpec == TrustInit /\ [][TrustNext]_allVars

-----------------------------------------------------------------------------
(* Type invariant of the trust store and the calls. *)
TrustTypeOK ==
  /\ challenges \subseteq made /\ made \subseteq Challenge
  /\ calls \in [Calls -> Call]
  /\ confirmed \subseteq made \X issued

(* A confirmation binds what the administrator saw: the key goes to the      *)
(* endpoint that showed it, into the record after the very revision that was *)
(* probed, and no challenge pins a key twice, whatever edits, removals and   *)
(* other confirmations run between its steps (TrustStore.Confirm,            *)
(* confirmHostTrust).                                                        *)
ConfirmationBinds ==
  \A pinned \in confirmed:
    LET ch == pinned[1]
        r == pinned[2]
    IN /\ r.endpoint = ch.endpoint /\ r.key = ch.key
       /\ ch.host # Draft => r.id = ch.host /\ r.rev = ch.rev + 1
       /\ \A other \in confirmed: other[1].token = ch.token => other[2] = r

(* A key that was confirmed, or handed in, for the host it is pinned in. *)
Vouched(r) == r.key \in Typed \/ \E ch \in made: <<ch, r>> \in confirmed

(* A pinned key is trusted by somebody's decision: it was confirmed or       *)
(* handed in for this host at some revision, and since then every revision   *)
(* kept that key and that endpoint.  An edited endpoint or a removed and     *)
(* recreated host never inherits trust (resolveHostKeyUpdate).               *)
TrustIsDecided ==
  \A r \in issued: r.key # Keep =>
    \E s \in issued:
      /\ s.id = r.id /\ s.rev <= r.rev /\ Vouched(s)
      /\ \A q \in issued: q.id = r.id /\ q.rev \in s.rev..r.rev =>
           q.endpoint = s.endpoint /\ q.key = s.key

(* Whenever the way to reach a host changes or goes, the call that changed   *)
(* it is about to run the hook that revokes connections, tickets and         *)
(* terminals, although it tells a change from the host it read earlier       *)
(* (updateHost, confirmHostTrust, deleteHost).                               *)
ChangesAreTold ==
  [][\A h \in Hosts:
       /\ Present(h)
       /\ ~Present(h)' \/ Connection(hosts'[h]) # Connection(hosts[h])
       => \E c \in Calls: calls'[c] = Hook(h, IF Present(h)' THEN "connection" ELSE "removed")
    ]_allVars
=============================================================================
