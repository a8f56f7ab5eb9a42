-------------------------- MODULE ConnectionManager --------------------------
(***************************************************************************)
(* The SSH connections to one host (host/connection.go) while its          *)
(* registration is edited: pools named by a connection revision, leases on *)
(* them, the control connection that all short commands share, dedicated   *)
(* connections for terminals and files, and Invalidate.  Hosts share only  *)
(* the mutex of the manager, so one host is enough.                        *)
(*                                                                         *)
(* A call is a request with a lease that asks for one connection; what it  *)
(* opens is known by its name.  Between two of its steps the manager's     *)
(* mutex, the pool's mutex or the network intervene.  A request gives up   *)
(* wherever it waits, when its context ends.                               *)
(***************************************************************************)
EXTENDS Naturals, Sequences, FiniteSets

CONSTANTS
  Calls,
  NoCall,          \* a control client or a flight that is not there
  Editors,         \* requests that change or remove the host
  MaxConnections,  \* permits of the semaphore of a pool
  MaxRevision,     \* connection revisions stay at or below this (a bound)
  MaxPools         \* pools that are ever made (a bound)

ASSUME ConnectionAssumption ==
  /\ NoCall \notin Calls
  /\ MaxConnections \in Nat \ {0} /\ MaxRevision \in Nat \ {0} /\ MaxPools \in Nat \ {0}

VARIABLES
  revision,  \* connection revision in the registry, 0 while the host is not there
  used,      \* the largest revision it ever had
  pools,     \* every hostConnPool ever made, in order
  mapped,    \* which of them m.pools has for the host, 0 for none
  closed,    \* ConnectionManager.closed
  calls,
  editors,   \* the revision whose hook an editor still has to run, 0 for none
  gone       \* history: the largest revision whose invalidation has returned

registryVars == <<revision, used>>
connectionVars == <<registryVars, pools, mapped, closed, calls, editors, gone>>

Revisions == 0..MaxRevision

Pool ==
  [rev: Revisions, revoked: BOOLEAN, control: Calls \union {NoCall},
   dedicated: SUBSET Calls, flight: Calls \union {NoCall}, backoff: BOOLEAN]

Call ==
  [pc: {"idle", "lease", "leased", "control", "look", "flight", "create", "dial",
        "pool", "enter", "acquire", "config", "handshake", "install", "insert",
        "hook", "open", "done"},
   kind: {"control", "dedicated"}, rev: Revisions,
   lease: 0..MaxPools, pool: 0..MaxPools, \* on which it was leased, and installs
   dial: 0..MaxPools, permit: BOOLEAN,    \* whose semaphore it uses, and holds
   conn: {"none", "open", "lost", "closed"},
   hooked: BOOLEAN,                       \* onClose is set
   keepalive: {"off", "on", "stop"},      \* keepaliveLoop, and its stop channel
   stale: BOOLEAN]                        \* history: replaced when it set out to dial

NewPool(r) ==
  [rev |-> r, revoked |-> FALSE, control |-> NoCall, dedicated |-> {},
   flight |-> NoCall, backoff |-> FALSE]

NewCall ==
  [pc |-> "idle", kind |-> "control", rev |-> 0, lease |-> 0, pool |-> 0,
   dial |-> 0, permit |-> FALSE, conn |-> "none", hooked |-> FALSE,
   keepalive |-> "off", stale |-> FALSE]

ConnectionInit ==
  /\ revision = 1 /\ used = 1
  /\ pools = <<>> /\ mapped = 0 /\ closed = FALSE
  /\ calls = [u \in Calls |-> NewCall]
  /\ editors = [e \in Editors |-> 0]
  /\ gone = 0

CallAt(u, pc) == calls[u].pc = pc

CallGoto(u, pc) == calls' = [calls EXCEPT ![u].pc = pc]

-----------------------------------------------------------------------------
(* Closing a pool, and finding or replacing it. *)

(* ManagedConn.Close, once: onClose gives the permit back, if it is set. *)
ClosedDedicated(c) ==
  [c EXCEPT !.conn = "closed", !.permit = IF c.hooked THEN FALSE ELSE @]

(* closePoolLocked: the keepalive loop of the control connection is told to  *)
(* stop, every connection the pool knows is closed.                          *)
CallsAfterClosing(p) ==
  [u \in Calls |->
     IF p # 0 /\ u = pools[p].control
     THEN [calls[u] EXCEPT !.conn = "closed", !.keepalive = IF @ = "on" THEN "stop" ELSE @]
     ELSE IF p # 0 /\ u \in pools[p].dedicated THEN ClosedDedicated(calls[u])
     ELSE calls[u]]

PoolsAfterClosing(p) ==
  IF p = 0 THEN pools
  ELSE [pools EXCEPT ![p] = [@ EXCEPT !.revoked = TRUE, !.control = NoCall, !.dedicated = {}]]

(* getPool: found is the pool of revision r, and others what it made of the  *)
(* calls.  A pool of any other revision, older or newer, is closed.          *)
Found(r) == IF mapped # 0 /\ pools[mapped].rev = r THEN mapped ELSE Len(pools) + 1

GetPool(r) ==
  IF Found(r) = mapped
  THEN UNCHANGED <<pools, mapped>>
  ELSE /\ Len(pools) < MaxPools
       /\ pools' = Append(PoolsAfterClosing(mapped), NewPool(r))
       /\ mapped' = Len(pools) + 1

Others(r) == IF Found(r) = mapped THEN calls ELSE CallsAfterClosing(mapped)

-----------------------------------------------------------------------------
(* Lease, and what a lease is asked for. *)

ReadHost(u) ==
  /\ CallAt(u, "idle") /\ revision # 0
  /\ calls' = [calls EXCEPT ![u].pc = "lease", ![u].rev = revision]
  /\ UNCHANGED <<registryVars, pools, mapped, closed, editors, gone>>

Lease(u) ==
  /\ CallAt(u, "lease")
  /\ LET r == calls[u].rev
     IN /\ GetPool(r)
        /\ calls' = [Others(r) EXCEPT ![u].pc = "leased", ![u].lease = Found(r)]
  /\ UNCHANGED <<registryVars, closed, editors, gone>>

(* CheckValid, then GetControl or OpenDedicated. *)
Use(u) ==
  /\ CallAt(u, "leased")
  /\ IF pools[calls[u].lease].revoked THEN CallGoto(u, "done")
     ELSE \/ calls' = [calls EXCEPT ![u].pc = "control"]
          \/ calls' = [calls EXCEPT ![u].pc = "dial", ![u].kind = "dedicated"]
  /\ UNCHANGED <<registryVars, pools, mapped, closed, editors, gone>>

(* getControl *)
GetControl(u) ==
  /\ CallAt(u, "control")
  /\ LET r == calls[u].rev
     IN /\ GetPool(r)
        /\ calls' = [Others(r) EXCEPT ![u].pc = "look", ![u].pool = Found(r)]
  /\ UNCHANGED <<registryVars, closed, editors, gone>>

LookForControl(u) ==
  /\ CallAt(u, "look")
  /\ LET p == pools[calls[u].pool]
     IN CallGoto(u, IF p.revoked \/ p.control # NoCall THEN "done" ELSE "flight")
  /\ UNCHANGED <<registryVars, pools, mapped, closed, editors, gone>>

(* DoChan: whoever finds a flight shares its result and is done here. *)
JoinFlight(u) ==
  /\ CallAt(u, "flight")
  /\ IF pools[calls[u].pool].flight = NoCall
     THEN /\ pools' = [pools EXCEPT ![calls[u].pool].flight = u]
          /\ CallGoto(u, "create")
     ELSE CallGoto(u, "done") /\ UNCHANGED pools
  /\ UNCHANGED <<registryVars, mapped, closed, editors, gone>>

(* The flight is over: DoChan has its result. *)
Landed(u) ==
  [p \in DOMAIN pools |-> IF pools[p].flight = u THEN [pools[p] EXCEPT !.flight = NoCall]
                                               ELSE pools[p]]

(* createControlConnection looks again: an earlier flight may have landed *)
(* between LookForControl and JoinFlight.                                 *)
CreateControl(u) ==
  /\ CallAt(u, "create")
  /\ IF pools[calls[u].pool].control = NoCall
     THEN CallGoto(u, "dial") /\ UNCHANGED pools
     ELSE CallGoto(u, "done") /\ pools' = Landed(u)
  /\ UNCHANGED <<registryVars, mapped, closed, editors, gone>>

-----------------------------------------------------------------------------
(* dialTransport *)

(* Any failure: the permit, if it was taken, is given back. *)
Failed(u) == [calls EXCEPT ![u].pc = "done", ![u].permit = FALSE]

Fail(u) == calls' = Failed(u) /\ pools' = Landed(u)

CheckClosed(u) ==
  /\ CallAt(u, "dial")
  /\ IF closed THEN Fail(u)
     ELSE /\ calls' = [calls EXCEPT ![u].pc = "pool",
                                    ![u].stale = revision # calls[u].rev]
          /\ UNCHANGED pools
  /\ UNCHANGED <<registryVars, mapped, closed, editors, gone>>

DialPool(u) ==
  /\ CallAt(u, "pool")
  /\ LET r == calls[u].rev
     IN /\ GetPool(r)
        /\ calls' = [Others(r) EXCEPT ![u].pc = "enter", ![u].dial = Found(r)]
  /\ UNCHANGED <<registryVars, closed, editors, gone>>

(* Revoked, or backing off. *)
Enter(u) ==
  /\ CallAt(u, "enter")
  /\ LET p == pools[calls[u].dial]
     IN IF p.revoked \/ p.backoff THEN Fail(u) ELSE CallGoto(u, "acquire") /\ UNCHANGED pools
  /\ UNCHANGED <<registryVars, mapped, closed, editors, gone>>

Permits(p) == {u \in Calls: calls[u].dial = p /\ calls[u].permit}

(* The context may end first. *)
Acquire(u) ==
  /\ CallAt(u, "acquire")
  /\ \/ /\ Cardinality(Permits(calls[u].dial)) < MaxConnections
        /\ calls' = [calls EXCEPT ![u].pc = "config", ![u].permit = TRUE]
        /\ UNCHANGED pools
     \/ Fail(u)
  /\ UNCHANGED <<registryVars, mapped, closed, editors, gone>>

(* Mutant of ResolveConfig: whatever the registry has is dialed. *)
ResolveAnyConfig(u) ==
  /\ CallAt(u, "config")
  /\ IF revision # 0 THEN CallGoto(u, "handshake") /\ UNCHANGED pools ELSE Fail(u)
  /\ UNCHANGED <<registryVars, mapped, closed, editors, gone>>

(* Mutant of ResolveConfig: the permit is kept when the revision is not the *)
(* one that was leased.                                                     *)
ResolveConfigHolding(u) ==
  /\ CallAt(u, "config")
  /\ IF revision = calls[u].rev
     THEN CallGoto(u, "handshake") /\ UNCHANGED pools
     ELSE CallGoto(u, "done") /\ pools' = Landed(u)
  /\ UNCHANGED <<registryVars, mapped, closed, editors, gone>>

(* resolveSSHConfig *)
ResolveConfig(u) ==
  /\ CallAt(u, "config")
  /\ \/ /\ revision = calls[u].rev
        /\ CallGoto(u, "handshake") /\ UNCHANGED pools
     \/ /\ revision # calls[u].rev
        /\ Fail(u)
  /\ UNCHANGED <<registryVars, mapped, closed, editors, gone>>

(* dialAndHandshake; a failure is recorded unless the context ended. *)
Handshake(u) ==
  /\ CallAt(u, "handshake")
  /\ \/ /\ calls' = [calls EXCEPT ![u].pc = "install", ![u].conn = "open"]
        /\ pools' = [pools EXCEPT ![calls[u].dial].backoff = FALSE]
     \/ Fail(u)
     \/ /\ calls' = Failed(u)
        /\ pools' = [Landed(u) EXCEPT ![calls[u].dial].backoff = TRUE]
  /\ UNCHANGED <<registryVars, mapped, closed, editors, gone>>

(* The time of the next attempt comes. *)
BackoffEnds ==
  /\ \E p \in DOMAIN pools: pools[p].backoff /\ pools' = [pools EXCEPT ![p].backoff = FALSE]
  /\ UNCHANGED <<registryVars, mapped, closed, calls, editors, gone>>

-----------------------------------------------------------------------------
(* The control connection *)

InstallControl(u) ==
  /\ CallAt(u, "install") /\ calls[u].kind = "control"
  /\ pools' = [Landed(u) EXCEPT ![calls[u].pool].control = u]
  /\ calls' = [calls EXCEPT ![u].pc = "done", ![u].keepalive = "on"]
  /\ UNCHANGED <<registryVars, mapped, closed, editors, gone>>

IsControl(u) == calls[u].pool # 0 /\ pools[calls[u].pool].control = u

Uncontrolled(u) == [pools EXCEPT ![calls[u].pool].control = NoCall]

(* The connection is lost, wherever it is used. *)
Lose(u) ==
  /\ calls[u].conn = "open"
  /\ calls' = [calls EXCEPT ![u].conn = "lost"]
  /\ UNCHANGED <<registryVars, pools, mapped, closed, editors, gone>>

(* client.Wait returns *)
WatchControl(u) ==
  /\ IsControl(u) /\ calls[u].conn \in {"lost", "closed"}
  /\ pools' = Uncontrolled(u)
  /\ calls' = [calls EXCEPT ![u].keepalive = IF @ = "on" THEN "stop" ELSE @]
  /\ UNCHANGED <<registryVars, mapped, closed, editors, gone>>

(* keepaliveLoop is told to stop, or a keepalive fails or is not answered *)
(* in time; either way it gives the permit back.                          *)
KeepaliveStops(u) ==
  /\ calls[u].keepalive = "stop"
  /\ calls' = [calls EXCEPT ![u].keepalive = "off", ![u].permit = FALSE]
  /\ UNCHANGED <<registryVars, pools, mapped, closed, editors, gone>>

KeepaliveFails(u) ==
  /\ calls[u].keepalive # "off"
  /\ pools' = IF IsControl(u) THEN Uncontrolled(u) ELSE pools
  /\ calls' = [calls EXCEPT ![u].keepalive = "off", ![u].permit = FALSE,
                            ![u].conn = IF IsControl(u) THEN "closed" ELSE @]
  /\ UNCHANGED <<registryVars, mapped, closed, editors, gone>>

(* Mutant of InvalidateControl: the pool forgets the connection, which is *)
(* left to whoever uses it.                                               *)
ForgetControl(u) ==
  /\ IsControl(u) /\ calls[u].pool = mapped
  /\ pools' = Uncontrolled(u)
  /\ calls' = [calls EXCEPT ![u].keepalive = IF @ = "on" THEN "stop" ELSE @]
  /\ UNCHANGED <<registryVars, mapped, closed, editors, gone>>

(* Sessions give up a control connection a command failed on. *)
InvalidateControl(u) ==
  /\ IsControl(u) /\ calls[u].pool = mapped
  /\ pools' = Uncontrolled(u)
  /\ calls' = [calls EXCEPT ![u].conn = "closed", ![u].keepalive = IF @ = "on" THEN "stop" ELSE @]
  /\ UNCHANGED <<registryVars, mapped, closed, editors, gone>>

-----------------------------------------------------------------------------
(* Dedicated connections: dialDedicated asks for the pool once more. *)

DedicatedPool(u) ==
  /\ CallAt(u, "install") /\ calls[u].kind = "dedicated"
  /\ LET r == calls[u].rev
     IN /\ GetPool(r)
        /\ calls' = [Others(r) EXCEPT ![u].pc = "insert", ![u].pool = Found(r)]
  /\ UNCHANGED <<registryVars, closed, editors, gone>>

Insert(u) ==
  /\ CallAt(u, "insert")
  /\ pools' = [pools EXCEPT ![calls[u].pool].dedicated = @ \union {u}]
  /\ CallGoto(u, "hook")
  /\ UNCHANGED <<registryVars, mapped, closed, editors, gone>>

(* onClose is set after the pool knows the connection. *)
SetOnClose(u) ==
  /\ CallAt(u, "hook")
  /\ calls' = [calls EXCEPT ![u].pc = "open", ![u].hooked = TRUE]
  /\ UNCHANGED <<registryVars, pools, mapped, closed, editors, gone>>

(* Close, by its user or the end of the context.  What the pool has closed *)
(* already is not closed again.                                            *)
CloseDedicated(u) ==
  /\ CallAt(u, "open")
  /\ IF calls[u].conn = "closed" THEN CallGoto(u, "done") /\ UNCHANGED pools
     ELSE /\ calls' = [calls EXCEPT ![u] = [ClosedDedicated(@) EXCEPT !.pc = "done"]]
          /\ pools' = [pools EXCEPT ![calls[u].pool].dedicated = @ \ {u}]
  /\ UNCHANGED <<registryVars, mapped, closed, editors, gone>>

-----------------------------------------------------------------------------
(* The registry, the hook, and the end. *)

Register ==
  /\ revision = 0 /\ used < MaxRevision
  /\ revision' = used + 1 /\ used' = used + 1
  /\ UNCHANGED <<pools, mapped, closed, calls, editors, gone>>

(* A committed update of the connection, or a removal. *)
ChangeHost(e) ==
  /\ editors[e] = 0 /\ revision # 0
  /\ editors' = [editors EXCEPT ![e] = revision]
  /\ \/ used < MaxRevision /\ revision' = used + 1 /\ used' = used + 1
     \/ revision' = 0 /\ UNCHANGED used
  /\ UNCHANGED <<pools, mapped, closed, calls, gone>>

Invalidate(e) ==
  /\ editors[e] # 0
  /\ calls' = CallsAfterClosing(mapped)
  /\ pools' = PoolsAfterClosing(mapped)
  /\ mapped' = 0
  /\ gone' = IF gone < editors[e] THEN editors[e] ELSE gone
  /\ editors' = [editors EXCEPT ![e] = 0]
  /\ UNCHANGED <<registryVars, closed>>

(* ConnectionManager.Close *)
CloseManager ==
  /\ ~closed
  /\ closed' = TRUE
  /\ calls' = CallsAfterClosing(mapped)
  /\ pools' = PoolsAfterClosing(mapped)
  /\ mapped' = 0
  /\ UNCHANGED <<registryVars, editors, gone>>

(* What goroutines do of themselves. *)
RunCall(u) ==
  \/ Lease(u) \/ Use(u)
  \/ GetControl(u) \/ LookForControl(u) \/ JoinFlight(u) \/ CreateControl(u)
  \/ CheckClosed(u) \/ DialPool(u) \/ Enter(u) \/ Acquire(u) \/ ResolveConfig(u)
  \/ Handshake(u) \/ InstallControl(u)
  \/ DedicatedPool(u) \/ Insert(u) \/ SetOnClose(u)

Watch(u) == WatchControl(u) \/ KeepaliveStops(u)

ConnectionNext ==
  \/ \E u \in Calls:
       \/ ReadHost(u) \/ RunCall(u) \/ Watch(u)
       \/ Lose(u) \/ KeepaliveFails(u) \/ InvalidateControl(u) \/ CloseDedicated(u)
  \/ BackoffEnds \/ Register
  \/ \E e \in Editors: ChangeHost(e) \/ Invalidate(e)
  \/ CloseManager

ConnectionSpec == ConnectionInit /\ [][ConnectionNext]_connectionVars

(* Goroutines run on; connections need not be lost nor keepalives fail. *)
ConnectionFairSpec ==
  /\ ConnectionSpec
  /\ \A u \in Calls: WF_connectionVars(RunCall(u)) /\ WF_connectionVars(Watch(u))
  /\ \A e \in Editors: WF_connectionVars(Invalidate(e))

-----------------------------------------------------------------------------
(* Type invariant: whatever a call is about to use exists.                   *)
ConnectionTypeOK ==
  /\ revision \in Revisions /\ used \in Revisions /\ gone \in Revisions
  /\ pools \in Seq(Pool) /\ Len(pools) <= MaxPools
  /\ mapped \in 0..Len(pools) /\ closed \in BOOLEAN
  /\ calls \in [Calls -> Call]
  /\ \A u \in Calls: {calls[u].lease, calls[u].pool, calls[u].dial} \subseteq 0..Len(pools)
  /\ editors \in [Editors -> Revisions]

Live(u) == calls[u].conn = "open" /\ calls[u].pc \notin {"install", "insert"}

(* Of a pool that is not revoked, every open connection is one it knows, so  *)
(* that replacing it closes it: there is never a second control connection.  *)
NothingUntracked ==
  \A u \in Calls:
    LET p == calls[u].pool
    IN Live(u) /\ ~pools[p].revoked =>
         u = pools[p].control \/ u \in pools[p].dedicated

(* A call that is over holds a permit of a pool in use only for a control    *)
(* connection that is still looked after: however dialing failed and whoever *)
(* closed the connection, no permit is lost.                                 *)
PermitsComeBack ==
  \A u \in Calls:
    CallAt(u, "done") /\ calls[u].permit /\ ~pools[calls[u].dial].revoked =>
      calls[u].keepalive # "off"

(* A call whose lease had been replaced before it set out to dial does not   *)
(* get a connection, to the old or to the new address.                       *)
StaleLeaseNeverConnects == \A u \in Calls: calls[u].stale => calls[u].conn = "none"

(* Invalidate closes all connections of the host: the control connection of *)
(* a revision whose invalidation has returned does not stay open.            *)
InvalidatedControlCloses ==
  \A u \in Calls:
    (calls[u].kind = "control" /\ calls[u].conn = "open" /\ calls[u].rev <= gone)
      ~> calls[u].conn # "open"
=============================================================================
