----------------------- MODULE ConnectionManagerProofs -----------------------
(***************************************************************************)
(* Proofs about the SSH connections to a host, for any calls, editors,     *)
(* permits, revisions and pools.  The invariant says of a call what its    *)
(* place in the code means for its connection and its permit, and what the *)
(* pools it was given know of it; of the pools, that the mapped one is the *)
(* only one that is not revoked.                                           *)
(***************************************************************************)
EXTENDS ConnectionManager, SequenceTheorems, TLAPS

Early == {"idle", "lease", "leased", "control", "look", "flight", "create"}
Dialing == {"dial", "pool", "enter", "acquire", "config", "handshake", "install"}
Connected == {"insert", "hook", "open"}

(* createControlConnection, which the calls of one pool run one at a time.   *)
Flies(c) == c.kind = "control" /\ (c.pc = "create" \/ c.pc \in Dialing)

(* What the place of a call says about its other fields. *)
PlaceOK(c) ==
  /\ c.pc # "idle" => c.rev # 0
  /\ c.pc \in Early => c.kind = "control" /\ c.dial = 0 /\ ~c.stale
  /\ c.pc \in Connected => c.kind = "dedicated" /\ c.pool # 0
  /\ Flies(c) \/ c.pc \in {"look", "flight"} => c.pool # 0
  /\ c.pc \in Connected \union {"enter", "acquire", "config", "handshake", "install"} =>
       c.dial # 0
  /\ c.permit => c.dial # 0 /\ c.pc \in Connected \union {"config", "handshake", "install", "done"}
  /\ c.conn # "none" => c.pc \in Connected \union {"install", "done"}
  /\ c.pc \in Connected \union {"install"} => c.conn # "none"
  /\ c.pc \in {"install", "insert"} => c.conn # "closed"
  /\ c.pc = "open" => c.hooked
  /\ c.keepalive # "off" => c.kind = "control" /\ c.pc = "done"
  /\ c.kind = "control" /\ c.pc = "done" /\ c.permit => c.keepalive # "off"
  /\ c.stale => c.conn = "none"

(* What pools knows of the call u, when it is c.  A dedicated connection that *)
(* kept its permit when it was closed was closed, with the pool it dialed     *)
(* through, before its onClose was set.                                       *)
PoolsKnow(u, c, ps) ==
  /\ c.dial # 0 => ps[c.dial].rev = c.rev
  /\ Flies(c) => ps[c.pool].flight = u /\ (c.pc # "create" => ps[c.pool].control = NoCall)
  /\ c.conn = "open" /\ c.pc \in {"hook", "open", "done"} =>
       /\ c.pool # 0
       /\ ps[c.pool].revoked \/ u = ps[c.pool].control \/ u \in ps[c.pool].dedicated
  /\ c.pc \in Connected => c.pool = c.dial \/ ps[c.dial].revoked
  /\ c.kind = "dedicated" /\ c.permit /\ (c.conn = "closed" \/ c.pc = "done") =>
       ps[c.dial].revoked
  /\ \A p \in 1..Len(ps): ps[p].control = u =>
       c.kind = "control" /\ c.pc = "done" /\ c.pool = p /\ c.conn # "none"
  /\ \A p \in 1..Len(ps): u \in ps[p].dedicated =>
       c.pc \in {"hook", "open"} /\ c.pool = p /\ c.conn # "closed"

CallOK(u, c, ps) == PlaceOK(c) /\ PoolsKnow(u, c, ps)

(* A call that was too old when it set out to dial stays too old. *)
RegistryOK(c) ==
  /\ c.rev <= used
  /\ c.stale => c.rev # revision /\ c.pc # "handshake"

OneInUse == \A p \in 1..Len(pools): pools[p].revoked <=> p # mapped

IInv ==
  /\ ConnectionTypeOK /\ revision <= used
  /\ OneInUse
  /\ \A u \in Calls: CallOK(u, calls[u], pools) /\ RegistryOK(calls[u])

-----------------------------------------------------------------------------
(* Sequences of pools: setting one, adding one, ending a flight. *)

LEMMA FunctionIsSeq ==
  ASSUME NEW n \in Nat, NEW f \in [1..n -> Pool]
  PROVE  f \in Seq(Pool) /\ Len(f) = n
  BY SeqDef, LenProperties

LEMMA AddPool ==
  ASSUME NEW ps \in Seq(Pool), NEW r \in Pool
  PROVE  /\ Append(ps, r) \in Seq(Pool) /\ Len(Append(ps, r)) = Len(ps) + 1
         /\ \A q \in 1..Len(ps): Append(ps, r)[q] = ps[q]
         /\ Append(ps, r)[Len(ps) + 1] = r
  BY AppendProperties

(* What Landed(u) leaves of a pool. *)
LEMMA LandedFacts ==
  ASSUME pools \in Seq(Pool), NEW u \in Calls
  PROVE  /\ Landed(u) \in Seq(Pool) /\ Len(Landed(u)) = Len(pools)
         /\ \A p \in 1..Len(pools):
              LET r == Landed(u)[p]
              IN /\ r.rev = pools[p].rev /\ r.revoked = pools[p].revoked
                 /\ r.control = pools[p].control /\ r.dedicated = pools[p].dedicated
                 /\ r.backoff = pools[p].backoff
                 /\ r.flight = IF pools[p].flight = u THEN NoCall ELSE pools[p].flight
<1>1. Len(pools) \in Nat /\ pools \in [1..Len(pools) -> Pool] /\ DOMAIN pools = 1..Len(pools)
  BY LenProperties
<1>2. \A r \in Pool: [r EXCEPT !.flight = NoCall] \in Pool
  BY DEF Pool
<1>3. Landed(u) \in [1..Len(pools) -> Pool]
  BY <1>1, <1>2 DEF Landed
<1>4. ASSUME NEW p \in 1..Len(pools)
      PROVE  LET r == Landed(u)[p]
             IN /\ r.rev = pools[p].rev /\ r.revoked = pools[p].revoked
                /\ r.control = pools[p].control /\ r.dedicated = pools[p].dedicated
                /\ r.backoff = pools[p].backoff
                /\ r.flight = IF pools[p].flight = u THEN NoCall ELSE pools[p].flight
  <2>1. pools[p] \in Pool
    BY <1>1
  <2>2. Landed(u)[p] = IF pools[p].flight = u THEN [pools[p] EXCEPT !.flight = NoCall]
                       ELSE pools[p]
    BY <1>1 DEF Landed
  <2> QED
    BY <2>1, <2>2 DEF Pool
<1> QED
  BY <1>1, <1>3, <1>4, FunctionIsSeq

(* What closing leaves of a call with a dedicated or a control connection.   *)
SamePlace(d, c) ==
  /\ d.pc = c.pc /\ d.kind = c.kind /\ d.rev = c.rev /\ d.lease = c.lease /\ d.pool = c.pool
  /\ d.dial = c.dial /\ d.hooked = c.hooked /\ d.stale = c.stale

LEMMA ClosedDedicatedFields ==
  ASSUME NEW c \in Call
  PROVE  LET d == ClosedDedicated(c)
         IN /\ d \in Call /\ SamePlace(d, c)
            /\ d.conn = "closed" /\ d.keepalive = c.keepalive
            /\ d.permit <=> c.permit /\ ~c.hooked
<1>1. PICK b \in BOOLEAN: b = IF c.hooked THEN FALSE ELSE c.permit
  BY DEF Call
<1>2. PICK d: d = [c EXCEPT !.conn = "closed", !.permit = b]
  OBVIOUS
<1>3. ClosedDedicated(c) = d
  BY <1>1, <1>2 DEF ClosedDedicated
<1>4. d \in Call
  BY <1>2, ZenonT(30) DEF Call
<1>5. SamePlace(d, c) /\ d.conn = "closed" /\ d.keepalive = c.keepalive /\ d.permit = b
  BY <1>2 DEF SamePlace, Call
<1> QED
  BY <1>1, <1>3, <1>4, <1>5

LEMMA ClosedControlFields ==
  ASSUME NEW c \in Call
  PROVE  LET d == [c EXCEPT !.conn = "closed", !.keepalive = IF @ = "on" THEN "stop" ELSE @]
         IN /\ d \in Call /\ SamePlace(d, c)
            /\ d.conn = "closed" /\ d.permit = c.permit
            /\ d.keepalive = IF c.keepalive = "on" THEN "stop" ELSE c.keepalive
<1>1. PICK k \in {"off", "on", "stop"}: k = IF c.keepalive = "on" THEN "stop" ELSE c.keepalive
  BY DEF Call
<1>2. PICK d: d = [c EXCEPT !.conn = "closed", !.keepalive = k]
  OBVIOUS
<1>3. d \in Call
  BY <1>2, ZenonT(30) DEF Call
<1>4. SamePlace(d, c) /\ d.conn = "closed" /\ d.permit = c.permit /\ d.keepalive = k
  BY <1>2 DEF SamePlace, Call
<1> QED
  BY <1>1, <1>2, <1>3, <1>4

(* closePoolLocked, of the pool and of the calls it knows. *)
LEMMA ClosingFacts ==
  ASSUME pools \in Seq(Pool), calls \in [Calls -> Call], mapped \in 0..Len(pools)
  PROVE  /\ PoolsAfterClosing(mapped) \in Seq(Pool)
         /\ Len(PoolsAfterClosing(mapped)) = Len(pools)
         /\ \A p \in 1..Len(pools):
              LET r == PoolsAfterClosing(mapped)[p]
              IN IF p = mapped
                 THEN /\ r.rev = pools[p].rev /\ r.revoked /\ r.control = NoCall
                      /\ r.dedicated = {} /\ r.flight = pools[p].flight
                 ELSE r = pools[p]
         /\ CallsAfterClosing(mapped) \in [Calls -> Call]
<1>1. Len(pools) \in Nat /\ pools \in [1..Len(pools) -> Pool]
  BY LenProperties
<1>2. \A r \in Pool: [r EXCEPT !.revoked = TRUE, !.control = NoCall, !.dedicated = {}] \in Pool
  BY DEF Pool
<1>3. CASE mapped = 0
  BY <1>1, <1>3 DEF PoolsAfterClosing, CallsAfterClosing
<1>4. CASE mapped # 0
  <2>1. mapped \in 1..Len(pools) /\ pools[mapped] \in Pool
    BY <1>1, <1>4
  <2>2. PICK r \in Pool:
          r = [pools[mapped] EXCEPT !.revoked = TRUE, !.control = NoCall, !.dedicated = {}]
    BY <1>2, <2>1
  <2>3. /\ r.rev = pools[mapped].rev /\ r.revoked /\ r.control = NoCall
        /\ r.dedicated = {} /\ r.flight = pools[mapped].flight
    BY <2>1, <2>2 DEF Pool
  <2>4. PoolsAfterClosing(mapped) = [pools EXCEPT ![mapped] = r]
    BY <1>4, <2>2 DEF PoolsAfterClosing
  <2>5. \A c \in Call:
          /\ ClosedDedicated(c) \in Call
          /\ [c EXCEPT !.conn = "closed",
                       !.keepalive = IF @ = "on" THEN "stop" ELSE @] \in Call
    BY ClosedDedicatedFields, ClosedControlFields
  <2>6. CallsAfterClosing(mapped) \in [Calls -> Call]
    BY <2>5 DEF CallsAfterClosing
  <2> QED
    BY <2>1, <2>3, <2>4, <2>6, ExceptSeq
<1> QED
  BY <1>3, <1>4

LEMMA ClosedCalls ==
  ASSUME pools \in Seq(Pool), calls \in [Calls -> Call], mapped \in 0..Len(pools), NEW v \in Calls
  PROVE  LET d == CallsAfterClosing(mapped)[v]
             c == calls[v]
         IN /\ SamePlace(d, c)
            /\ \/ /\ mapped # 0 /\ v = pools[mapped].control
                  /\ d.conn = "closed" /\ d.permit = c.permit
                  /\ d.keepalive = IF c.keepalive = "on" THEN "stop" ELSE c.keepalive
               \/ /\ mapped # 0 /\ v # pools[mapped].control /\ v \in pools[mapped].dedicated
                  /\ d.conn = "closed" /\ d.keepalive = c.keepalive
                  /\ d.permit <=> c.permit /\ ~c.hooked
               \/ /\ mapped = 0 \/ (v # pools[mapped].control /\ v \notin pools[mapped].dedicated)
                  /\ d = c
<1>1. calls[v] \in Call
  OBVIOUS
<1>2. CASE mapped # 0 /\ v = pools[mapped].control
  <2>1. CallsAfterClosing(mapped)[v] =
          [calls[v] EXCEPT !.conn = "closed", !.keepalive = IF @ = "on" THEN "stop" ELSE @]
    BY <1>2 DEF CallsAfterClosing
  <2>2. LET d == CallsAfterClosing(mapped)[v]
        IN /\ SamePlace(d, calls[v]) /\ d.conn = "closed" /\ d.permit = calls[v].permit
           /\ d.keepalive = IF calls[v].keepalive = "on" THEN "stop" ELSE calls[v].keepalive
    BY <1>1, <2>1, ClosedControlFields
  <2> QED
    BY <1>2, <2>2
<1>3. CASE mapped # 0 /\ v # pools[mapped].control /\ v \in pools[mapped].dedicated
  <2>1. CallsAfterClosing(mapped)[v] = ClosedDedicated(calls[v])
    BY <1>3 DEF CallsAfterClosing
  <2>2. LET d == CallsAfterClosing(mapped)[v]
        IN /\ SamePlace(d, calls[v]) /\ d.conn = "closed" /\ d.keepalive = calls[v].keepalive
           /\ d.permit <=> calls[v].permit /\ ~calls[v].hooked
    BY <1>1, <2>1, ClosedDedicatedFields
  <2> QED
    BY <1>3, <2>2
<1>4. CASE mapped = 0 \/ (v # pools[mapped].control /\ v \notin pools[mapped].dedicated)
  <2>1. CallsAfterClosing(mapped)[v] = calls[v]
    BY <1>4 DEF CallsAfterClosing
  <2> QED
    BY <1>4, <2>1 DEF SamePlace
<1> QED
  BY <1>2, <1>3, <1>4

(* The types a proof about one call needs. *)
LEMMA Typed ==
  ASSUME ConnectionTypeOK
  PROVE  /\ pools \in Seq(Pool) /\ calls \in [Calls -> Call] /\ Len(pools) \in Nat
         /\ mapped \in 0..Len(pools) /\ pools \in [1..Len(pools) -> Pool]
         /\ DOMAIN pools = 1..Len(pools)
         /\ \A u \in Calls: /\ calls[u].lease \in 0..Len(pools)
                            /\ calls[u].pool \in 0..Len(pools) /\ calls[u].dial \in 0..Len(pools)
  BY LenProperties DEF ConnectionTypeOK

(* closePoolLocked keeps what pools and calls know of each other. *)
LEMMA ClosingKeeps ==
  ASSUME ConnectionTypeOK, NEW v \in Calls, CallOK(v, calls[v], pools)
  PROVE  CallOK(v, CallsAfterClosing(mapped)[v], PoolsAfterClosing(mapped))
<1> DEFINE c == calls[v]
           d == CallsAfterClosing(mapped)[v]
           ps == PoolsAfterClosing(mapped)
<1>1. /\ Len(ps) = Len(pools) /\ mapped \in 0..Len(pools) /\ Len(pools) \in Nat
      /\ c.pool \in 0..Len(pools) /\ c.dial \in 0..Len(pools) /\ NoCall \notin Calls
      /\ \A p \in 1..Len(pools):
           IF p = mapped
           THEN /\ ps[p].rev = pools[p].rev /\ ps[p].revoked /\ ps[p].control = NoCall
                /\ ps[p].dedicated = {} /\ ps[p].flight = pools[p].flight
           ELSE ps[p] = pools[p]
  BY Typed, ClosingFacts, ConnectionAssumption
<1>2. /\ SamePlace(d, c)
      /\ \/ /\ mapped # 0 /\ v = pools[mapped].control
            /\ d.conn = "closed" /\ d.permit = c.permit
            /\ d.keepalive = IF c.keepalive = "on" THEN "stop" ELSE c.keepalive
         \/ /\ mapped # 0 /\ v # pools[mapped].control /\ v \in pools[mapped].dedicated
            /\ d.conn = "closed" /\ d.keepalive = c.keepalive
            /\ d.permit <=> c.permit /\ ~c.hooked
         \/ /\ mapped = 0 \/ (v # pools[mapped].control /\ v \notin pools[mapped].dedicated)
            /\ d = c
  BY Typed, ClosedCalls
<1>3. PlaceOK(c) /\ PoolsKnow(v, c, pools)
  BY DEF CallOK
<1> HIDE DEF c, d, ps
<1>4. CASE mapped # 0 /\ v = pools[mapped].control
  <2>1. c.kind = "control" /\ c.pc = "done" /\ c.pool = mapped /\ c.conn # "none"
    BY <1>1, <1>3, <1>4 DEF PoolsKnow
  <2>2. PlaceOK(d)
    BY <1>2, <1>3, <1>4, <2>1 DEF PlaceOK, SamePlace, Flies, Early, Dialing, Connected
  <2>3. PoolsKnow(v, d, ps)
    BY <1>1, <1>2, <1>3, <1>4, <2>1 DEF PoolsKnow, SamePlace, Flies, Dialing, Connected
  <2> QED
    BY <2>2, <2>3 DEF CallOK, c, d, ps
<1>5. CASE mapped # 0 /\ v # pools[mapped].control /\ v \in pools[mapped].dedicated
  <2>1. c.kind = "dedicated" /\ c.pc \in {"hook", "open"} /\ c.pool = mapped
    BY <1>1, <1>3, <1>5 DEF PoolsKnow, PlaceOK, Connected
  <2>2. PlaceOK(d)
    BY <1>2, <1>3, <1>5, <2>1 DEF PlaceOK, SamePlace, Flies, Early, Dialing, Connected
  <2>3. PoolsKnow(v, d, ps)
    BY <1>1, <1>2, <1>3, <1>5, <2>1 DEF PlaceOK, PoolsKnow, SamePlace, Flies, Dialing, Connected
  <2> QED
    BY <2>2, <2>3 DEF CallOK, c, d, ps
<1>6. CASE /\ mapped = 0 \/ (v # pools[mapped].control /\ v \notin pools[mapped].dedicated)
           /\ d = c
  <2>1. PoolsKnow(v, c, ps)
    BY <1>1, <1>3, <1>6 DEF PlaceOK, PoolsKnow, Flies, Dialing, Connected
  <2> QED
    BY <1>3, <1>6, <2>1 DEF CallOK, c, d, ps
<1> QED
  BY <1>2, <1>4, <1>5, <1>6

(* A pool that knows no call yet changes nothing for any call. *)
LEMMA AddingKeeps ==
  ASSUME NEW n \in Nat, NEW ps, NEW qs, Len(ps) = n, Len(qs) = n + 1,
         \A p \in 1..n: qs[p] = ps[p], qs[n + 1].control = NoCall, qs[n + 1].dedicated = {},
         NEW u, u # NoCall, NEW c, c.pool \in 0..n, c.dial \in 0..n,
         PlaceOK(c), PoolsKnow(u, c, ps)
  PROVE  PoolsKnow(u, c, qs)
<1>1. \A p \in 1..Len(qs): p \in 1..n \/ p = n + 1
  OBVIOUS
<1>2. /\ c.dial # 0 => qs[c.dial] = ps[c.dial]
      /\ c.pool # 0 => qs[c.pool] = ps[c.pool]
  OBVIOUS
<1>3. /\ Flies(c) => c.pool # 0
      /\ c.pc \in Connected => c.dial # 0
      /\ c.permit => c.dial # 0
  BY DEF PlaceOK, Connected
<1>4. /\ \A p \in 1..Len(qs): qs[p].control = u => p \in 1..n
      /\ \A p \in 1..Len(qs): u \in qs[p].dedicated => p \in 1..n
  BY <1>1
<1> QED
  BY <1>2, <1>3, <1>4 DEF PoolsKnow

(* getPool: the pool it returns is the mapped one, and the only one in use.  *)
LEMMA GotPool ==
  ASSUME IInv, NEW r \in Revisions, GetPool(r)
  PROVE  /\ pools' \in Seq(Pool) /\ Len(pools') <= MaxPools /\ Len(pools) <= Len(pools')
         /\ Found(r) = mapped' /\ mapped' \in 1..Len(pools') /\ pools'[mapped'].rev = r
         /\ OneInUse'
         /\ Others(r) \in [Calls -> Call]
         /\ \A v \in Calls:
              /\ SamePlace(Others(r)[v], calls[v])
              /\ CallOK(v, Others(r)[v], pools')
              /\ calls[v].pc \notin {"hook", "open", "done"} => Others(r)[v] = calls[v]
<1>1. /\ pools \in Seq(Pool) /\ calls \in [Calls -> Call] /\ Len(pools) \in Nat
      /\ mapped \in 0..Len(pools) /\ ConnectionTypeOK /\ OneInUse /\ Len(pools) <= MaxPools
      /\ \A v \in Calls: CallOK(v, calls[v], pools)
  BY Typed DEF IInv, ConnectionTypeOK
<1>2. CASE Found(r) = mapped
  <2>1. pools' = pools /\ mapped' = mapped /\ Others(r) = calls
    BY <1>2 DEF GetPool, Others
  <2>2. mapped # 0 /\ pools[mapped].rev = r
    BY <1>1, <1>2 DEF Found
  <2> QED
    BY <1>1, <1>2, <2>1, <2>2 DEF SamePlace, OneInUse
<1>3. CASE Found(r) # mapped
  <2> DEFINE ps == PoolsAfterClosing(mapped)
  <2>1. /\ Len(pools) < MaxPools /\ pools' = Append(ps, NewPool(r))
        /\ mapped' = Len(pools) + 1 /\ Others(r) = CallsAfterClosing(mapped)
        /\ Found(r) = Len(pools) + 1
    BY <1>3 DEF GetPool, Others, Found
  <2>2. /\ ps \in Seq(Pool) /\ Len(ps) = Len(pools)
        /\ \A p \in 1..Len(pools):
             IF p = mapped
             THEN /\ ps[p].rev = pools[p].rev /\ ps[p].revoked /\ ps[p].control = NoCall
                  /\ ps[p].dedicated = {} /\ ps[p].flight = pools[p].flight
             ELSE ps[p] = pools[p]
        /\ CallsAfterClosing(mapped) \in [Calls -> Call]
    BY <1>1, ClosingFacts
  <2>3. /\ NewPool(r) \in Pool /\ NewPool(r).rev = r /\ ~NewPool(r).revoked
        /\ NewPool(r).control = NoCall /\ NewPool(r).dedicated = {}
    BY DEF NewPool, Pool
  <2>4. /\ pools' \in Seq(Pool) /\ Len(pools') = Len(pools) + 1
        /\ \A q \in 1..Len(pools): pools'[q] = ps[q]
        /\ pools'[Len(pools) + 1] = NewPool(r)
    BY <2>1, <2>2, <2>3, AddPool
  <2> HIDE DEF ps
  <2>5. OneInUse'
    BY <1>1, <2>1, <2>2, <2>3, <2>4 DEF OneInUse
  <2>6. ASSUME NEW v \in Calls
        PROVE  /\ SamePlace(Others(r)[v], calls[v])
               /\ CallOK(v, Others(r)[v], pools')
               /\ calls[v].pc \notin {"hook", "open", "done"} => Others(r)[v] = calls[v]
    <3> DEFINE d == CallsAfterClosing(mapped)[v]
    <3>1. SamePlace(d, calls[v])
      BY <1>1, ClosedCalls
    <3>2. d = calls[v] \/ (mapped # 0 /\ v = pools[mapped].control)
          \/ (mapped # 0 /\ v \in pools[mapped].dedicated)
      BY <1>1, ClosedCalls
    <3>3. calls[v].pc \notin {"hook", "open", "done"} => d = calls[v]
      BY <1>1, <3>2 DEF CallOK, PoolsKnow
    <3>4. PlaceOK(d) /\ PoolsKnow(v, d, ps)
      BY <1>1, ClosingKeeps DEF CallOK, ps
    <3>5. d.pool \in 0..Len(pools) /\ d.dial \in 0..Len(pools) /\ NoCall \notin Calls
      BY <1>1, <3>1, Typed, ConnectionAssumption DEF SamePlace
    <3> HIDE DEF d
    <3>6. PoolsKnow(v, d, pools')
      BY <1>1, <2>2, <2>3, <2>4, <3>4, <3>5, AddingKeeps
    <3> QED
      BY <2>1, <3>1, <3>3, <3>4, <3>6 DEF CallOK, d
  <2> QED
    BY <1>1, <2>1, <2>2, <2>3, <2>4, <2>5, <2>6, ConnectionAssumption
<1> QED
  BY <1>2, <1>3

-----------------------------------------------------------------------------
(* What the steps of other calls leave of what concerns the call v: a flight *)
(* of another call may end or start, another control connection come or go.  *)
Untouched(v) ==
  /\ calls'[v] = calls[v] /\ Len(pools') = Len(pools)
  /\ \A p \in 1..Len(pools):
       /\ pools'[p].rev = pools[p].rev /\ pools'[p].revoked = pools[p].revoked
       /\ pools[p].flight = v => pools'[p].flight = v
       /\ pools[p].flight = v /\ pools[p].control = NoCall => pools'[p].control = NoCall
       /\ pools'[p].control = v <=> pools[p].control = v
       /\ v \in pools'[p].dedicated <=> v \in pools[p].dedicated

LEMMA UntouchedKept ==
  ASSUME ConnectionTypeOK, NEW v \in Calls, CallOK(v, calls[v], pools), Untouched(v)
  PROVE  CallOK(v, calls'[v], pools')
<1>1. /\ calls[v].pool \in 0..Len(pools) /\ calls[v].dial \in 0..Len(pools) /\ Len(pools) \in Nat
  BY Typed
<1>2. PlaceOK(calls[v]) /\ PoolsKnow(v, calls[v], pools)
  BY DEF CallOK
<1>3. /\ Flies(calls[v]) => calls[v].pool # 0
      /\ calls[v].pc \in Connected => calls[v].dial # 0
      /\ calls[v].permit => calls[v].dial # 0
  BY <1>2 DEF PlaceOK, Connected
<1> QED
  BY <1>1, <1>2, <1>3 DEF Untouched, PoolsKnow, CallOK

Rest == UNCHANGED <<registryVars, closed, editors, gone>>

(* A step of u that looks its pool up. *)
LEMMA LookedUp ==
  ASSUME IInv, NEW u \in Calls, GetPool(calls[u].rev), NEW d \in Call,
         calls' = [Others(calls[u].rev) EXCEPT ![u] = d],
         {d.lease, d.pool, d.dial} \subseteq 0..Len(pools'),
         CallOK(u, d, pools'), RegistryOK(d), Rest
  PROVE  IInv'
<1> DEFINE r == calls[u].rev
<1>1. calls[u] \in Call /\ r \in Revisions
  BY DEF IInv, ConnectionTypeOK, Call
<1>2. /\ pools' \in Seq(Pool) /\ Len(pools') <= MaxPools /\ Len(pools) <= Len(pools')
      /\ mapped' \in 1..Len(pools') /\ OneInUse' /\ Others(r) \in [Calls -> Call]
      /\ \A v \in Calls: SamePlace(Others(r)[v], calls[v]) /\ CallOK(v, Others(r)[v], pools')
  BY <1>1, GotPool
<1>3. \A v \in Calls: calls[v].lease \in 0..Len(pools) /\ calls[v].pool \in 0..Len(pools)
                      /\ calls[v].dial \in 0..Len(pools) /\ Len(pools) \in Nat
  BY Typed DEF IInv
<1>4. Len(pools') \in Nat
  BY <1>2, LenProperties
<1> HIDE DEF r
<1>5. /\ calls' \in [Calls -> Call] /\ calls'[u] = d
      /\ \A v \in Calls \ {u}: calls'[v] = Others(r)[v]
  BY <1>2 DEF r
<1>6. \A v \in Calls: CallOK(v, calls[v], pools)'
  BY <1>2, <1>5
<1>7. \A v \in Calls: {calls'[v].lease, calls'[v].pool, calls'[v].dial} \subseteq 0..Len(pools')
  <2>1. ASSUME NEW v \in Calls \ {u}
        PROVE  {calls'[v].lease, calls'[v].pool, calls'[v].dial} \subseteq 0..Len(pools')
    <3>1. /\ calls'[v].lease = calls[v].lease /\ calls'[v].pool = calls[v].pool
          /\ calls'[v].dial = calls[v].dial
      BY <1>2, <1>5 DEF SamePlace
    <3> QED
      BY <1>2, <1>3, <1>4, <3>1
  <2> QED
    BY <1>5, <2>1
<1>8. \A v \in Calls: RegistryOK(calls[v])'
  <2>1. used' = used /\ revision' = revision /\ \A v \in Calls: RegistryOK(calls[v])
    BY DEF Rest, registryVars, IInv
  <2>2. ASSUME NEW v \in Calls \ {u} PROVE RegistryOK(calls[v])'
    BY <1>2, <1>5, <2>1 DEF RegistryOK, SamePlace
  <2> QED
    BY <1>5, <2>1, <2>2 DEF RegistryOK
<1>9. /\ mapped' \in 0..Len(pools')
      /\ revision' \in Revisions /\ used' \in Revisions /\ gone' \in Revisions
      /\ closed' \in BOOLEAN /\ editors' \in [Editors -> Revisions] /\ revision' <= used'
  BY <1>2, <1>4 DEF Rest, registryVars, IInv, ConnectionTypeOK
<1> QED
  BY <1>2, <1>5, <1>6, <1>7, <1>8, <1>9 DEF IInv, ConnectionTypeOK

(* A step of u within the pools there are. *)
LEMMA Within ==
  ASSUME IInv, NEW u \in Calls, NEW d \in Call, calls' = [calls EXCEPT ![u] = d],
         {d.lease, d.pool, d.dial} \subseteq 0..Len(pools),
         pools' \in Seq(Pool), Len(pools') = Len(pools), mapped' = mapped,
         CallOK(u, d, pools'), \A p \in 1..Len(pools): pools'[p].revoked = pools[p].revoked,
         \A v \in Calls \ {u}: Untouched(v),
         RegistryOK(d), Rest
  PROVE  IInv'
<1>1. /\ ConnectionTypeOK /\ Len(pools) \in Nat /\ mapped \in 0..Len(pools)
      /\ Len(pools) <= MaxPools /\ OneInUse /\ calls \in [Calls -> Call]
      /\ \A v \in Calls: CallOK(v, calls[v], pools) /\ RegistryOK(calls[v])
      /\ \A v \in Calls: {calls[v].lease, calls[v].pool, calls[v].dial} \subseteq 0..Len(pools)
  BY Typed DEF IInv, ConnectionTypeOK
<1>2. calls' \in [Calls -> Call] /\ calls'[u] = d /\ \A v \in Calls \ {u}: calls'[v] = calls[v]
  BY <1>1
<1>3. \A v \in Calls \ {u}: CallOK(v, calls[v], pools)'
  BY <1>1, UntouchedKept
<1>4. \A v \in Calls: RegistryOK(calls[v])'
  BY <1>1, <1>2 DEF RegistryOK, Rest, registryVars
<1>5. /\ revision' \in Revisions /\ used' \in Revisions /\ gone' \in Revisions
      /\ closed' \in BOOLEAN /\ editors' \in [Editors -> Revisions] /\ revision' <= used'
  BY DEF Rest, registryVars, IInv, ConnectionTypeOK
<1>6. OneInUse'
  BY <1>1 DEF OneInUse
<1>7. CallOK(u, calls[u], pools)'
  BY <1>2
<1> QED
  BY <1>1, <1>2, <1>3, <1>4, <1>5, <1>6, <1>7 DEF IInv, ConnectionTypeOK

(* A step of u that leaves the pools alone. *)
LEMMA Alone ==
  ASSUME IInv, NEW u \in Calls, NEW d \in Call, calls' = [calls EXCEPT ![u] = d],
         {d.lease, d.pool, d.dial} \subseteq 0..Len(pools),
         pools' = pools, mapped' = mapped, CallOK(u, d, pools), RegistryOK(d), Rest
  PROVE  IInv'
<1>1. calls \in [Calls -> Call] /\ pools \in Seq(Pool)
  BY DEF IInv, ConnectionTypeOK
<1>2. \A v \in Calls \ {u}: Untouched(v)
  BY <1>1 DEF Untouched
<1> QED
  BY <1>1, <1>2, Within

-----------------------------------------------------------------------------
(* The steps of a call that leave the pools alone. *)

(* What IInv says of one call. *)
LEMMA Known ==
  ASSUME IInv, NEW u \in Calls
  PROVE  /\ calls \in [Calls -> Call] /\ calls[u] \in Call
         /\ PlaceOK(calls[u]) /\ PoolsKnow(u, calls[u], pools) /\ RegistryOK(calls[u])
         /\ calls[u].lease \in 0..Len(pools) /\ calls[u].pool \in 0..Len(pools)
         /\ calls[u].dial \in 0..Len(pools) /\ Len(pools) \in Nat
         /\ pools \in Seq(Pool) /\ u # NoCall
         /\ \A p \in 1..Len(pools): pools[p] \in Pool
  BY Typed, ConnectionAssumption DEF IInv, ConnectionTypeOK, CallOK

(* Going somewhere else, with the pools as they are. *)
LEMMA Goes ==
  ASSUME IInv, NEW u \in Calls, NEW pc, CallGoto(u, pc), pools' = pools, mapped' = mapped, Rest,
         \/ pc = "done" /\ calls[u].pc \in {"leased", "look", "flight"}
         \/ calls[u].pc = "leased" /\ pc = "control"
         \/ calls[u].pc = "look" /\ pc = "flight"
         \/ calls[u].pc = "create" /\ pc = "dial" /\ pools[calls[u].pool].control = NoCall
         \/ calls[u].pc = "enter" /\ pc = "acquire"
         \/ calls[u].pc = "config" /\ pc = "handshake" /\ revision = calls[u].rev
         \/ calls[u].pc = "open" /\ pc = "done" /\ calls[u].conn = "closed"
  PROVE  IInv'
<1>1. PICK d: d = [calls[u] EXCEPT !.pc = pc]
  OBVIOUS
<1>2. /\ calls[u] \in Call /\ calls' = [calls EXCEPT ![u] = d]
      /\ PlaceOK(calls[u]) /\ PoolsKnow(u, calls[u], pools) /\ RegistryOK(calls[u])
  BY <1>1, Known DEF CallGoto
<1>3. /\ d.pc = pc /\ d.kind = calls[u].kind /\ d.rev = calls[u].rev /\ d.lease = calls[u].lease
      /\ d.pool = calls[u].pool /\ d.dial = calls[u].dial /\ d.permit = calls[u].permit
      /\ d.conn = calls[u].conn /\ d.hooked = calls[u].hooked
      /\ d.keepalive = calls[u].keepalive /\ d.stale = calls[u].stale
  BY <1>1, <1>2 DEF Call
<1>4. pc \in {"control", "flight", "dial", "acquire", "handshake", "done"}
  OBVIOUS
<1>5. d \in Call
  BY <1>1, <1>2, <1>4, ZenonT(30) DEF Call
<1>6. PlaceOK(d)
  BY <1>2, <1>3 DEF PlaceOK, Flies, Early, Dialing, Connected
<1>7. PoolsKnow(u, d, pools)
  BY <1>2, <1>3 DEF PlaceOK, PoolsKnow, Flies, Early, Dialing, Connected
<1>8. RegistryOK(d)
  BY <1>2, <1>3 DEF RegistryOK
<1>9. {d.lease, d.pool, d.dial} \subseteq 0..Len(pools)
  BY <1>3, Known
<1> QED
  BY <1>2, <1>5, <1>6, <1>7, <1>8, <1>9, Alone DEF CallOK

LEMMA GoesSteps ==
  ASSUME IInv, NEW u \in Calls,
         \/ LookForControl(u)
         \/ Use(u) /\ (CallGoto(u, "done") \/ CallGoto(u, "control"))
  PROVE  IInv'
<1>1. pools' = pools /\ mapped' = mapped /\ Rest
  BY DEF LookForControl, Use, Rest
<1>2. CASE LookForControl(u)
  BY <1>1, <1>2, Goes DEF LookForControl, CallAt
<1>3. CASE Use(u) /\ CallGoto(u, "done")
  BY <1>1, <1>3, Goes DEF Use, CallAt
<1>4. CASE Use(u) /\ CallGoto(u, "control")
  BY <1>1, <1>4, Goes DEF Use, CallAt
<1> QED
  BY <1>2, <1>3, <1>4

LEMMA ReadHostKept ==
  ASSUME IInv, NEW u \in Calls, ReadHost(u)
  PROVE  IInv'
<1>1. PICK d: d = [calls[u] EXCEPT !.pc = "lease", !.rev = revision]
  OBVIOUS
<1>2. /\ calls[u] \in Call /\ revision \in Revisions /\ CallAt(u, "idle") /\ revision # 0
      /\ calls' = [calls EXCEPT ![u] = d] /\ pools' = pools /\ mapped' = mapped
      /\ PlaceOK(calls[u]) /\ PoolsKnow(u, calls[u], pools) /\ RegistryOK(calls[u])
      /\ revision <= used /\ Rest
  BY <1>1, Known DEF IInv, ConnectionTypeOK, ReadHost, Rest
<1>3. d \in Call
  BY <1>1, <1>2, ZenonT(30) DEF Call
<1>4. CallOK(u, d, pools)
  BY <1>1, <1>2 DEF CallOK, PlaceOK, PoolsKnow, Flies, Early, Dialing, Connected, CallAt, Call
<1>5. {d.lease, d.pool, d.dial} \subseteq 0..Len(pools)
  BY <1>1, <1>2, Known DEF Call
<1>6. ~calls[u].stale
  BY <1>2 DEF PlaceOK, Early, CallAt
<1>7. RegistryOK(d)
  BY <1>1, <1>2, <1>6 DEF RegistryOK, Call
<1> QED
  BY <1>2, <1>3, <1>4, <1>5, <1>7, Alone

LEMMA UseDedicatedKept ==
  ASSUME IInv, NEW u \in Calls, Use(u),
         calls' = [calls EXCEPT ![u].pc = "dial", ![u].kind = "dedicated"]
  PROVE  IInv'
<1>1. PICK d: d = [calls[u] EXCEPT !.pc = "dial", !.kind = "dedicated"]
  OBVIOUS
<1>2. /\ calls' = [calls EXCEPT ![u] = d] /\ pools' = pools /\ mapped' = mapped /\ Rest
  BY <1>1, Known DEF Use, Rest
<1>3. /\ calls[u] \in Call /\ PlaceOK(calls[u]) /\ PoolsKnow(u, calls[u], pools)
      /\ RegistryOK(calls[u])
      /\ calls[u].pc = "leased"
  BY Known DEF Use, CallAt, IInv
<1>4. d \in Call
  BY <1>1, <1>3, ZenonT(30) DEF Call
<1>5. PlaceOK(d)
  BY <1>1, <1>3 DEF PlaceOK, Flies, Early, Dialing, Connected, Call
<1>6. PoolsKnow(u, d, pools)
  BY <1>1, <1>3 DEF PlaceOK, PoolsKnow, Flies, Early, Dialing, Connected, Call
<1>7. RegistryOK(d) /\ {d.lease, d.pool, d.dial} \subseteq 0..Len(pools)
  BY <1>1, <1>3, Known DEF RegistryOK, Call
<1> QED
  BY <1>2, <1>4, <1>5, <1>6, <1>7, Alone DEF CallOK

LEMMA SetOnCloseKept ==
  ASSUME IInv, NEW u \in Calls, SetOnClose(u)
  PROVE  IInv'
<1>1. PICK d: d = [calls[u] EXCEPT !.pc = "open", !.hooked = TRUE]
  OBVIOUS
<1>2. /\ calls' = [calls EXCEPT ![u] = d] /\ pools' = pools /\ mapped' = mapped /\ Rest
  BY <1>1, Known DEF SetOnClose, Rest
<1>3. /\ calls[u] \in Call /\ PlaceOK(calls[u]) /\ PoolsKnow(u, calls[u], pools)
      /\ RegistryOK(calls[u])
      /\ calls[u].pc = "hook"
  BY Known DEF SetOnClose, CallAt, IInv
<1>4. d \in Call
  BY <1>1, <1>3, ZenonT(30) DEF Call
<1>5. PlaceOK(d)
  BY <1>1, <1>3 DEF PlaceOK, Flies, Early, Dialing, Connected, Call
<1>6. PoolsKnow(u, d, pools)
  BY <1>1, <1>3 DEF PlaceOK, PoolsKnow, Flies, Early, Dialing, Connected, Call
<1>7. RegistryOK(d) /\ {d.lease, d.pool, d.dial} \subseteq 0..Len(pools)
  BY <1>1, <1>3, Known DEF RegistryOK, Call
<1> QED
  BY <1>2, <1>4, <1>5, <1>6, <1>7, Alone DEF CallOK

LEMMA LoseKept ==
  ASSUME IInv, NEW u \in Calls, Lose(u)
  PROVE  IInv'
<1>1. PICK d: d = [calls[u] EXCEPT !.conn = "lost"]
  OBVIOUS
<1>2. /\ calls' = [calls EXCEPT ![u] = d] /\ pools' = pools /\ mapped' = mapped /\ Rest
  BY <1>1, Known DEF Lose, Rest
<1>3. /\ calls[u] \in Call /\ PlaceOK(calls[u]) /\ PoolsKnow(u, calls[u], pools)
      /\ RegistryOK(calls[u])
      /\ calls[u].conn = "open"
  BY Known DEF Lose, CallAt, IInv
<1>4. d \in Call
  BY <1>1, <1>3, ZenonT(30) DEF Call
<1>5. PlaceOK(d)
  BY <1>1, <1>3 DEF PlaceOK, Flies, Early, Dialing, Connected, Call
<1>6. PoolsKnow(u, d, pools)
  BY <1>1, <1>3 DEF PlaceOK, PoolsKnow, Flies, Early, Dialing, Connected, Call
<1>7. RegistryOK(d) /\ {d.lease, d.pool, d.dial} \subseteq 0..Len(pools)
  BY <1>1, <1>3, Known DEF RegistryOK, Call
<1> QED
  BY <1>2, <1>4, <1>5, <1>6, <1>7, Alone DEF CallOK

LEMMA KeepaliveStopsKept ==
  ASSUME IInv, NEW u \in Calls, KeepaliveStops(u)
  PROVE  IInv'
<1>1. PICK d: d = [calls[u] EXCEPT !.keepalive = "off", !.permit = FALSE]
  OBVIOUS
<1>2. /\ calls' = [calls EXCEPT ![u] = d] /\ pools' = pools /\ mapped' = mapped /\ Rest
  BY <1>1, Known DEF KeepaliveStops, Rest
<1>3. /\ calls[u] \in Call /\ PlaceOK(calls[u]) /\ PoolsKnow(u, calls[u], pools)
      /\ RegistryOK(calls[u])
      /\ calls[u].keepalive = "stop"
  BY Known DEF KeepaliveStops, CallAt, IInv
<1>4. d \in Call
  BY <1>1, <1>3, ZenonT(30) DEF Call
<1>5. PlaceOK(d)
  BY <1>1, <1>3 DEF PlaceOK, Flies, Early, Dialing, Connected, Call
<1>6. PoolsKnow(u, d, pools)
  BY <1>1, <1>3 DEF PlaceOK, PoolsKnow, Flies, Early, Dialing, Connected, Call
<1>7. RegistryOK(d) /\ {d.lease, d.pool, d.dial} \subseteq 0..Len(pools)
  BY <1>1, <1>3, Known DEF RegistryOK, Call
<1> QED
  BY <1>2, <1>4, <1>5, <1>6, <1>7, Alone DEF CallOK

LEMMA AcquiredKept ==
  ASSUME IInv, NEW u \in Calls, Acquire(u),
         calls' = [calls EXCEPT ![u].pc = "config", ![u].permit = TRUE], pools' = pools
  PROVE  IInv'
<1>1. PICK d: d = [calls[u] EXCEPT !.pc = "config", !.permit = TRUE]
  OBVIOUS
<1>2. /\ calls' = [calls EXCEPT ![u] = d] /\ pools' = pools /\ mapped' = mapped /\ Rest
  BY <1>1, Known DEF Acquire, Rest
<1>3. /\ calls[u] \in Call /\ PlaceOK(calls[u]) /\ PoolsKnow(u, calls[u], pools)
      /\ RegistryOK(calls[u])
      /\ calls[u].pc = "acquire"
  BY Known DEF Acquire, CallAt, IInv
<1>4. d \in Call
  BY <1>1, <1>3, ZenonT(30) DEF Call
<1>5. PlaceOK(d)
  BY <1>1, <1>3 DEF PlaceOK, Flies, Early, Dialing, Connected, Call
<1>6. PoolsKnow(u, d, pools)
  BY <1>1, <1>3 DEF PlaceOK, PoolsKnow, Flies, Early, Dialing, Connected, Call
<1>7. RegistryOK(d) /\ {d.lease, d.pool, d.dial} \subseteq 0..Len(pools)
  BY <1>1, <1>3, Known DEF RegistryOK, Call
<1> QED
  BY <1>2, <1>4, <1>5, <1>6, <1>7, Alone DEF CallOK


(* When a call sets out to dial, history notes whether it is too old. *)
LEMMA SetsOutKept ==
  ASSUME IInv, NEW u \in Calls, CheckClosed(u), ~closed
  PROVE  IInv'
<1>1. PICK b \in BOOLEAN: b = (revision # calls[u].rev)
  OBVIOUS
<1>2. PICK d: d = [calls[u] EXCEPT !.pc = "pool", !.stale = b]
  OBVIOUS
<1>3. /\ calls' = [calls EXCEPT ![u].pc = "pool", ![u].stale = revision # calls[u].rev]
      /\ pools' = pools /\ mapped' = mapped /\ Rest /\ calls[u].pc = "dial"
  BY DEF CheckClosed, Rest, CallAt
<1>4. /\ calls[u] \in Call /\ PlaceOK(calls[u]) /\ PoolsKnow(u, calls[u], pools)
      /\ RegistryOK(calls[u])
  BY Known
<1>5. calls' = [calls EXCEPT ![u] = d]
  BY <1>1, <1>2, <1>3
<1>6. d \in Call
  BY <1>2, <1>4, ZenonT(30) DEF Call
<1>7. PlaceOK(d)
  BY <1>2, <1>3, <1>4 DEF PlaceOK, Flies, Early, Dialing, Connected, Call
<1>8. PoolsKnow(u, d, pools)
  BY <1>2, <1>3, <1>4 DEF PlaceOK, PoolsKnow, Flies, Early, Dialing, Connected, Call
<1>9. RegistryOK(d) /\ {d.lease, d.pool, d.dial} \subseteq 0..Len(pools)
  BY <1>1, <1>2, <1>4, Known DEF RegistryOK, Call
<1> QED
  BY <1>3, <1>5, <1>6, <1>7, <1>8, <1>9, Alone DEF CallOK

-----------------------------------------------------------------------------
(* The steps that look a pool up. *)

(* What getPool leaves of a call that is not connected yet. *)
LEMMA Looking ==
  ASSUME IInv, NEW u \in Calls, GetPool(calls[u].rev),
         calls[u].pc \notin {"hook", "open", "done"}
  PROVE  /\ Others(calls[u].rev)[u] = calls[u] /\ Others(calls[u].rev) \in [Calls -> Call]
         /\ PlaceOK(calls[u]) /\ PoolsKnow(u, calls[u], pools')
         /\ Found(calls[u].rev) = mapped' /\ mapped' \in 1..Len(pools')
         /\ pools'[mapped'].rev = calls[u].rev /\ OneInUse'
         /\ Len(pools') \in Nat /\ Len(pools) <= Len(pools') /\ mapped' \in 0..MaxPools
         /\ calls[u] \in Call /\ RegistryOK(calls[u])
         /\ {calls[u].lease, calls[u].pool, calls[u].dial} \subseteq 0..Len(pools')
<1>1. calls[u] \in Call /\ calls[u].rev \in Revisions
  BY Known DEF Call
<1>2. /\ pools' \in Seq(Pool) /\ Len(pools') <= MaxPools /\ Len(pools) <= Len(pools')
      /\ mapped' \in 1..Len(pools')
  BY <1>1, GotPool
<1>3. Len(pools') \in Nat
  BY <1>2, LenProperties
<1> QED
  BY <1>1, <1>2, <1>3, GotPool, Known, ConnectionAssumption DEF CallOK

LEMMA LeaseKept ==
  ASSUME IInv, NEW u \in Calls, Lease(u)
  PROVE  IInv'
<1>1. PICK d: d = [calls[u] EXCEPT !.pc = "leased", !.lease = mapped']
  OBVIOUS
<1>2. /\ GetPool(calls[u].rev) /\ calls[u].pc = "lease" /\ Rest
  BY DEF Lease, Rest, CallAt
<1>3. /\ Others(calls[u].rev)[u] = calls[u] /\ Others(calls[u].rev) \in [Calls -> Call]
      /\ PlaceOK(calls[u]) /\ PoolsKnow(u, calls[u], pools')
      /\ Found(calls[u].rev) = mapped' /\ mapped' \in 1..Len(pools')
      /\ pools'[mapped'].rev = calls[u].rev /\ OneInUse'
      /\ Len(pools') \in Nat /\ mapped' \in 0..MaxPools
      /\ calls[u] \in Call /\ RegistryOK(calls[u])
      /\ {calls[u].lease, calls[u].pool, calls[u].dial} \subseteq 0..Len(pools')
  BY <1>2, Looking
<1>4. calls' = [Others(calls[u].rev) EXCEPT ![u] = d]
  BY <1>1, <1>3 DEF Lease
<1>5. d \in Call
  BY <1>1, <1>3, ZenonT(30) DEF Call
<1>6. PlaceOK(d)
  BY <1>1, <1>2, <1>3 DEF PlaceOK, Flies, Early, Dialing, Connected, Call
<1>7. PoolsKnow(u, d, pools')
  BY <1>1, <1>2, <1>3 DEF PlaceOK, PoolsKnow, OneInUse, Flies, Early, Dialing, Connected, Call
<1>8. RegistryOK(d) /\ {d.lease, d.pool, d.dial} \subseteq 0..Len(pools')
  BY <1>1, <1>3 DEF RegistryOK, Call
<1> QED
  BY <1>2, <1>4, <1>5, <1>6, <1>7, <1>8, LookedUp DEF CallOK

LEMMA GetControlKept ==
  ASSUME IInv, NEW u \in Calls, GetControl(u)
  PROVE  IInv'
<1>1. PICK d: d = [calls[u] EXCEPT !.pc = "look", !.pool = mapped']
  OBVIOUS
<1>2. /\ GetPool(calls[u].rev) /\ calls[u].pc = "control" /\ Rest
  BY DEF GetControl, Rest, CallAt
<1>3. /\ Others(calls[u].rev)[u] = calls[u] /\ Others(calls[u].rev) \in [Calls -> Call]
      /\ PlaceOK(calls[u]) /\ PoolsKnow(u, calls[u], pools')
      /\ Found(calls[u].rev) = mapped' /\ mapped' \in 1..Len(pools')
      /\ pools'[mapped'].rev = calls[u].rev /\ OneInUse'
      /\ Len(pools') \in Nat /\ mapped' \in 0..MaxPools
      /\ calls[u] \in Call /\ RegistryOK(calls[u])
      /\ {calls[u].lease, calls[u].pool, calls[u].dial} \subseteq 0..Len(pools')
  BY <1>2, Looking
<1>4. calls' = [Others(calls[u].rev) EXCEPT ![u] = d]
  BY <1>1, <1>3 DEF GetControl
<1>5. d \in Call
  BY <1>1, <1>3, ZenonT(30) DEF Call
<1>6. PlaceOK(d)
  BY <1>1, <1>2, <1>3 DEF PlaceOK, Flies, Early, Dialing, Connected, Call
<1>7. PoolsKnow(u, d, pools')
  BY <1>1, <1>2, <1>3 DEF PlaceOK, PoolsKnow, OneInUse, Flies, Early, Dialing, Connected, Call
<1>8. RegistryOK(d) /\ {d.lease, d.pool, d.dial} \subseteq 0..Len(pools')
  BY <1>1, <1>3 DEF RegistryOK, Call
<1> QED
  BY <1>2, <1>4, <1>5, <1>6, <1>7, <1>8, LookedUp DEF CallOK

LEMMA DialPoolKept ==
  ASSUME IInv, NEW u \in Calls, DialPool(u)
  PROVE  IInv'
<1>1. PICK d: d = [calls[u] EXCEPT !.pc = "enter", !.dial = mapped']
  OBVIOUS
<1>2. /\ GetPool(calls[u].rev) /\ calls[u].pc = "pool" /\ Rest
  BY DEF DialPool, Rest, CallAt
<1>3. /\ Others(calls[u].rev)[u] = calls[u] /\ Others(calls[u].rev) \in [Calls -> Call]
      /\ PlaceOK(calls[u]) /\ PoolsKnow(u, calls[u], pools')
      /\ Found(calls[u].rev) = mapped' /\ mapped' \in 1..Len(pools')
      /\ pools'[mapped'].rev = calls[u].rev /\ OneInUse'
      /\ Len(pools') \in Nat /\ mapped' \in 0..MaxPools
      /\ calls[u] \in Call /\ RegistryOK(calls[u])
      /\ {calls[u].lease, calls[u].pool, calls[u].dial} \subseteq 0..Len(pools')
  BY <1>2, Looking
<1>4. calls' = [Others(calls[u].rev) EXCEPT ![u] = d]
  BY <1>1, <1>3 DEF DialPool
<1>5. d \in Call
  BY <1>1, <1>3, ZenonT(30) DEF Call
<1>6. PlaceOK(d)
  BY <1>1, <1>2, <1>3 DEF PlaceOK, Flies, Early, Dialing, Connected, Call
<1>7. PoolsKnow(u, d, pools')
  BY <1>1, <1>2, <1>3 DEF PlaceOK, PoolsKnow, OneInUse, Flies, Early, Dialing, Connected, Call
<1>8. RegistryOK(d) /\ {d.lease, d.pool, d.dial} \subseteq 0..Len(pools')
  BY <1>1, <1>3 DEF RegistryOK, Call
<1> QED
  BY <1>2, <1>4, <1>5, <1>6, <1>7, <1>8, LookedUp DEF CallOK

LEMMA DedicatedPoolKept ==
  ASSUME IInv, NEW u \in Calls, DedicatedPool(u)
  PROVE  IInv'
<1>1. PICK d: d = [calls[u] EXCEPT !.pc = "insert", !.pool = mapped']
  OBVIOUS
<1>2. /\ GetPool(calls[u].rev) /\ calls[u].pc = "install" /\ calls[u].kind = "dedicated" /\ Rest
  BY DEF DedicatedPool, Rest, CallAt
<1>3. /\ Others(calls[u].rev)[u] = calls[u] /\ Others(calls[u].rev) \in [Calls -> Call]
      /\ PlaceOK(calls[u]) /\ PoolsKnow(u, calls[u], pools')
      /\ Found(calls[u].rev) = mapped' /\ mapped' \in 1..Len(pools')
      /\ pools'[mapped'].rev = calls[u].rev /\ OneInUse'
      /\ Len(pools') \in Nat /\ mapped' \in 0..MaxPools
      /\ calls[u] \in Call /\ RegistryOK(calls[u])
      /\ {calls[u].lease, calls[u].pool, calls[u].dial} \subseteq 0..Len(pools')
  BY <1>2, Looking
<1>4. calls' = [Others(calls[u].rev) EXCEPT ![u] = d]
  BY <1>1, <1>3 DEF DedicatedPool
<1>5. d \in Call
  BY <1>1, <1>3, ZenonT(30) DEF Call
<1>6. PlaceOK(d)
  BY <1>1, <1>2, <1>3 DEF PlaceOK, Flies, Early, Dialing, Connected, Call
<1>7. PoolsKnow(u, d, pools')
  BY <1>1, <1>2, <1>3 DEF PlaceOK, PoolsKnow, OneInUse, Flies, Early, Dialing, Connected, Call
<1>8. RegistryOK(d) /\ {d.lease, d.pool, d.dial} \subseteq 0..Len(pools')
  BY <1>1, <1>3 DEF RegistryOK, Call
<1> QED
  BY <1>2, <1>4, <1>5, <1>6, <1>7, <1>8, LookedUp DEF CallOK


-----------------------------------------------------------------------------
(* The steps that change what a pool knows of the call. *)

(* The end of a call that was dialing: no pool knows it any more. *)
FlightEnded(u) ==
  /\ pools' \in Seq(Pool) /\ Len(pools') = Len(pools)
  /\ \A p \in 1..Len(pools):
       /\ pools'[p].rev = pools[p].rev /\ pools'[p].revoked = pools[p].revoked
       /\ pools'[p].control = pools[p].control /\ pools'[p].dedicated = pools[p].dedicated
       /\ pools'[p].flight = IF pools[p].flight = u THEN NoCall ELSE pools[p].flight

(* What the pools have to know of a call that is over. *)
LEMMA DoneKnown ==
  ASSUME NEW u, NEW c, NEW ps, c.pc = "done",
         c.dial # 0 => ps[c.dial].rev = c.rev,
         c.conn = "open" =>
           c.pool # 0 /\ (ps[c.pool].revoked \/ u = ps[c.pool].control
                           \/ u \in ps[c.pool].dedicated),
         c.kind = "dedicated" /\ c.permit => ps[c.dial].revoked,
         \A p \in 1..Len(ps): ps[p].control = u =>
           c.kind = "control" /\ c.pool = p /\ c.conn # "none",
         \A p \in 1..Len(ps): u \notin ps[p].dedicated
  PROVE  PoolsKnow(u, c, ps)
  BY DEF PoolsKnow, Flies, Dialing, Connected

LEMMA EndsDialing ==
  ASSUME IInv, NEW u \in Calls, FlightEnded(u), mapped' = mapped, Rest,
         calls[u].pc \in {"create", "dial", "pool", "enter", "acquire", "config", "handshake"},
         \/ calls' = Failed(u)
         \/ calls[u].pc = "create" /\ CallGoto(u, "done")
  PROVE  IInv'
<1>1. /\ calls[u] \in Call /\ calls \in [Calls -> Call] /\ PlaceOK(calls[u])
      /\ PoolsKnow(u, calls[u], pools) /\ RegistryOK(calls[u]) /\ u # NoCall
      /\ {calls[u].lease, calls[u].pool, calls[u].dial} \subseteq 0..Len(pools)
      /\ Len(pools) \in Nat
  BY Known
<1>2. PICK d \in Call:
        /\ calls' = [calls EXCEPT ![u] = d]
        /\ d.pc = "done" /\ ~d.permit /\ d.conn = calls[u].conn
        /\ d.keepalive = calls[u].keepalive /\ d.kind = calls[u].kind
        /\ d.rev = calls[u].rev /\ d.lease = calls[u].lease /\ d.pool = calls[u].pool
        /\ d.dial = calls[u].dial /\ d.stale = calls[u].stale
  <2>1. CASE calls' = Failed(u)
    <3>1. PICK d: d = [calls[u] EXCEPT !.pc = "done", !.permit = FALSE]
      OBVIOUS
    <3>2. d \in Call
      BY <1>1, <3>1, ZenonT(30) DEF Call
    <3>3. calls' = [calls EXCEPT ![u] = d]
      BY <2>1, <3>1 DEF Failed
    <3>4. /\ d.pc = "done" /\ ~d.permit /\ d.conn = calls[u].conn
          /\ d.keepalive = calls[u].keepalive /\ d.kind = calls[u].kind
          /\ d.rev = calls[u].rev /\ d.lease = calls[u].lease /\ d.pool = calls[u].pool
          /\ d.dial = calls[u].dial /\ d.stale = calls[u].stale
      BY <1>1, <3>1 DEF Call
    <3> QED
      BY <3>2, <3>3, <3>4
  <2>2. CASE calls[u].pc = "create" /\ CallGoto(u, "done")
    <3>1. PICK d: d = [calls[u] EXCEPT !.pc = "done"]
      OBVIOUS
    <3>2. d \in Call
      BY <1>1, <3>1, ZenonT(30) DEF Call
    <3>3. calls' = [calls EXCEPT ![u] = d]
      BY <2>2, <3>1 DEF CallGoto
    <3>4. ~calls[u].permit
      BY <1>1, <2>2 DEF PlaceOK, Connected
    <3> QED
      BY <1>1, <3>1, <3>2, <3>3, <3>4 DEF Call
  <2> QED
    BY <2>1, <2>2
<1>3. PlaceOK(d)
  BY <1>1, <1>2 DEF PlaceOK, Flies, Early, Dialing, Connected
<1>4. d.conn = "none"
  BY <1>1, <1>2 DEF PlaceOK, Connected
<1>5. PoolsKnow(u, d, pools')
  <2>1. /\ Len(pools') = Len(pools)
        /\ \A p \in 1..Len(pools):
             /\ pools'[p].rev = pools[p].rev /\ pools'[p].control = pools[p].control
             /\ pools'[p].dedicated = pools[p].dedicated
    BY DEF FlightEnded
  <2>2. d.dial # 0 => pools'[d.dial].rev = d.rev
    BY <1>1, <1>2, <2>1 DEF PoolsKnow
  <2>3. \A p \in 1..Len(pools'): pools'[p].control # u /\ u \notin pools'[p].dedicated
    BY <1>1, <1>2, <2>1 DEF PoolsKnow
  <2> QED
    BY <1>2, <1>4, <2>2, <2>3, DoneKnown
<1>6. \A v \in Calls \ {u}: Untouched(v)
  <2>1. \A v \in Calls \ {u}: calls'[v] = calls[v] /\ v # NoCall
    BY <1>1, <1>2, ConnectionAssumption
  <2> QED
    BY <2>1 DEF Untouched, FlightEnded
<1>7. RegistryOK(d)
  BY <1>1, <1>2 DEF RegistryOK
<1>8. CallOK(u, d, pools') /\ {d.lease, d.pool, d.dial} \subseteq 0..Len(pools)
  BY <1>1, <1>2, <1>3, <1>5 DEF CallOK
<1>9. /\ pools' \in Seq(Pool) /\ Len(pools') = Len(pools)
      /\ \A p \in 1..Len(pools): pools'[p].revoked = pools[p].revoked
  BY DEF FlightEnded
<1> QED
  BY <1>1, <1>2, <1>6, <1>7, <1>8, <1>9, Within

LEMMA LandedEnds ==
  ASSUME IInv, NEW u \in Calls, pools' = Landed(u)
  PROVE  FlightEnded(u)
  BY Known, LandedFacts DEF FlightEnded

LEMMA FailKept ==
  ASSUME IInv, NEW u \in Calls, Fail(u), mapped' = mapped, Rest,
         calls[u].pc \in {"dial", "pool", "enter", "acquire", "config", "handshake"}
  PROVE  IInv'
  BY LandedEnds, EndsDialing DEF Fail

(* A failed handshake is recorded in the pool that was dialed. *)
LEMMA BackoffKept ==
  ASSUME IInv, NEW u \in Calls, calls' = Failed(u), CallAt(u, "handshake"), mapped' = mapped, Rest,
         pools' = [Landed(u) EXCEPT ![calls[u].dial].backoff = TRUE]
  PROVE  IInv'
<1>1. /\ Landed(u) \in Seq(Pool) /\ Len(Landed(u)) = Len(pools)
      /\ \A p \in 1..Len(pools):
           LET r == Landed(u)[p]
           IN /\ r.rev = pools[p].rev /\ r.revoked = pools[p].revoked
              /\ r.control = pools[p].control /\ r.dedicated = pools[p].dedicated
              /\ r.backoff = pools[p].backoff
              /\ r.flight = IF pools[p].flight = u THEN NoCall ELSE pools[p].flight
  BY Known, LandedFacts
<1>2. calls[u].dial \in 1..Len(pools)
  BY Known DEF PlaceOK, CallAt
<1>3. Landed(u)[calls[u].dial] \in Pool
  BY <1>1, <1>2, ElementOfSeq
<1>4. PICK r: r = [Landed(u)[calls[u].dial] EXCEPT !.backoff = TRUE]
  OBVIOUS
<1>5. r \in Pool
  BY <1>3, <1>4, ZenonT(30) DEF Pool
<1>6. /\ r.rev = Landed(u)[calls[u].dial].rev /\ r.revoked = Landed(u)[calls[u].dial].revoked
      /\ r.control = Landed(u)[calls[u].dial].control
      /\ r.dedicated = Landed(u)[calls[u].dial].dedicated
      /\ r.flight = Landed(u)[calls[u].dial].flight
  BY <1>3, <1>4 DEF Pool
<1>7. /\ pools' \in Seq(Pool) /\ Len(pools') = Len(pools)
      /\ \A p \in 1..Len(pools): pools'[p] = IF p = calls[u].dial THEN r ELSE Landed(u)[p]
  BY <1>1, <1>2, <1>4, <1>5, ExceptSeq
<1>8. FlightEnded(u)
  BY <1>1, <1>6, <1>7 DEF FlightEnded
<1> QED
  BY <1>8, EndsDialing DEF CallAt

LEMMA CreateControlKept ==
  ASSUME IInv, NEW u \in Calls, CreateControl(u)
  PROVE  IInv'
<1>1. calls[u].pc = "create" /\ mapped' = mapped /\ Rest
  BY DEF CreateControl, CallAt, Rest
<1>2. CASE pools[calls[u].pool].control = NoCall
  BY <1>1, <1>2, Goes DEF CreateControl
<1>3. CASE pools[calls[u].pool].control # NoCall
  BY <1>1, <1>3, LandedEnds, EndsDialing DEF CreateControl
<1> QED
  BY <1>2, <1>3

LEMMA EnterKept ==
  ASSUME IInv, NEW u \in Calls, Enter(u)
  PROVE  IInv'
<1>1. calls[u].pc = "enter" /\ mapped' = mapped /\ Rest
  BY DEF Enter, CallAt, Rest
<1>2. CASE Fail(u)
  BY <1>1, <1>2, FailKept
<1>3. CASE CallGoto(u, "acquire") /\ UNCHANGED pools
  BY <1>1, <1>3, Goes
<1> QED
  BY <1>2, <1>3 DEF Enter

LEMMA ResolveConfigKept ==
  ASSUME IInv, NEW u \in Calls, ResolveConfig(u)
  PROVE  IInv'
<1>1. calls[u].pc = "config" /\ mapped' = mapped /\ Rest
  BY DEF ResolveConfig, CallAt, Rest
<1>2. CASE Fail(u)
  BY <1>1, <1>2, FailKept
<1>3. CASE CallGoto(u, "handshake") /\ UNCHANGED pools /\ revision = calls[u].rev
  BY <1>1, <1>3, Goes
<1> QED
  BY <1>2, <1>3 DEF ResolveConfig

LEMMA AcquireKept ==
  ASSUME IInv, NEW u \in Calls, Acquire(u)
  PROVE  IInv'
<1>1. calls[u].pc = "acquire" /\ mapped' = mapped /\ Rest
  BY DEF Acquire, CallAt, Rest
<1>2. CASE Fail(u)
  BY <1>1, <1>2, FailKept
<1>3. CASE ~Fail(u)
  BY <1>3, AcquiredKept DEF Acquire
<1> QED
  BY <1>2, <1>3

LEMMA CheckClosedKept ==
  ASSUME IInv, NEW u \in Calls, CheckClosed(u)
  PROVE  IInv'
<1>1. calls[u].pc = "dial" /\ mapped' = mapped /\ Rest
  BY DEF CheckClosed, CallAt, Rest
<1>2. CASE closed
  BY <1>1, <1>2, FailKept DEF CheckClosed
<1>3. CASE ~closed
  BY <1>3, SetsOutKept
<1> QED
  BY <1>2, <1>3

(* Changing one field of one pool. *)
OnePool(p, r) ==
  /\ pools' \in Seq(Pool) /\ Len(pools') = Len(pools)
  /\ \A q \in 1..Len(pools): pools'[q] = IF q = p THEN r ELSE pools[q]

LEMMA JoinFlightKept ==
  ASSUME IInv, NEW u \in Calls, JoinFlight(u)
  PROVE  IInv'
<1>1. calls[u].pc = "flight" /\ mapped' = mapped /\ Rest
  BY DEF JoinFlight, CallAt, Rest
<1>2. CASE CallGoto(u, "done") /\ UNCHANGED pools
  BY <1>1, <1>2, Goes
<1>3. CASE pools[calls[u].pool].flight = NoCall
  <2>1. /\ calls[u] \in Call /\ calls \in [Calls -> Call] /\ PlaceOK(calls[u])
        /\ PoolsKnow(u, calls[u], pools) /\ RegistryOK(calls[u])
        /\ {calls[u].lease, calls[u].pool, calls[u].dial} \subseteq 0..Len(pools)
        /\ pools \in Seq(Pool) /\ Len(pools) \in Nat /\ \A p \in 1..Len(pools): pools[p] \in Pool
    BY Known
  <2>2. calls[u].pool \in 1..Len(pools)
    BY <1>1, <2>1 DEF PlaceOK
  <2>3. PICK r: r = [pools[calls[u].pool] EXCEPT !.flight = u]
    OBVIOUS
  <2>4. r \in Pool
    BY <2>1, <2>2, <2>3, ZenonT(30) DEF Pool
  <2>5. /\ r.rev = pools[calls[u].pool].rev /\ r.revoked = pools[calls[u].pool].revoked
        /\ r.control = pools[calls[u].pool].control /\ r.flight = u
        /\ r.dedicated = pools[calls[u].pool].dedicated
    BY <2>1, <2>2, <2>3 DEF Pool
  <2>6. OnePool(calls[u].pool, r)
    BY <1>3, <2>1, <2>2, <2>3, <2>4, ExceptSeq DEF JoinFlight, OnePool
  <2>7. PICK d: d = [calls[u] EXCEPT !.pc = "create"]
    OBVIOUS
  <2>8. d \in Call
    BY <2>1, <2>7, ZenonT(30) DEF Call
  <2>9. calls' = [calls EXCEPT ![u] = d]
    BY <1>3, <2>7 DEF JoinFlight, CallGoto
  <2>10. PlaceOK(d)
    BY <1>1, <2>1, <2>7 DEF PlaceOK, Flies, Early, Dialing, Connected, Call
  <2>11. PoolsKnow(u, d, pools')
    <3>1. /\ Len(pools') = Len(pools)
          /\ \A p \in 1..Len(pools):
               /\ pools'[p].rev = pools[p].rev /\ pools'[p].revoked = pools[p].revoked
               /\ pools'[p].control = pools[p].control
               /\ pools'[p].dedicated = pools[p].dedicated
          /\ pools'[calls[u].pool].flight = u
      BY <2>2, <2>5, <2>6 DEF OnePool
    <3>2. /\ d.pc = "create" /\ d.kind = "control" /\ d.conn = "none" /\ ~d.permit
          /\ d.rev = calls[u].rev /\ d.pool = calls[u].pool /\ d.dial = 0
      BY <1>1, <2>1, <2>7 DEF PlaceOK, Early, Connected, Call
    <3> QED
      BY <1>1, <2>1, <3>1, <3>2 DEF PoolsKnow, Flies, Dialing, Connected
  <2>12. \A v \in Calls \ {u}: Untouched(v)
    <3>1. \A v \in Calls \ {u}: calls'[v] = calls[v] /\ v # NoCall
      BY <2>1, <2>9, ConnectionAssumption
    <3> QED
      BY <1>3, <2>5, <2>6, <3>1 DEF Untouched, OnePool
  <2>13. RegistryOK(d) /\ {d.lease, d.pool, d.dial} \subseteq 0..Len(pools)
    BY <1>1, <2>1, <2>7 DEF RegistryOK, Call
  <2>14. \A p \in 1..Len(pools): pools'[p].revoked = pools[p].revoked
    BY <2>5, <2>6 DEF OnePool
  <2> QED
    BY <1>1, <2>6, <2>8, <2>9, <2>10, <2>11, <2>12, <2>13, <2>14, Within DEF CallOK, OnePool
<1> QED
  BY <1>2, <1>3 DEF JoinFlight

(* A step that changes no pool but its backoff. *)
SamePools ==
  /\ pools' \in Seq(Pool) /\ Len(pools') = Len(pools)
  /\ \A p \in 1..Len(pools):
       /\ pools'[p].rev = pools[p].rev /\ pools'[p].revoked = pools[p].revoked
       /\ pools'[p].control = pools[p].control /\ pools'[p].dedicated = pools[p].dedicated
       /\ pools'[p].flight = pools[p].flight

LEMMA SetBackoff ==
  ASSUME IInv, NEW p \in 1..Len(pools), pools' = [pools EXCEPT ![p].backoff = FALSE]
  PROVE  SamePools
<1>1. pools \in Seq(Pool) /\ pools[p] \in Pool
  BY Typed DEF IInv
<1>2. PICK r: r = [pools[p] EXCEPT !.backoff = FALSE]
  OBVIOUS
<1>3. r \in Pool
  BY <1>1, <1>2, ZenonT(30) DEF Pool
<1>4. /\ r.rev = pools[p].rev /\ r.revoked = pools[p].revoked /\ r.control = pools[p].control
      /\ r.flight = pools[p].flight /\ r.dedicated = pools[p].dedicated
  BY <1>1, <1>2 DEF Pool
<1>5. /\ pools' \in Seq(Pool) /\ Len(pools') = Len(pools)
      /\ \A q \in 1..Len(pools): pools'[q] = IF q = p THEN r ELSE pools[q]
  BY <1>1, <1>2, <1>3, ExceptSeq
<1> QED
  BY <1>4, <1>5 DEF SamePools

LEMMA HandshakeKept ==
  ASSUME IInv, NEW u \in Calls, Handshake(u)
  PROVE  IInv'
<1>1. calls[u].pc = "handshake" /\ mapped' = mapped /\ Rest
  BY DEF Handshake, CallAt, Rest
<1>2. CASE Fail(u)
  BY <1>1, <1>2, FailKept
<1>3. CASE /\ calls' = Failed(u)
           /\ pools' = [Landed(u) EXCEPT ![calls[u].dial].backoff = TRUE]
  BY <1>1, <1>3, BackoffKept DEF CallAt
<1>4. CASE /\ calls' = [calls EXCEPT ![u].pc = "install", ![u].conn = "open"]
           /\ pools' = [pools EXCEPT ![calls[u].dial].backoff = FALSE]
  <2>1. /\ calls[u] \in Call /\ calls \in [Calls -> Call] /\ PlaceOK(calls[u])
        /\ PoolsKnow(u, calls[u], pools) /\ RegistryOK(calls[u])
        /\ {calls[u].lease, calls[u].pool, calls[u].dial} \subseteq 0..Len(pools)
        /\ Len(pools) \in Nat
    BY Known
  <2>2. calls[u].dial \in 1..Len(pools)
    BY <1>1, <2>1 DEF PlaceOK
  <2>3. SamePools
    BY <1>4, <2>2, SetBackoff
  <2>4. PICK d: d = [calls[u] EXCEPT !.pc = "install", !.conn = "open"]
    OBVIOUS
  <2>5. d \in Call
    BY <2>1, <2>4, ZenonT(30) DEF Call
  <2>6. calls' = [calls EXCEPT ![u] = d]
    BY <1>4, <2>4
  <2>7. PlaceOK(d)
    BY <1>1, <2>1, <2>4 DEF RegistryOK, PlaceOK, Flies, Early, Dialing, Connected, Call
  <2>8. PoolsKnow(u, d, pools')
    <3>1. /\ d.pc = "install" /\ d.conn = "open" /\ d.kind = calls[u].kind
          /\ d.rev = calls[u].rev /\ d.pool = calls[u].pool /\ d.dial = calls[u].dial
      BY <2>1, <2>4 DEF Call
    <3>2. Flies(calls[u]) => calls[u].pool \in 1..Len(pools)
      BY <2>1 DEF PlaceOK
    <3> QED
      BY <1>1, <2>1, <2>2, <2>3, <3>1, <3>2
      DEF SamePools, PoolsKnow, Flies, Dialing, Connected
  <2>9. \A v \in Calls \ {u}: Untouched(v)
    BY <2>1, <2>3, <2>6 DEF Untouched, SamePools
  <2>10. RegistryOK(d) /\ {d.lease, d.pool, d.dial} \subseteq 0..Len(pools)
    BY <1>1, <2>1, <2>4 DEF RegistryOK, Call
  <2> QED
    BY <1>1, <2>3, <2>5, <2>6, <2>7, <2>8, <2>9, <2>10, Within DEF CallOK, SamePools
<1> QED
  BY <1>2, <1>3, <1>4 DEF Handshake

(* A pool gets or loses one connection, its other fields stay. *)
WithControl(ps, p, w) == [ps EXCEPT ![p].control = w]
WithDedicated(ps, p, S) == [ps EXCEPT ![p].dedicated = S]

OnlyControl(qs, ps, p, w) ==
  /\ qs \in Seq(Pool) /\ Len(qs) = Len(ps)
  /\ \A q \in 1..Len(ps):
       /\ qs[q].rev = ps[q].rev /\ qs[q].revoked = ps[q].revoked
       /\ qs[q].flight = ps[q].flight /\ qs[q].dedicated = ps[q].dedicated
       /\ qs[q].control = IF q = p THEN w ELSE ps[q].control

LEMMA SetControl ==
  ASSUME NEW ps \in Seq(Pool), NEW p \in 1..Len(ps), NEW w \in Calls \union {NoCall},
         NEW qs, qs = WithControl(ps, p, w)
  PROVE  OnlyControl(qs, ps, p, w)
<1>1. ps[p] \in Pool
  BY ElementOfSeq
<1>2. PICK r: r = [ps[p] EXCEPT !.control = w]
  OBVIOUS
<1>3. r \in Pool
  BY <1>1, <1>2, ZenonT(30) DEF Pool
<1>4. /\ r.rev = ps[p].rev /\ r.revoked = ps[p].revoked /\ r.control = w
      /\ r.flight = ps[p].flight /\ r.dedicated = ps[p].dedicated
  BY <1>1, <1>2 DEF Pool
<1>5. /\ qs \in Seq(Pool) /\ Len(qs) = Len(ps)
      /\ \A q \in 1..Len(ps): qs[q] = IF q = p THEN r ELSE ps[q]
  BY <1>2, <1>3, ExceptSeq DEF WithControl
<1> QED
  BY <1>4, <1>5 DEF OnlyControl

LEMMA SetDedicated ==
  ASSUME NEW ps \in Seq(Pool), NEW p \in 1..Len(ps), NEW S \in SUBSET Calls,
         NEW qs, qs = WithDedicated(ps, p, S)
  PROVE  /\ qs \in Seq(Pool) /\ Len(qs) = Len(ps)
         /\ \A q \in 1..Len(ps):
              /\ qs[q].rev = ps[q].rev /\ qs[q].revoked = ps[q].revoked
              /\ qs[q].flight = ps[q].flight /\ qs[q].control = ps[q].control
              /\ qs[q].dedicated = IF q = p THEN S ELSE ps[q].dedicated
<1>1. ps[p] \in Pool
  BY ElementOfSeq
<1>2. PICK r: r = [ps[p] EXCEPT !.dedicated = S]
  OBVIOUS
<1>3. r \in Pool
  BY <1>1, <1>2, ZenonT(30) DEF Pool
<1>4. /\ r.rev = ps[p].rev /\ r.revoked = ps[p].revoked /\ r.control = ps[p].control
      /\ r.flight = ps[p].flight /\ r.dedicated = S
  BY <1>1, <1>2 DEF Pool
<1>5. /\ qs \in Seq(Pool) /\ Len(qs) = Len(ps)
      /\ \A q \in 1..Len(ps): qs[q] = IF q = p THEN r ELSE ps[q]
  BY <1>2, <1>3, ExceptSeq DEF WithDedicated
<1> QED
  BY <1>4, <1>5

LEMMA InstallControlKept ==
  ASSUME IInv, NEW u \in Calls, InstallControl(u)
  PROVE  IInv'
<1>1. /\ calls[u].pc = "install" /\ calls[u].kind = "control" /\ mapped' = mapped /\ Rest
      /\ pools' = WithControl(Landed(u), calls[u].pool, u)
  BY DEF InstallControl, CallAt, Rest, WithControl
<1>2. /\ calls[u] \in Call /\ calls \in [Calls -> Call] /\ PlaceOK(calls[u])
      /\ PoolsKnow(u, calls[u], pools) /\ RegistryOK(calls[u]) /\ u # NoCall
      /\ {calls[u].lease, calls[u].pool, calls[u].dial} \subseteq 0..Len(pools)
      /\ Len(pools) \in Nat /\ pools \in Seq(Pool)
  BY Known
<1>3. /\ calls[u].pool \in 1..Len(pools) /\ pools[calls[u].pool].flight = u
      /\ pools[calls[u].pool].control = NoCall
  BY <1>1, <1>2 DEF PlaceOK, PoolsKnow, Flies, Dialing
<1>4. /\ pools' \in Seq(Pool) /\ Len(pools') = Len(pools)
      /\ \A p \in 1..Len(pools):
           /\ pools'[p].rev = pools[p].rev /\ pools'[p].revoked = pools[p].revoked
           /\ pools'[p].dedicated = pools[p].dedicated
           /\ pools'[p].control = IF p = calls[u].pool THEN u ELSE pools[p].control
           /\ pools'[p].flight = IF pools[p].flight = u THEN NoCall ELSE pools[p].flight
  <2>1. PICK ps: ps = Landed(u)
    OBVIOUS
  <2>2. /\ ps \in Seq(Pool) /\ Len(ps) = Len(pools)
        /\ \A p \in 1..Len(pools):
             /\ ps[p].rev = pools[p].rev /\ ps[p].revoked = pools[p].revoked
             /\ ps[p].control = pools[p].control /\ ps[p].dedicated = pools[p].dedicated
             /\ ps[p].flight = IF pools[p].flight = u THEN NoCall ELSE pools[p].flight
    BY <1>2, <2>1, LandedFacts
  <2>3. /\ pools' \in Seq(Pool) /\ Len(pools') = Len(ps)
        /\ \A p \in 1..Len(ps):
             /\ pools'[p].rev = ps[p].rev /\ pools'[p].revoked = ps[p].revoked
             /\ pools'[p].flight = ps[p].flight /\ pools'[p].dedicated = ps[p].dedicated
             /\ pools'[p].control = IF p = calls[u].pool THEN u ELSE ps[p].control
    <3>1. pools' = WithControl(ps, calls[u].pool, u)
      BY <1>1, <2>1
    <3>2. ps \in Seq(Pool) /\ calls[u].pool \in 1..Len(ps) /\ u \in Calls \union {NoCall}
      BY <1>3, <2>2
    <3>3. OnlyControl(pools', ps, calls[u].pool, u)
      BY <3>1, <3>2, SetControl
    <3> QED
      BY <3>3 DEF OnlyControl
  <2> QED
    BY <2>2, <2>3
<1>5. PICK d: d = [calls[u] EXCEPT !.pc = "done", !.keepalive = "on"]
  OBVIOUS
<1>6. d \in Call
  BY <1>2, <1>5, ZenonT(30) DEF Call
<1>7. calls' = [calls EXCEPT ![u] = d]
  BY <1>5 DEF InstallControl
<1>8. PlaceOK(d)
  BY <1>1, <1>2, <1>5 DEF PlaceOK, Flies, Early, Dialing, Connected, Call
<1>9. PoolsKnow(u, d, pools')
  <2>1. /\ d.pc = "done" /\ d.kind = "control" /\ d.conn = calls[u].conn
        /\ d.rev = calls[u].rev /\ d.pool = calls[u].pool /\ d.dial = calls[u].dial
    BY <1>1, <1>2, <1>5 DEF Call
  <2>2. calls[u].conn # "none" /\ calls[u].dial \in 1..Len(pools)
    BY <1>1, <1>2 DEF PlaceOK, Connected
  <2>3. d.dial # 0 => pools'[d.dial].rev = d.rev
    BY <1>2, <1>4, <2>1, <2>2 DEF PoolsKnow
  <2>4. d.pool # 0 /\ u = pools'[d.pool].control
    BY <1>3, <1>4, <2>1
  <2>5. \A p \in 1..Len(pools'): pools'[p].control = u => d.pool = p
    BY <1>1, <1>2, <1>4, <2>1 DEF PoolsKnow
  <2>6. \A p \in 1..Len(pools'): u \notin pools'[p].dedicated
    BY <1>1, <1>2, <1>4 DEF PoolsKnow
  <2> QED
    BY <2>1, <2>2, <2>3, <2>4, <2>5, <2>6, DoneKnown
<1>10. \A v \in Calls \ {u}: Untouched(v)
  <2>1. \A v \in Calls \ {u}: calls'[v] = calls[v] /\ v # NoCall
    BY <1>2, <1>7, ConnectionAssumption
  <2> QED
    BY <1>3, <1>4, <2>1 DEF Untouched
<1>11. RegistryOK(d) /\ {d.lease, d.pool, d.dial} \subseteq 0..Len(pools)
  BY <1>2, <1>5 DEF RegistryOK, Call
<1> QED
  BY <1>1, <1>4, <1>6, <1>7, <1>8, <1>9, <1>10, <1>11, Within DEF CallOK

(* A control connection its pool knows no longer. *)
LEMMA Uncontrols ==
  ASSUME IInv, NEW u \in Calls, IsControl(u), pools' = Uncontrolled(u), mapped' = mapped, Rest,
         NEW d \in Call, calls' = [calls EXCEPT ![u] = d], SamePlace(d, calls[u]),
         d.conn \in {"lost", "closed"}, d.permit => calls[u].permit /\ d.keepalive # "off"
  PROVE  IInv'
<1>1. /\ calls[u] \in Call /\ calls \in [Calls -> Call] /\ PlaceOK(calls[u])
      /\ PoolsKnow(u, calls[u], pools) /\ RegistryOK(calls[u]) /\ u # NoCall
      /\ {calls[u].lease, calls[u].pool, calls[u].dial} \subseteq 0..Len(pools)
      /\ Len(pools) \in Nat /\ pools \in Seq(Pool)
  BY Known
<1>2. calls[u].pool \in 1..Len(pools) /\ pools[calls[u].pool].control = u
  BY <1>1 DEF IsControl
<1>3. calls[u].kind = "control" /\ calls[u].pc = "done" /\ calls[u].conn # "none"
  BY <1>1, <1>2 DEF PoolsKnow
<1>4. /\ pools' \in Seq(Pool) /\ Len(pools') = Len(pools)
      /\ \A p \in 1..Len(pools):
           /\ pools'[p].rev = pools[p].rev /\ pools'[p].revoked = pools[p].revoked
           /\ pools'[p].dedicated = pools[p].dedicated /\ pools'[p].flight = pools[p].flight
           /\ pools'[p].control = IF p = calls[u].pool THEN NoCall ELSE pools[p].control
  <2>1. pools' = WithControl(pools, calls[u].pool, NoCall)
    BY DEF Uncontrolled, WithControl
  <2> QED
    BY <1>1, <1>2, <2>1, SetControl DEF OnlyControl
<1>5. PlaceOK(d)
  BY <1>1, <1>3 DEF PlaceOK, SamePlace, Flies, Early, Dialing, Connected
<1>6. PoolsKnow(u, d, pools')
  <2>1. /\ d.pc = "done" /\ d.kind = "control" /\ d.rev = calls[u].rev
        /\ d.pool = calls[u].pool /\ d.dial = calls[u].dial /\ d.conn # "open"
    BY <1>3 DEF SamePlace
  <2>2. calls[u].dial # 0 => calls[u].dial \in 1..Len(pools)
    BY <1>1
  <2>3. d.dial # 0 => pools'[d.dial].rev = d.rev
    BY <1>1, <1>4, <2>1, <2>2 DEF PoolsKnow
  <2>4. \A p \in 1..Len(pools'): pools'[p].control # u /\ u \notin pools'[p].dedicated
    BY <1>1, <1>3, <1>4 DEF PoolsKnow
  <2> QED
    BY <2>1, <2>3, <2>4, DoneKnown
<1>7. \A v \in Calls \ {u}: Untouched(v)
  <2>1. \A v \in Calls \ {u}: calls'[v] = calls[v] /\ v # NoCall
    BY <1>1, ConnectionAssumption
  <2> QED
    BY <1>2, <1>4, <2>1 DEF Untouched
<1>8. RegistryOK(d) /\ {d.lease, d.pool, d.dial} \subseteq 0..Len(pools)
  BY <1>1, <1>3 DEF RegistryOK, SamePlace
<1> QED
  BY <1>4, <1>5, <1>6, <1>7, <1>8, Within DEF CallOK

LEMMA WatchControlKept ==
  ASSUME IInv, NEW u \in Calls, WatchControl(u)
  PROVE  IInv'
<1>1. PICK k \in {"off", "on", "stop"}:
        k = IF calls[u].keepalive = "on" THEN "stop" ELSE calls[u].keepalive
  BY Known DEF Call
<1>2. PICK d: d = [calls[u] EXCEPT !.keepalive = k]
  OBVIOUS
<1>3. /\ calls[u] \in Call /\ PlaceOK(calls[u]) /\ PoolsKnow(u, calls[u], pools)
      /\ IsControl(u) /\ calls[u].conn \in {"lost", "closed"} /\ pools' = Uncontrolled(u)
      /\ mapped' = mapped /\ Rest
  BY Known DEF WatchControl, Rest
<1>4. d \in Call
  BY <1>2, <1>3, ZenonT(30) DEF Call
<1>5. calls' = [calls EXCEPT ![u] = d]
  BY <1>1, <1>2 DEF WatchControl
<1>6. SamePlace(d, calls[u]) /\ d.conn = calls[u].conn /\ d.permit = calls[u].permit
      /\ d.keepalive = k
  BY <1>2, <1>3 DEF SamePlace, Call
<1>7. calls[u].kind = "control" /\ calls[u].pc = "done"
  BY <1>3, Known DEF PoolsKnow, IsControl
<1>8. d.permit => calls[u].permit /\ d.keepalive # "off"
  BY <1>1, <1>3, <1>6, <1>7 DEF PlaceOK
<1> QED
  BY <1>3, <1>4, <1>5, <1>6, <1>8, Uncontrols

LEMMA InvalidateControlKept ==
  ASSUME IInv, NEW u \in Calls, InvalidateControl(u)
  PROVE  IInv'
<1>1. PICK d: d = [calls[u] EXCEPT !.conn = "closed",
                                   !.keepalive = IF @ = "on" THEN "stop" ELSE @]
  OBVIOUS
<1>2. /\ calls[u] \in Call /\ PlaceOK(calls[u]) /\ PoolsKnow(u, calls[u], pools)
      /\ IsControl(u) /\ pools' = Uncontrolled(u) /\ mapped' = mapped /\ Rest
      /\ calls' = [calls EXCEPT ![u] = d]
  BY <1>1, Known DEF InvalidateControl, Rest
<1>3. /\ d \in Call /\ SamePlace(d, calls[u]) /\ d.conn = "closed" /\ d.permit = calls[u].permit
      /\ d.keepalive = IF calls[u].keepalive = "on" THEN "stop" ELSE calls[u].keepalive
  BY <1>1, <1>2, ClosedControlFields
<1>4. calls[u].kind = "control" /\ calls[u].pc = "done"
  BY <1>2, Known DEF PoolsKnow, IsControl
<1>5. d.permit => calls[u].permit /\ d.keepalive # "off"
  BY <1>2, <1>3, <1>4 DEF PlaceOK
<1> QED
  BY <1>2, <1>3, <1>5, Uncontrols

LEMMA KeepaliveFailsKept ==
  ASSUME IInv, NEW u \in Calls, KeepaliveFails(u)
  PROVE  IInv'
<1>1. /\ calls[u] \in Call /\ PlaceOK(calls[u]) /\ PoolsKnow(u, calls[u], pools)
      /\ RegistryOK(calls[u]) /\ mapped' = mapped /\ Rest /\ calls[u].keepalive # "off"
  BY Known DEF KeepaliveFails, Rest
<1>2. CASE IsControl(u)
  <2>1. PICK d: d = [calls[u] EXCEPT !.keepalive = "off", !.permit = FALSE, !.conn = "closed"]
    OBVIOUS
  <2>2. d \in Call
    BY <1>1, <2>1, ZenonT(30) DEF Call
  <2>3. calls' = [calls EXCEPT ![u] = d] /\ pools' = Uncontrolled(u)
    BY <1>2, <2>1 DEF KeepaliveFails
  <2>4. SamePlace(d, calls[u]) /\ d.conn = "closed" /\ ~d.permit
    BY <1>1, <2>1 DEF SamePlace, Call
  <2> QED
    BY <1>1, <1>2, <2>2, <2>3, <2>4, Uncontrols
<1>3. CASE ~IsControl(u)
  <2>1. PICK d: d = [calls[u] EXCEPT !.keepalive = "off", !.permit = FALSE,
                                     !.conn = calls[u].conn]
    OBVIOUS
  <2>2. calls[u].conn \in {"none", "open", "lost", "closed"}
    BY <1>1 DEF Call
  <2>3. d \in Call
    BY <1>1, <2>1, <2>2, ZenonT(30) DEF Call
  <2>4. calls' = [calls EXCEPT ![u] = d] /\ pools' = pools
    BY <1>3, <2>1 DEF KeepaliveFails
  <2>5. SamePlace(d, calls[u]) /\ d.conn = calls[u].conn /\ ~d.permit /\ d.keepalive = "off"
    BY <1>1, <2>1 DEF SamePlace, Call
  <2>6. PlaceOK(d)
    BY <1>1, <2>5 DEF PlaceOK, SamePlace, Flies, Early, Dialing, Connected
  <2>7. PoolsKnow(u, d, pools)
    BY <1>1, <2>5 DEF PoolsKnow, SamePlace, Flies, Dialing, Connected
  <2>8. RegistryOK(d) /\ {d.lease, d.pool, d.dial} \subseteq 0..Len(pools)
    BY <1>1, <2>5, Known DEF RegistryOK, SamePlace
  <2> QED
    BY <1>1, <2>3, <2>4, <2>6, <2>7, <2>8, Alone DEF CallOK
<1> QED
  BY <1>2, <1>3

LEMMA InsertKept ==
  ASSUME IInv, NEW u \in Calls, Insert(u)
  PROVE  IInv'
<1>1. /\ calls[u].pc = "insert" /\ mapped' = mapped /\ Rest
      /\ pools' = WithDedicated(pools, calls[u].pool,
                               pools[calls[u].pool].dedicated \union {u})
  BY DEF Insert, CallAt, Rest, WithDedicated
<1>2. /\ calls[u] \in Call /\ calls \in [Calls -> Call] /\ PlaceOK(calls[u])
      /\ PoolsKnow(u, calls[u], pools) /\ RegistryOK(calls[u])
      /\ {calls[u].lease, calls[u].pool, calls[u].dial} \subseteq 0..Len(pools)
      /\ Len(pools) \in Nat /\ pools \in Seq(Pool) /\ \A p \in 1..Len(pools): pools[p] \in Pool
  BY Known
<1>3. calls[u].pool \in 1..Len(pools) /\ calls[u].kind = "dedicated" /\ calls[u].dial # 0
  BY <1>1, <1>2 DEF PlaceOK, Connected
<1>4. pools[calls[u].pool].dedicated \union {u} \in SUBSET Calls
  BY <1>2, <1>3 DEF Pool
<1>5. /\ pools' \in Seq(Pool) /\ Len(pools') = Len(pools)
      /\ \A p \in 1..Len(pools):
           /\ pools'[p].rev = pools[p].rev /\ pools'[p].revoked = pools[p].revoked
           /\ pools'[p].flight = pools[p].flight /\ pools'[p].control = pools[p].control
           /\ pools'[p].dedicated = IF p = calls[u].pool
                                    THEN pools[calls[u].pool].dedicated \union {u}
                                    ELSE pools[p].dedicated
  BY <1>1, <1>2, <1>3, <1>4, SetDedicated
<1>6. PICK d: d = [calls[u] EXCEPT !.pc = "hook"]
  OBVIOUS
<1>7. d \in Call
  BY <1>2, <1>6, ZenonT(30) DEF Call
<1>8. calls' = [calls EXCEPT ![u] = d]
  BY <1>6 DEF Insert, CallGoto
<1>9. PlaceOK(d)
  BY <1>1, <1>2, <1>3, <1>6 DEF PlaceOK, Flies, Early, Dialing, Connected, Call
<1>10. PoolsKnow(u, d, pools')
  <2>1. /\ d.pc = "hook" /\ d.kind = "dedicated" /\ d.conn = calls[u].conn
        /\ d.rev = calls[u].rev /\ d.pool = calls[u].pool /\ d.dial = calls[u].dial
        /\ d.permit = calls[u].permit
    BY <1>2, <1>3, <1>6 DEF Call
  <2>2. calls[u].dial \in 1..Len(pools) /\ calls[u].conn # "closed"
    BY <1>1, <1>2, <1>3 DEF PlaceOK
  <2>3. /\ pools[calls[u].dial].rev = calls[u].rev
        /\ calls[u].pool = calls[u].dial \/ pools[calls[u].dial].revoked
        /\ \A p \in 1..Len(pools): pools[p].control # u /\ u \notin pools[p].dedicated
    BY <1>1, <1>2, <1>3 DEF PoolsKnow, Connected
  <2>4. /\ pools'[d.dial].rev = d.rev
        /\ d.pool = d.dial \/ pools'[d.dial].revoked
        /\ u \in pools'[d.pool].dedicated /\ d.pool # 0
        /\ \A p \in 1..Len(pools'):
             pools'[p].control # u /\ (u \in pools'[p].dedicated => d.pool = p)
    BY <1>3, <1>5, <2>1, <2>2, <2>3
  <2> QED
    BY <2>1, <2>2, <2>4 DEF PoolsKnow, Flies, Dialing
<1>11. \A v \in Calls \ {u}: Untouched(v)
  BY <1>2, <1>3, <1>5, <1>8 DEF Untouched
<1>12. RegistryOK(d) /\ {d.lease, d.pool, d.dial} \subseteq 0..Len(pools)
  BY <1>1, <1>2, <1>6 DEF RegistryOK, Call
<1> QED
  BY <1>1, <1>5, <1>7, <1>8, <1>9, <1>10, <1>11, <1>12, Within DEF CallOK

(* Close of a dedicated connection: onClose is set, so the permit is back.   *)
LEMMA CloseDedicatedKept ==
  ASSUME IInv, NEW u \in Calls, CloseDedicated(u)
  PROVE  IInv'
<1>1. calls[u].pc = "open" /\ mapped' = mapped /\ Rest
  BY DEF CloseDedicated, CallAt, Rest
<1>2. /\ calls[u] \in Call /\ calls \in [Calls -> Call] /\ PlaceOK(calls[u])
      /\ PoolsKnow(u, calls[u], pools) /\ RegistryOK(calls[u]) /\ u # NoCall
      /\ {calls[u].lease, calls[u].pool, calls[u].dial} \subseteq 0..Len(pools)
      /\ Len(pools) \in Nat /\ pools \in Seq(Pool) /\ \A p \in 1..Len(pools): pools[p] \in Pool
  BY Known
<1>3. calls[u].pool \in 1..Len(pools) /\ calls[u].kind = "dedicated"
      /\ calls[u].dial \in 1..Len(pools) /\ calls[u].hooked /\ calls[u].conn # "none"
  BY <1>1, <1>2 DEF PlaceOK, Connected
<1>4. CASE calls[u].conn = "closed"
  BY <1>1, <1>4, Goes DEF CloseDedicated
<1>5. CASE calls[u].conn # "closed"
  <2>1. pools[calls[u].pool].dedicated \ {u} \in SUBSET Calls
    BY <1>2, <1>3 DEF Pool
  <2>2. pools' = WithDedicated(pools, calls[u].pool, pools[calls[u].pool].dedicated \ {u})
    BY <1>5 DEF CloseDedicated, WithDedicated
  <2>3. /\ pools' \in Seq(Pool) /\ Len(pools') = Len(pools)
        /\ \A p \in 1..Len(pools):
             /\ pools'[p].rev = pools[p].rev /\ pools'[p].revoked = pools[p].revoked
             /\ pools'[p].flight = pools[p].flight /\ pools'[p].control = pools[p].control
             /\ pools'[p].dedicated = IF p = calls[u].pool
                                      THEN pools[calls[u].pool].dedicated \ {u}
                                      ELSE pools[p].dedicated
    BY <1>2, <1>3, <2>1, <2>2, SetDedicated
  <2>4. PICK c: c = ClosedDedicated(calls[u])
    OBVIOUS
  <2>5. /\ c \in Call /\ SamePlace(c, calls[u]) /\ c.conn = "closed" /\ ~c.permit
        /\ c.keepalive = calls[u].keepalive
    BY <1>2, <1>3, <2>4, ClosedDedicatedFields
  <2>6. PICK d: d = [c EXCEPT !.pc = "done"]
    OBVIOUS
  <2>7. d \in Call
    BY <2>5, <2>6, ZenonT(30) DEF Call
  <2>8. calls' = [calls EXCEPT ![u] = d]
    BY <1>5, <2>4, <2>6 DEF CloseDedicated
  <2>9. /\ d.pc = "done" /\ d.kind = "dedicated" /\ d.conn = "closed" /\ ~d.permit
        /\ d.keepalive = calls[u].keepalive /\ d.rev = calls[u].rev
        /\ d.lease = calls[u].lease /\ d.pool = calls[u].pool /\ d.dial = calls[u].dial
        /\ d.stale = calls[u].stale
    BY <1>3, <2>5, <2>6 DEF SamePlace, Call
  <2>10. PlaceOK(d)
    BY <1>1, <1>2, <1>3, <2>9 DEF PlaceOK, Flies, Early, Dialing, Connected
  <2>11. PoolsKnow(u, d, pools')
    BY <1>1, <1>2, <1>3, <2>3, <2>9 DEF PoolsKnow, Flies, Dialing, Connected
  <2>12. \A v \in Calls \ {u}: Untouched(v)
    BY <1>2, <1>3, <2>3, <2>8 DEF Untouched
  <2>13. RegistryOK(d) /\ {d.lease, d.pool, d.dial} \subseteq 0..Len(pools)
    BY <1>2, <2>9 DEF RegistryOK
  <2> QED
    BY <1>1, <2>3, <2>7, <2>8, <2>10, <2>11, <2>12, <2>13, Within DEF CallOK
<1> QED
  BY <1>4, <1>5

-----------------------------------------------------------------------------
(* The steps that are not one call's. *)

LEMMA BackoffEndsKept ==
  ASSUME IInv, BackoffEnds
  PROVE  IInv'
<1>1. calls' = calls /\ mapped' = mapped /\ Rest
  BY DEF BackoffEnds, Rest
<1>2. SamePools
  BY Typed, SetBackoff DEF BackoffEnds, IInv
<1>3. \A v \in Calls: CallOK(v, calls[v], pools)'
  <2>1. ASSUME NEW v \in Calls PROVE CallOK(v, calls'[v], pools')
    <3>1. Untouched(v)
      BY <1>1, <1>2 DEF SamePools, Untouched
    <3> QED
      BY <3>1, UntouchedKept DEF IInv
  <2> QED
    BY <2>1
<1>4. ConnectionTypeOK' /\ (revision <= used)'
  BY <1>1, <1>2 DEF IInv, ConnectionTypeOK, SamePools, Rest, registryVars
<1>5. OneInUse' /\ \A v \in Calls: RegistryOK(calls[v])'
  BY <1>1, <1>2 DEF IInv, SamePools, OneInUse, RegistryOK, Rest, registryVars
<1> QED
  BY <1>3, <1>4, <1>5 DEF IInv

(* Invalidate and Close: closePoolLocked and no mapped pool. *)
LEMMA ClosingAll ==
  ASSUME IInv, calls' = CallsAfterClosing(mapped), pools' = PoolsAfterClosing(mapped),
         mapped' = 0, UNCHANGED registryVars,
         closed' \in BOOLEAN, gone' \in Revisions, editors' \in [Editors -> Revisions]
  PROVE  IInv'
<1>1. /\ pools \in Seq(Pool) /\ calls \in [Calls -> Call] /\ Len(pools) \in Nat
      /\ mapped \in 0..Len(pools) /\ ConnectionTypeOK /\ OneInUse /\ Len(pools) <= MaxPools
      /\ \A v \in Calls: CallOK(v, calls[v], pools) /\ RegistryOK(calls[v])
      /\ \A v \in Calls: {calls[v].lease, calls[v].pool, calls[v].dial} \subseteq 0..Len(pools)
  BY Typed DEF IInv, ConnectionTypeOK
<1>2. /\ pools' \in Seq(Pool) /\ Len(pools') = Len(pools) /\ calls' \in [Calls -> Call]
      /\ \A p \in 1..Len(pools):
           /\ p = mapped => pools'[p].revoked
           /\ p # mapped => pools'[p] = pools[p]
  BY <1>1, ClosingFacts
<1>3. \A v \in Calls: SamePlace(calls'[v], calls[v])
  BY <1>1, ClosedCalls
<1>4. \A v \in Calls: CallOK(v, calls[v], pools)'
  BY <1>1, ClosingKeeps
<1>5. OneInUse'
  BY <1>1, <1>2 DEF OneInUse
<1>6. \A v \in Calls: RegistryOK(calls[v])'
  BY <1>1, <1>3 DEF RegistryOK, SamePlace, registryVars
<1>7. \A v \in Calls: {calls'[v].lease, calls'[v].pool, calls'[v].dial} \subseteq 0..Len(pools')
  BY <1>1, <1>2, <1>3 DEF SamePlace
<1>8. revision' \in Revisions /\ used' \in Revisions /\ revision' <= used'
  BY DEF IInv, ConnectionTypeOK, registryVars
<1> QED
  BY <1>1, <1>2, <1>4, <1>5, <1>6, <1>7, <1>8 DEF IInv, ConnectionTypeOK

LEMMA InvalidateKept ==
  ASSUME IInv, NEW e \in Editors, Invalidate(e)
  PROVE  IInv'
<1>1. /\ editors \in [Editors -> Revisions] /\ gone \in Revisions /\ closed \in BOOLEAN
      /\ 0 \in Revisions
  BY ConnectionAssumption DEF IInv, ConnectionTypeOK, Revisions
<1>2. closed' \in BOOLEAN /\ gone' \in Revisions /\ editors' \in [Editors -> Revisions]
  BY <1>1 DEF Invalidate
<1> QED
  BY <1>2, ClosingAll DEF Invalidate

LEMMA CloseManagerKept ==
  ASSUME IInv, CloseManager
  PROVE  IInv'
  BY ClosingAll DEF CloseManager, IInv, ConnectionTypeOK

(* The registry never goes back to a revision it had. *)
LEMMA RegistryKept ==
  ASSUME IInv, Register \/ \E e \in Editors: ChangeHost(e)
  PROVE  IInv'
<1>1. /\ calls' = calls /\ pools' = pools /\ mapped' = mapped /\ closed' = closed /\ gone' = gone
      /\ revision \in Nat /\ used \in Nat /\ MaxRevision \in Nat /\ revision <= used
      /\ used <= MaxRevision
      /\ \A v \in Calls: calls[v].rev \in Nat /\ RegistryOK(calls[v]) /\ PlaceOK(calls[v])
  BY Known, ConnectionAssumption DEF Register, ChangeHost, IInv, ConnectionTypeOK, Revisions, Call
<1>2. /\ revision' \in Revisions /\ used' \in Revisions /\ revision' <= used' /\ used <= used'
      /\ revision' = 0 \/ used < revision'
      /\ editors' \in [Editors -> Revisions]
  BY <1>1 DEF Register, ChangeHost, IInv, ConnectionTypeOK, Revisions
<1>3. ASSUME NEW v \in Calls PROVE RegistryOK(calls[v])'
  <2>1. calls[v].stale => calls[v].rev # 0
    BY <1>1 DEF PlaceOK, Early
  <2> QED
    BY <1>1, <1>2, <2>1 DEF RegistryOK, Revisions
<1> QED
  BY <1>1, <1>2, <1>3 DEF IInv, ConnectionTypeOK, OneInUse

-----------------------------------------------------------------------------
(* The theorems. *)

LEMMA InitInv == ConnectionInit => IInv
<1> SUFFICES ASSUME ConnectionInit PROVE IInv
  OBVIOUS
<1>1. /\ NewCall.pc = "idle" /\ NewCall.kind = "control" /\ NewCall.rev = 0
      /\ NewCall.lease = 0 /\ NewCall.pool = 0 /\ NewCall.dial = 0 /\ ~NewCall.permit
      /\ NewCall.conn = "none" /\ NewCall.keepalive = "off" /\ ~NewCall.stale
  BY DEF NewCall
<1>2. NewCall \in Call
  BY ConnectionAssumption DEF NewCall, Call, Revisions
<1>3. pools \in Seq(Pool) /\ Len(pools) = 0
  BY EmptySeq DEF ConnectionInit
<1>4. ConnectionTypeOK /\ revision <= used
  <2>1. /\ revision \in Revisions /\ used \in Revisions /\ gone \in Revisions
        /\ editors \in [Editors -> Revisions] /\ revision <= used
    BY ConnectionAssumption DEF ConnectionInit, Revisions
  <2>2. /\ calls \in [Calls -> Call] /\ closed \in BOOLEAN
        /\ \A u \in Calls: calls[u] = NewCall
    BY <1>2 DEF ConnectionInit
  <2>3. /\ Len(pools) <= MaxPools /\ mapped \in 0..Len(pools)
        /\ \A u \in Calls: {calls[u].lease, calls[u].pool, calls[u].dial} \subseteq 0..Len(pools)
    <3>1. mapped = 0
      BY DEF ConnectionInit
    <3> QED
      BY <3>1, <1>1, <1>3, <2>2, ConnectionAssumption
  <2> QED
    BY <1>3, <2>1, <2>2, <2>3 DEF ConnectionTypeOK
<1>5. OneInUse
  BY <1>3 DEF OneInUse
<1>6. ASSUME NEW u \in Calls PROVE CallOK(u, calls[u], pools) /\ RegistryOK(calls[u])
  <2>1. calls[u] = NewCall
    BY DEF ConnectionInit
  <2>2. PlaceOK(NewCall)
    BY <1>1 DEF PlaceOK, Flies, Early, Dialing, Connected
  <2>3. PoolsKnow(u, NewCall, pools)
    BY <1>1, <1>3 DEF PoolsKnow, Flies, Dialing, Connected
  <2>4. RegistryOK(NewCall)
    BY <1>1 DEF ConnectionInit, RegistryOK
  <2> QED
    BY <2>1, <2>2, <2>3, <2>4 DEF CallOK
<1> QED
  BY <1>4, <1>5, <1>6 DEF IInv

LEMMA RunKept ==
  ASSUME IInv, NEW u \in Calls, RunCall(u)
  PROVE  IInv'
<1>1. CASE Use(u)
  <2>1. CASE CallGoto(u, "done")
    BY <1>1, <2>1, GoesSteps
  <2>2. CASE CallGoto(u, "control")
    BY <1>1, <2>2, GoesSteps
  <2> QED
    BY <1>1, <2>1, <2>2, UseDedicatedKept DEF Use, CallGoto
<1> QED
  BY <1>1, LeaseKept, GetControlKept, GoesSteps, JoinFlightKept, CreateControlKept,
     CheckClosedKept, DialPoolKept, EnterKept, AcquireKept, ResolveConfigKept, HandshakeKept,
     InstallControlKept, DedicatedPoolKept, InsertKept, SetOnCloseKept
  DEF RunCall

LEMMA NextInv == IInv /\ [ConnectionNext]_connectionVars => IInv'
<1> SUFFICES ASSUME IInv, [ConnectionNext]_connectionVars PROVE IInv'
  OBVIOUS
<1>1. CASE UNCHANGED connectionVars
  BY <1>1
  DEF connectionVars, registryVars, IInv, ConnectionTypeOK, OneInUse, CallOK, PlaceOK, PoolsKnow,
      RegistryOK
<1> QED
  BY <1>1, ReadHostKept, RunKept, WatchControlKept, KeepaliveStopsKept, LoseKept,
     KeepaliveFailsKept, InvalidateControlKept, CloseDedicatedKept, BackoffEndsKept,
     RegistryKept, InvalidateKept, CloseManagerKept
  DEF ConnectionNext, Watch

(* In every state of the SSH connections to a host, the mapped pool is the   *)
(* only one that is not revoked, and what the pools know of a call agrees    *)
(* with how far it is, what it holds and the revision it leased (Lease,      *)
(* getControl, dialTransport, dialDedicated, closePoolLocked).               *)
THEOREM ConnectionInvariant == ConnectionSpec => []IInv
  BY InitInv, NextInv, PTL DEF ConnectionSpec

(* The variables keep their types: every pool a call is about to use exists, *)
(* wherever an editor, Close or another call intervened.                     *)
THEOREM ConnectionTypes == ConnectionSpec => []ConnectionTypeOK
<1>1. IInv => ConnectionTypeOK
  BY DEF IInv
<1> QED
  BY <1>1, ConnectionInvariant, PTL

(* Every open connection of a pool in use is one that closePoolLocked will   *)
(* find, and a second control connection is never opened beside one in use   *)
(* (LookForControl, DoChan and createControlConnection's second look).       *)
THEOREM EverythingIsTracked == ConnectionSpec => []NothingUntracked
<1>1. ASSUME IInv, NEW u \in Calls, Live(u), ~pools[calls[u].pool].revoked
      PROVE  u = pools[calls[u].pool].control \/ u \in pools[calls[u].pool].dedicated
  BY <1>1, Known DEF Live, PoolsKnow, PlaceOK, Connected
<1>2. IInv => NothingUntracked
  BY <1>1 DEF NothingUntracked
<1> QED
  BY <1>2, ConnectionInvariant, PTL

(* However dialing failed and whoever closed the connection, a call that is  *)
(* over holds a permit of a pool in use only for a control connection with a *)
(* keepalive loop, which gives the permit back (dialTransport's errors,      *)
(* onClose, keepaliveLoop).                                                  *)
THEOREM PermitsAreReturned == ConnectionSpec => []PermitsComeBack
<1>1. ASSUME IInv, NEW u \in Calls, CallAt(u, "done"), calls[u].permit,
             ~pools[calls[u].dial].revoked
      PROVE  calls[u].keepalive # "off"
  BY <1>1, Known DEF CallAt, PoolsKnow, PlaceOK, Call
<1>2. IInv => PermitsComeBack
  BY <1>1 DEF PermitsComeBack
<1> QED
  BY <1>2, ConnectionInvariant, PTL

(* A call whose host had been changed or removed before it set out to dial   *)
(* never has a connection: resolveSSHConfig compares the revision it leased, *)
(* and the registry never gives a revision out twice.                        *)
THEOREM StaleLeasesNeverConnect == ConnectionSpec => []StaleLeaseNeverConnects
<1>1. IInv => StaleLeaseNeverConnects
  BY DEF IInv, CallOK, PlaceOK, StaleLeaseNeverConnects
<1> QED
  BY <1>1, ConnectionInvariant, PTL

=============================================================================
