--------------------------- MODULE SessionsProofs ---------------------------
(***************************************************************************)
(* Proofs about the sessions of a host, for any requests, names, control   *)
(* connections and changes by other users of tmux.  The invariant says of  *)
(* a request what the command it is at means for what it has changed; and  *)
(* of the connections that only the one of the pool works.                 *)
(***************************************************************************)
EXTENDS Sessions, SequenceTheorems, TLAPS

Running == {"get", "send", "wait", "drain"}

(* The commands of each operation. *)
Belongs(op, cmd) ==
  /\ cmd \in {"list", "panes"} => op = "list"
  /\ cmd \in {"probe", "new"} => op = "create"
  /\ cmd \in {"hasNew", "rename"} => op = "rename"
  /\ cmd = "kill" => op = "kill"
  /\ cmd \in {"has", "look"} => op # "list"
  /\ cmd = "look" => op # "kill"

(* The lookup that follows a change. *)
Looks(op, cmd) == cmd = "look" /\ op # "keep"

Untried(q) == q.effects = 0 /\ q.late = {} /\ ~q.acted /\ ~q.refused
Changed(q) == q.effects = 1 /\ q.late = {} /\ q.acted /\ ~q.refused

(* One command at most is given up, and nothing was changed by then. *)
OneLate(q) == q.late = {} \/ (q.effects = 0 /\ \E c \in q.late: q.late = {c})

(* What AnswersAreTrue says of one request. *)
TrueAnswer(q) ==
  /\ q.effects <= 1
  /\ q.result = "ok" /\ q.op \notin {"list", "keep"} => q.effects = 1 /\ q.late = {}
  /\ q.result \in {"in_use", "not_found", "unavailable"} => NoEffect(q) \/ q.acted \/ q.refused

RequestOK(q) ==
  /\ q.pc = "idle" => Untried(q) /\ q.way = "none" /\ q.result = "none"
  /\ q.pc \in Running =>
       /\ q.result = "none" /\ Belongs(q.op, q.cmd)
       /\ q.way \in {"done", "duplicate"} => q.cmd \in Mutations
       /\ q.way = "found" => q.cmd \notin Mutations
       /\ IF Looks(q.op, q.cmd) THEN Changed(q)
          ELSE /\ q.late = {} /\ ~q.acted /\ ~q.refused
               /\ q.effects = IF q.way = "done" THEN 1 ELSE 0
  /\ q.pc \notin {"wait", "drain"} => q.way = "none"
  /\ q.pc = "done" => OneLate(q) /\ TrueAnswer(q)

(* A remote command is on a connection; who drains waits for one that is gone. *)
OnConnection(q, cs) ==
  /\ q.client \in 0..Len(cs)
  /\ q.pc = "get" => remote
  /\ remote /\ q.pc \in {"send", "wait", "drain"} => q.client # 0
  /\ q.pc = "drain" => remote /\ cs[q.client] # "up"

OneUp == \A n \in 1..Len(clients): clients[n] = "up" => n = control

IInv ==
  /\ SessionsTypeOK /\ OneUp
  /\ \A r \in Requests: RequestOK(reqs[r]) /\ OnConnection(reqs[r], clients)

-----------------------------------------------------------------------------
(* What becomes of the variables of a request. *)

LEMMA NamesGenerated ==
  /\ Len(Generated) \in Nat /\ 1 \in 1..Len(Generated)
  /\ \A i \in 1..Len(Generated): Generated[i] \in Names
  BY SessionsAssumption, LenProperties, ElementOfSeq

LEMMA NewFacts ==
  ASSUME NEW op \in {"create", "rename", "keep", "kill", "list"}, NEW a \in Names, NEW b \in Names,
         NEW nameless \in BOOLEAN
  PROVE  LET q == NewSessionRequest(op, a, b, nameless)
         IN /\ q \in SessionRequest
            /\ q.op = op /\ q.pc = "idle" /\ q.client = 0 /\ q.way = "none" /\ q.result = "none"
            /\ Untried(q) /\ q.nameless = nameless
<1>1. 0 \in 0..MaxClients /\ 1 \in 1..Len(Generated)
  BY SessionsAssumption, NamesGenerated
<1>2. PICK q: q = NewSessionRequest(op, a, b, nameless)
  OBVIOUS
<1>3. q \in SessionRequest
  BY <1>1, <1>2 DEF NewSessionRequest, SessionRequest, Commands
<1>4. /\ q.op = op /\ q.pc = "idle" /\ q.client = 0 /\ q.way = "none" /\ q.result = "none"
      /\ Untried(q) /\ q.nameless = nameless
  BY <1>2 DEF NewSessionRequest, Untried
<1> QED
  BY <1>2, <1>3, <1>4

LEMMA RunsFacts ==
  ASSUME NEW q \in SessionRequest, NEW cmd \in Commands
  PROVE  LET d == Runs(q, cmd)
         IN /\ d \in SessionRequest
            /\ d.pc = (IF remote THEN "get" ELSE "send") /\ d.cmd = cmd /\ d.client = 0
            /\ d.way = "none" /\ d.op = q.op /\ d.result = q.result
            /\ d.effects = q.effects /\ d.late = q.late
            /\ d.acted = q.acted /\ d.refused = q.refused
<1>1. PICK pc \in {"get", "send"}: pc = IF remote THEN "get" ELSE "send"
  OBVIOUS
<1>2. PICK d: d = [q EXCEPT !.pc = pc, !.cmd = cmd, !.way = "none", !.client = 0]
  OBVIOUS
<1>3. Runs(q, cmd) = d
  BY <1>1, <1>2 DEF Runs
<1>4. 0 \in 0..MaxClients
  BY SessionsAssumption
<1>5. d \in SessionRequest
  BY <1>1, <1>2, <1>4, ZenonT(30) DEF SessionRequest
<1>6. /\ d.pc = pc /\ d.cmd = cmd /\ d.client = 0
      /\ d.way = "none" /\ d.op = q.op /\ d.result = q.result
      /\ d.effects = q.effects /\ d.late = q.late
      /\ d.acted = q.acted /\ d.refused = q.refused
  BY <1>2 DEF SessionRequest
<1> QED
  BY <1>1, <1>3, <1>5, <1>6

LEMMA ReturnsFacts ==
  ASSUME NEW q \in SessionRequest,
         NEW res \in {"none", "ok", "in_use", "not_found", "unavailable", "unknown", "error"}
  PROVE  LET d == Returns(q, res)
         IN /\ d \in SessionRequest
            /\ d.pc = "done" /\ d.client = 0 /\ d.way = "none" /\ d.op = q.op /\ d.result = res
            /\ d.effects = q.effects /\ d.late = q.late
            /\ d.acted = q.acted /\ d.refused = q.refused
<1>1. /\ q.op \in {"create", "rename", "keep", "kill", "list"} /\ q.nameless \in BOOLEAN
      /\ q.acted \in BOOLEAN /\ q.effects \in 0..2 /\ q.refused \in BOOLEAN
      /\ q.late \in SUBSET (Mutations \X Names \X Names)
  BY DEF SessionRequest
<1>2. PICK n: n = NewSessionRequest(q.op, Generated[1], Generated[1], q.nameless)
  OBVIOUS
<1>3. n \in SessionRequest /\ n.op = q.op /\ n.client = 0 /\ n.way = "none"
  <2>1. Generated[1] \in Names
    BY NamesGenerated
  <2> QED
    BY <1>1, <1>2, <2>1, NewFacts
<1>4. PICK b \in BOOLEAN: b = (q.doubt /\ res = "in_use")
  BY DEF SessionRequest
<1>5. PICK d: d = [n EXCEPT !.pc = "done", !.result = res, !.acted = q.acted,
                            !.effects = q.effects, !.late = q.late, !.refused = q.refused,
                            !.doubt = b]
  OBVIOUS
<1>6. Returns(q, res) = d
  BY <1>2, <1>4, <1>5 DEF Returns
<1>7. d \in SessionRequest
  <2>1. PICK m: m = [n EXCEPT !.pc = "done", !.result = res]
    OBVIOUS
  <2>2. m \in SessionRequest
    BY <1>3, <2>1, ZenonT(60) DEF SessionRequest
  <2>3. PICK l: l = [m EXCEPT !.acted = q.acted, !.effects = q.effects, !.late = q.late]
    OBVIOUS
  <2>4. l \in SessionRequest
    BY <1>1, <2>2, <2>3, ZenonT(30) DEF SessionRequest
  <2>5. d = [l EXCEPT !.refused = q.refused, !.doubt = b]
    BY <1>5, <2>1, <2>3
  <2> QED
    BY <1>1, <2>4, <2>5, ZenonT(30) DEF SessionRequest
<1>8. /\ d.pc = "done" /\ d.client = 0 /\ d.way = "none" /\ d.op = q.op /\ d.result = res
      /\ d.effects = q.effects /\ d.late = q.late
      /\ d.acted = q.acted /\ d.refused = q.refused
  BY <1>3, <1>5 DEF SessionRequest
<1> QED
  BY <1>6, <1>7, <1>8

-----------------------------------------------------------------------------
(* A request goes on to its next command or is over. *)

Onward(d) ==
  /\ d \in SessionRequest /\ RequestOK(d) /\ d.client = 0
  /\ d.pc \in {"done", IF remote THEN "get" ELSE "send"}

LEMMA RunsOn ==
  ASSUME NEW q \in SessionRequest, NEW cmd \in Commands, q.result = "none", Belongs(q.op, cmd),
         IF Looks(q.op, cmd) THEN Changed(q) ELSE Untried(q)
  PROVE  Onward(Runs(q, cmd))
<1>1. PICK d: d = Runs(q, cmd)
  OBVIOUS
<1>2. /\ d \in SessionRequest
      /\ d.pc = (IF remote THEN "get" ELSE "send") /\ d.cmd = cmd /\ d.client = 0
      /\ d.way = "none" /\ d.op = q.op /\ d.result = q.result
      /\ d.effects = q.effects /\ d.late = q.late
      /\ d.acted = q.acted /\ d.refused = q.refused
  BY <1>1, RunsFacts
<1>3. IF Looks(d.op, d.cmd) THEN Changed(d) ELSE Untried(d)
  BY <1>2 DEF Changed, Untried
<1>4. RequestOK(d)
  BY <1>2, <1>3 DEF RequestOK, Running, Untried
<1> QED
  BY <1>1, <1>2, <1>4 DEF Onward

LEMMA ReturnsOn ==
  ASSUME NEW q \in SessionRequest,
         NEW res \in {"ok", "in_use", "not_found", "unavailable", "unknown", "error"},
         OneLate(q), q.effects <= 1,
         res = "ok" /\ q.op \notin {"list", "keep"} => q.effects = 1 /\ q.late = {},
         res \in {"in_use", "not_found", "unavailable"} => NoEffect(q) \/ q.acted \/ q.refused
  PROVE  Onward(Returns(q, res))
<1>1. PICK d: d = Returns(q, res)
  OBVIOUS
<1>2. /\ d \in SessionRequest
      /\ d.pc = "done" /\ d.client = 0 /\ d.way = "none" /\ d.op = q.op /\ d.result = res
      /\ d.effects = q.effects /\ d.late = q.late
      /\ d.acted = q.acted /\ d.refused = q.refused
  BY <1>1, ReturnsFacts
<1>3. OneLate(d) /\ TrueAnswer(d)
  BY <1>2 DEF OneLate, TrueAnswer, NoEffect
<1>4. RequestOK(d)
  BY <1>2, <1>3 DEF RequestOK, Running
<1> QED
  BY <1>1, <1>2, <1>4 DEF Onward

(* A mutation is preceded by a look on the hub's machine only. *)
LEMMA ChangesOn ==
  ASSUME NEW q \in SessionRequest, NEW cmd \in {"new", "rename", "kill"}, q.result = "none",
         Belongs(q.op, cmd) \/ (q.op = "keep" /\ ~remote), Untried(q)
  PROVE  Onward(Changes(q, cmd))
<1>1. CASE remote
  <2>1. Onward(Runs(q, cmd))
    BY <1>1, RunsOn DEF Looks, Commands, Mutations
  <2> QED
    BY <1>1, <2>1 DEF Changes
<1>2. CASE ~remote
  <2>1. Belongs(q.op, "has")
    BY DEF Belongs
  <2>2. Onward(Runs(q, "has"))
    BY <2>1, RunsOn DEF Looks, Commands, Mutations
  <2> QED
    BY <1>2, <2>2 DEF Changes
<1> QED
  BY <1>1, <1>2

LEMMA FirstOn ==
  ASSUME NEW q \in SessionRequest, q.result = "none", Untried(q), q.nameless => q.op = "create"
  PROVE  Onward(First(q))
<1>1. q.op \in {"create", "rename", "keep", "kill", "list"}
  BY DEF SessionRequest
<1>2. CASE q.op = "list"
  <2>1. Onward(Runs(q, "list"))
    BY <1>2, RunsOn DEF Belongs, Looks, Commands
  <2> QED
    BY <1>2, <2>1 DEF First
<1>3. CASE q.op # "list" /\ q.nameless
  <2>1. Onward(Runs(q, "probe"))
    BY <1>3, RunsOn DEF Belongs, Looks, Commands
  <2> QED
    BY <1>3, <2>1 DEF First
<1>4. CASE q.op = "create" /\ ~q.nameless
  <2>1. Onward(Changes(q, "new"))
    BY <1>4, ChangesOn DEF Belongs
  <2> QED
    BY <1>4, <2>1 DEF First
<1>5. CASE q.op = "kill" /\ ~q.nameless
  <2>1. Onward(Changes(q, "kill"))
    BY <1>5, ChangesOn DEF Belongs
  <2> QED
    BY <1>5, <2>1 DEF First
<1>6. CASE q.op = "keep" /\ ~q.nameless /\ remote
  <2>1. Onward(Runs(q, "look"))
    BY <1>6, RunsOn DEF Belongs, Looks, Commands
  <2> QED
    BY <1>6, <2>1 DEF First
<1>7. CASE q.op \in {"rename", "keep"} /\ ~q.nameless /\ (q.op = "keep" => ~remote)
  <2>1. Onward(Changes(q, "rename"))
    BY <1>7, ChangesOn DEF Belongs
  <2> QED
    BY <1>7, <2>1 DEF First
<1> QED
  BY <1>1, <1>2, <1>3, <1>4, <1>5, <1>6, <1>7

(* What is left of a command when its request goes on, given what it is told *)
(* of the outcome: a confirmed change is one, a refused one is none.         *)
Settled(q, o) ==
  /\ q.result = "none" /\ Belongs(q.op, q.cmd)
  /\ q.cmd \in Mutations =>
       /\ ~q.acted /\ OneLate(q) /\ q.effects <= 1
       /\ o = "done" => q.effects = 1 /\ q.late = {} /\ ~q.refused
       /\ o \in {"duplicate", "missing", "unavailable"} => NoEffect(q) \/ q.refused
       /\ o # "found"
  /\ q.cmd \notin Mutations =>
       /\ IF Looks(q.op, q.cmd) THEN Changed(q) ELSE Untried(q)
       /\ o \in {"found", "missing", "unavailable", "error"}

LEMMA AfterProbeOn ==
  ASSUME NEW q \in SessionRequest, NEW o \in Outcomes, Settled(q, o), q.cmd = "probe"
  PROVE  Onward(AfterProbe(q, o))
<1>1. q.op = "create" /\ q.result = "none" /\ Untried(q)
  BY DEF Settled, Belongs, Looks, Mutations
<1>2. CASE o # "found"
  <2>1. PICK b \in BOOLEAN: b = (o # "missing")
    OBVIOUS
  <2>2. PICK d: d = [q EXCEPT !.doubt = b]
    OBVIOUS
  <2>3. d \in SessionRequest
    BY <2>1, <2>2, ZenonT(30) DEF SessionRequest
  <2>4. d.op = "create" /\ d.result = "none" /\ Untried(d)
    BY <1>1, <2>2 DEF SessionRequest, Untried
  <2>5. Onward(Changes(d, "new"))
    BY <2>3, <2>4, ChangesOn DEF Belongs
  <2> QED
    BY <1>2, <2>1, <2>2, <2>5 DEF AfterProbe
<1>3. CASE o = "found" /\ q.try = Len(Generated)
  <2>1. PICK n: n = Returns(q, "in_use")
    OBVIOUS
  <2>2. Onward(n)
    BY <1>1, <2>1, ReturnsOn DEF Untried, OneLate, NoEffect
  <2>3. PICK d: d = [n EXCEPT !.cmd = "probe"]
    OBVIOUS
  <2>4. n.pc = "done"
    BY <2>1, ReturnsFacts
  <2>5. d \in SessionRequest
    BY <2>2, <2>3, ZenonT(30) DEF SessionRequest, Onward, Commands
  <2>6. /\ d.pc = "done" /\ d.client = n.client /\ d.way = n.way /\ d.op = n.op
        /\ d.result = n.result /\ d.effects = n.effects /\ d.late = n.late
        /\ d.acted = n.acted /\ d.refused = n.refused
    BY <2>2, <2>3, <2>4 DEF Onward, SessionRequest
  <2>7. Onward(d)
    BY <2>2, <2>4, <2>5, <2>6
    DEF Onward, RequestOK, Running, OneLate, TrueAnswer, NoEffect
  <2> QED
    BY <1>3, <2>1, <2>3, <2>7 DEF AfterProbe
<1>4. CASE o = "found" /\ q.try # Len(Generated)
  <2>1. q.try \in 1..Len(Generated) /\ q.try + 1 \in 1..Len(Generated)
    BY <1>4, NamesGenerated DEF SessionRequest
  <2>2. PICK d: d = [q EXCEPT !.try = q.try + 1, !.name = Generated[q.try + 1]]
    OBVIOUS
  <2>3. PICK t \in 1..Len(Generated): t = q.try + 1
    BY <2>1
  <2>4. PICK a \in Names: a = Generated[q.try + 1]
    BY <2>1, NamesGenerated
  <2>5. d \in SessionRequest
    BY <2>2, <2>3, <2>4, ZenonT(30) DEF SessionRequest
  <2>6. d.op = "create" /\ d.result = "none" /\ Untried(d)
    BY <1>1, <2>2 DEF SessionRequest, Untried
  <2>7. Onward(Runs(d, "probe"))
    BY <2>5, <2>6, RunsOn DEF Belongs, Looks, Commands
  <2> QED
    BY <1>4, <2>2, <2>7 DEF AfterProbe
<1> QED
  BY <1>2, <1>3, <1>4

LEMMA AfterHasOn ==
  ASSUME NEW q \in SessionRequest, NEW o \in Outcomes, Settled(q, o), q.cmd = "has"
  PROVE  Onward(AfterHas(q, o = "found"))
<1>1. /\ q.op \in {"create", "rename", "keep", "kill"} /\ q.result = "none" /\ Untried(q)
  BY DEF Settled, Belongs, Looks, Mutations, SessionRequest
<1>2. Onward(Returns(q, "in_use")) /\ Onward(Returns(q, "not_found"))
  BY <1>1, ReturnsOn DEF Untried, OneLate, NoEffect
<1>3. q.op = "create" => Onward(Runs(q, "new"))
  BY <1>1, RunsOn DEF Belongs, Looks, Commands, Mutations
<1>4. q.op = "kill" => Onward(Runs(q, "kill"))
  BY <1>1, RunsOn DEF Belongs, Looks, Commands, Mutations
<1>5. q.op = "keep" => Onward(Runs(q, "look"))
  BY <1>1, RunsOn DEF Belongs, Looks, Commands
<1>6. q.op = "rename" => Onward(Runs(q, "hasNew"))
  BY <1>1, RunsOn DEF Belongs, Looks, Commands
<1> QED
  BY <1>1, <1>2, <1>3, <1>4, <1>5, <1>6 DEF AfterHas

LEMMA AfterHasNewOn ==
  ASSUME NEW q \in SessionRequest, NEW o \in Outcomes, Settled(q, o), q.cmd = "hasNew"
  PROVE  Onward(AfterHasNew(q, o = "found"))
<1>1. q.op = "rename" /\ q.result = "none" /\ Untried(q)
  BY DEF Settled, Belongs, Looks, Mutations
<1>2. Onward(Returns(q, "in_use"))
  BY <1>1, ReturnsOn DEF Untried, OneLate, NoEffect
<1>3. Onward(Runs(q, "rename"))
  BY <1>1, RunsOn DEF Belongs, Looks, Commands, Mutations
<1> QED
  BY <1>2, <1>3 DEF AfterHasNew

(* A change that was reported done is one; the request then says so or looks *)
(* for what it made.                                                         *)
LEMMA AfterMutationOn ==
  ASSUME NEW q \in SessionRequest, NEW o \in Outcomes, Settled(q, o), q.cmd \in Mutations
  PROVE  Onward(AfterMutation(q, o))
<1>1. /\ q.op \in {"create", "rename", "kill"} /\ q.result = "none" /\ ~q.acted
      /\ OneLate(q) /\ q.effects <= 1
  BY DEF Settled, Belongs, Mutations
<1>2. CASE o = "done"
  <2>1. q.effects = 1 /\ q.late = {} /\ ~q.refused
    BY <1>2 DEF Settled
  <2>2. PICK d: d = [q EXCEPT !.acted = TRUE]
    OBVIOUS
  <2>3. d \in SessionRequest
    BY <2>2, ZenonT(30) DEF SessionRequest
  <2>4. d.op = q.op /\ d.result = "none" /\ Changed(d)
    BY <1>1, <2>1, <2>2 DEF SessionRequest, Changed
  <2>5. q.op = "kill" => Onward(Returns(d, "ok"))
    BY <2>3, <2>4, ReturnsOn DEF Changed, OneLate
  <2>6. q.op # "kill" => Onward(Runs(d, "look"))
    BY <1>1, <2>3, <2>4, RunsOn DEF Belongs, Looks, Commands
  <2> QED
    BY <1>2, <2>2, <2>5, <2>6 DEF AfterMutation
<1>3. CASE o # "done"
  <2>1. /\ o \in {"duplicate", "missing", "unavailable", "unknown", "error"}
        /\ o \in {"duplicate", "missing", "unavailable"} => NoEffect(q) \/ q.refused
    BY <1>3 DEF Settled, Outcomes
  <2>2. PICK res: res = CASE o = "duplicate" -> "in_use" [] o = "missing" -> "not_found"
                         [] OTHER -> o
    OBVIOUS
  <2>3. /\ res \in {"in_use", "not_found", "unavailable", "unknown", "error"}
        /\ res \in {"in_use", "not_found", "unavailable"} => NoEffect(q) \/ q.refused
    BY <2>1, <2>2
  <2>4. Onward(Returns(q, res))
    BY <1>1, <2>3, ReturnsOn
  <2> QED
    BY <1>3, <2>2, <2>4 DEF AfterMutation
<1> QED
  BY <1>2, <1>3

LEMMA AfterLookOn ==
  ASSUME NEW q \in SessionRequest, NEW o \in Outcomes, Settled(q, o), q.cmd = "look"
  PROVE  Onward(AfterLook(q, o))
<1>1. /\ q.op \in {"create", "rename", "keep"} /\ q.result = "none"
      /\ q.op # "keep" => Changed(q)
      /\ q.op = "keep" => Untried(q)
      /\ o \in {"found", "missing", "unavailable", "error"}
  BY DEF Settled, Belongs, Looks, Mutations, SessionRequest
<1>2. OneLate(q) /\ q.effects <= 1 /\ (NoEffect(q) \/ q.acted)
      /\ (q.op # "keep" => q.effects = 1 /\ q.late = {})
  BY <1>1 DEF Changed, Untried, OneLate, NoEffect
<1>3. Onward(Returns(q, "ok")) /\ Onward(Returns(q, "not_found"))
  BY <1>2, ReturnsOn
<1>4. o \in {"unavailable", "error"} => Onward(Returns(q, o))
  BY <1>2, ReturnsOn
<1> QED
  BY <1>1, <1>3, <1>4 DEF AfterLook

LEMMA AfterOn ==
  ASSUME NEW q \in SessionRequest, NEW o \in Outcomes, Settled(q, o)
  PROVE  Onward(After(q, o))
<1>1. q.cmd \in Mutations \union {"probe", "has", "hasNew", "look", "list", "panes"}
  BY DEF SessionRequest, Commands
<1>2. CASE q.cmd = "probe"
  BY <1>2, AfterProbeOn DEF After, Mutations
<1>3. CASE q.cmd = "has"
  BY <1>3, AfterHasOn DEF After, Mutations
<1>4. CASE q.cmd = "hasNew"
  BY <1>4, AfterHasNewOn DEF After, Mutations
<1>5. CASE q.cmd \in Mutations
  BY <1>5, AfterMutationOn DEF After, Mutations
<1>6. CASE q.cmd = "look"
  BY <1>6, AfterLookOn DEF After, Mutations
<1>7. CASE q.cmd \in {"list", "panes"}
  <2>1. /\ q.op = "list" /\ q.result = "none" /\ Untried(q)
        /\ o \in {"found", "missing", "unavailable", "error"}
    BY <1>7 DEF Settled, Belongs, Looks, Mutations
  <2>2. Onward(Runs(q, "panes"))
    BY <2>1, RunsOn DEF Belongs, Looks, Commands
  <2>3. Onward(Returns(q, "ok"))
    BY <2>1, ReturnsOn DEF Untried, OneLate
  <2>4. o \in {"unavailable", "error"} => Onward(Returns(q, o))
    BY <2>1, ReturnsOn DEF Untried, OneLate, NoEffect
  <2> QED
    BY <1>7, <2>1, <2>2, <2>3, <2>4 DEF After, Mutations
<1> QED
  BY <1>1, <1>2, <1>3, <1>4, <1>5, <1>6, <1>7

(* A mutation that is left on its way is the one that is late.               *)
LEMMA LeavesFacts ==
  ASSUME NEW q \in SessionRequest
  PROVE  LET d == Leaves(q)
         IN /\ d \in SessionRequest
            /\ d.pc = q.pc /\ d.cmd = q.cmd /\ d.op = q.op /\ d.result = q.result
            /\ d.effects = q.effects /\ d.acted = q.acted /\ d.refused = q.refused
            /\ IF q.way = "sent" /\ q.cmd \in Mutations
               THEN \E c: d.late = q.late \union {c} ELSE d.late = q.late
<1>1. CASE q.way = "sent" /\ q.cmd \in Mutations
  <2>1. PICK c: c = <<q.cmd, q.name, q.new>>
    OBVIOUS
  <2>2. c \in Mutations \X Names \X Names
    BY <1>1, <2>1 DEF SessionRequest
  <2>3. PICK l \in SUBSET (Mutations \X Names \X Names): l = q.late \union {c}
    BY <2>2 DEF SessionRequest
  <2>4. PICK d: d = [q EXCEPT !.late = l]
    OBVIOUS
  <2>5. d \in SessionRequest
    BY <2>4, ZenonT(30) DEF SessionRequest
  <2>6. Leaves(q) = d
    BY <1>1, <2>1, <2>3, <2>4 DEF Leaves
  <2>7. /\ d.pc = q.pc /\ d.cmd = q.cmd /\ d.op = q.op /\ d.result = q.result
        /\ d.effects = q.effects /\ d.acted = q.acted /\ d.refused = q.refused
        /\ d.late = q.late \union {c}
    BY <2>3, <2>4 DEF SessionRequest
  <2> QED
    BY <1>1, <2>5, <2>6, <2>7
<1>2. CASE ~(q.way = "sent" /\ q.cmd \in Mutations)
  BY <1>2 DEF Leaves
<1> QED
  BY <1>1, <1>2

(* What a request may be told of its command, q, when it goes on.            *)
MayHear(q, o) ==
  /\ q.result = "none" /\ Belongs(q.op, q.cmd) /\ (q.refused => q.cmd \in Mutations)
  /\ IF Looks(q.op, q.cmd) THEN Changed(q)
     ELSE q.late = {} /\ ~q.acted /\ q.effects = IF q.way = "done" THEN 1 ELSE 0
  /\ q.cmd \in Mutations =>
       /\ o = "done" => q.way = "done" /\ ~q.refused
       /\ o \in {"duplicate", "missing"} => q.way \notin {"done", "sent"}
       /\ o = "unavailable" => q.way = "none" \/ q.refused
       /\ o # "found"
  /\ q.cmd \notin Mutations =>
       q.way # "done" /\ o \in {"found", "missing", "unavailable", "error"}

LEMMA HearsOn ==
  ASSUME NEW q \in SessionRequest, NEW o \in Outcomes, MayHear(q, o)
  PROVE  Onward(After(Leaves(q), o))
<1>1. PICK d: d = Leaves(q)
  OBVIOUS
<1>2. /\ d \in SessionRequest
      /\ d.pc = q.pc /\ d.cmd = q.cmd /\ d.op = q.op /\ d.result = q.result
      /\ d.effects = q.effects /\ d.acted = q.acted /\ d.refused = q.refused
      /\ IF q.way = "sent" /\ q.cmd \in Mutations
         THEN \E c: d.late = q.late \union {c} ELSE d.late = q.late
  BY <1>1, LeavesFacts
<1>3. CASE q.cmd \in Mutations
  <2>1. ~Looks(q.op, q.cmd)
    BY <1>3 DEF Looks, Mutations
  <2>2. q.late = {} /\ ~q.acted /\ q.effects = (IF q.way = "done" THEN 1 ELSE 0)
    BY <2>1 DEF MayHear
  <2>3. OneLate(d)
    <3>1. CASE q.way = "sent"
      <4>1. PICK c: d.late = q.late \union {c}
        BY <1>2, <1>3, <3>1
      <4>2. d.late = {c} /\ c \in d.late
        BY <2>2, <4>1
      <4> QED
        BY <1>2, <2>2, <3>1, <4>2 DEF OneLate
    <3>2. CASE q.way # "sent"
      BY <1>2, <2>2, <3>2 DEF OneLate
    <3> QED
      BY <3>1, <3>2
  <2>4. q.way # "sent" => d.late = {}
    BY <1>2, <2>2
  <2>5. /\ o = "done" => d.effects = 1 /\ d.late = {} /\ ~d.refused
        /\ o \in {"duplicate", "missing", "unavailable"} => NoEffect(d) \/ d.refused
        /\ o # "found"
    BY <1>2, <1>3, <2>2, <2>4 DEF MayHear, NoEffect
  <2>6. Settled(d, o)
    BY <1>2, <1>3, <2>2, <2>3, <2>5 DEF Settled, MayHear
  <2> QED
    BY <1>1, <1>2, <2>6, AfterOn
<1>4. CASE q.cmd \notin Mutations
  <2>1. d.late = q.late /\ ~q.refused
    BY <1>2, <1>4 DEF MayHear
  <2>2. IF Looks(d.op, d.cmd) THEN Changed(d) ELSE Untried(d)
    BY <1>2, <1>4, <2>1 DEF MayHear, Changed, Untried
  <2>3. Settled(d, o)
    BY <1>2, <1>4, <2>2 DEF Settled, MayHear
  <2> QED
    BY <1>1, <1>2, <2>3, AfterOn
<1> QED
  BY <1>3, <1>4

-----------------------------------------------------------------------------
(* The connections. *)

States == {"up", "lost", "closed"}

(* No connection that stopped working works again, and only the one of the   *)
(* pool works.                                                               *)
Wires ==
  /\ clients' \in Seq(States) /\ Len(clients) <= Len(clients') /\ Len(clients') <= MaxClients
  /\ control' \in 0..Len(clients')
  /\ \A n \in 1..Len(clients'): clients'[n] = "up" => n = control'
  /\ \A n \in 1..Len(clients): clients'[n] = "up" => clients[n] = "up"

LEMMA WiresUnchanged ==
  ASSUME IInv, clients' = clients, control' = control
  PROVE  Wires
<1>1. Len(clients) \in Nat
  BY LenProperties DEF IInv, SessionsTypeOK
<1> QED
  BY <1>1 DEF Wires, IInv, SessionsTypeOK, OneUp, States

(* Nothing is left of the connection a request gives up, whether the pool    *)
(* still had it or not.                                                      *)
LEMMA Invalidated ==
  ASSUME IInv, NEW n \in 1..Len(clients), InvalidateControl(n)
  PROVE  /\ Wires /\ Len(clients') = Len(clients) /\ clients'[n] # "up"
         /\ \A m \in 1..Len(clients): clients'[m] = "closed" => m = n \/ clients[m] = "closed"
<1>1. /\ clients \in Seq(States) /\ Len(clients) \in Nat /\ control \in 0..Len(clients)
      /\ Len(clients) <= MaxClients
      /\ \A m \in 1..Len(clients): clients[m] = "up" => m = control
  BY LenProperties DEF IInv, SessionsTypeOK, OneUp, States
<1>2. CASE control = n
  <2>1. control' = 0 /\ clients' = [clients EXCEPT ![n] = "closed"]
    BY <1>2 DEF InvalidateControl
  <2>2. "closed" \in States
    BY DEF States
  <2>3. /\ clients' \in Seq(States) /\ Len(clients') = Len(clients)
        /\ \A m \in 1..Len(clients): clients'[m] = IF m = n THEN "closed" ELSE clients[m]
    BY <1>1, <2>1, <2>2, ExceptSeq
  <2> QED
    BY <1>1, <1>2, <2>1, <2>3 DEF Wires
<1>3. CASE control # n
  <2>1. control' = control /\ clients' = clients
    BY <1>3 DEF InvalidateControl
  <2> QED
    BY <1>1, <1>3, <2>1, WiresUnchanged
<1> QED
  BY <1>2, <1>3

LEMMA Steps ==
  ASSUME IInv, NEW r \in Requests, NEW d \in SessionRequest, Set(r, d),
         RequestOK(d), OnConnection(d, clients'), Wires,
         remote' = remote, server' \subseteq Names, edits' = edits
  PROVE  IInv'
<1>1. /\ reqs \in [Requests -> SessionRequest] /\ clients \in Seq(States) /\ Len(clients) \in Nat
      /\ Len(clients') \in Nat /\ clients' \in Seq(States)
      /\ \A v \in Requests: RequestOK(reqs[v]) /\ OnConnection(reqs[v], clients)
  BY LenProperties DEF IInv, SessionsTypeOK, Wires, States
<1>2. /\ reqs' \in [Requests -> SessionRequest] /\ reqs'[r] = d
      /\ \A v \in Requests \ {r}: reqs'[v] = reqs[v]
  BY <1>1 DEF Set
<1>3. ASSUME NEW v \in Requests \ {r} PROVE OnConnection(reqs[v], clients)'
  <2>1. /\ reqs[v] \in SessionRequest /\ OnConnection(reqs[v], clients) /\ reqs'[v] = reqs[v]
        /\ Len(clients) <= Len(clients')
        /\ \A n \in 1..Len(clients): clients'[n] = "up" => clients[n] = "up"
    BY <1>1, <1>2 DEF Wires
  <2>2. PICK c: c = reqs[v].client
    OBVIOUS
  <2>3. c \in 0..Len(clients) /\ c \in 0..Len(clients')
    BY <1>1, <2>1, <2>2 DEF OnConnection
  <2>4. reqs[v].pc = "drain" => c \in 1..Len(clients) /\ clients'[c] # "up"
    BY <1>1, <2>1, <2>2, <2>3 DEF OnConnection
  <2> QED
    BY <2>1, <2>2, <2>3, <2>4 DEF OnConnection
<1>4. \A v \in Requests: RequestOK(reqs[v])' /\ OnConnection(reqs[v], clients)'
  <2>1. RequestOK(reqs[r])' /\ OnConnection(reqs[r], clients)'
    BY <1>2 DEF OnConnection
  <2>2. ASSUME NEW v \in Requests \ {r} PROVE RequestOK(reqs[v])'
    BY <1>1, <1>2
  <2> QED
    BY <1>3, <2>1, <2>2
<1>5. SessionsTypeOK'
  BY <1>1, <1>2 DEF SessionsTypeOK, IInv, Wires, States
<1>6. OneUp'
  BY DEF OneUp, Wires
<1> QED
  BY <1>4, <1>5, <1>6 DEF IInv

(* A request that goes on has no connection any more. *)
LEMMA GoesOnKept ==
  ASSUME IInv, NEW r \in Requests, NEW q \in SessionRequest, NEW o \in Outcomes, MayHear(q, o),
         GoesOn(r, q, o), Wires,
         remote' = remote, server' = server, edits' = edits
  PROVE  IInv' /\ reqs'[r].pc \in {"done", IF remote THEN "get" ELSE "send"}
<1>1. PICK d: d = After(Leaves(q), o)
  OBVIOUS
<1>2. Onward(d) /\ Set(r, d)
  BY <1>1, HearsOn DEF GoesOn
<1>3. Len(clients') \in Nat
  BY LenProperties DEF Wires
<1>4. OnConnection(d, clients')
  BY <1>2, <1>3 DEF Onward, OnConnection
<1>5. reqs'[r] = d
  BY <1>2 DEF Set, IInv, SessionsTypeOK
<1>6. server' \subseteq Names
  BY DEF IInv, SessionsTypeOK
<1> QED
  BY <1>2, <1>4, <1>5, <1>6, Steps DEF Onward

(* What the invariant says of the request that steps. *)
LEMMA Known ==
  ASSUME IInv, NEW r \in Requests
  PROVE  /\ reqs[r] \in SessionRequest /\ RequestOK(reqs[r]) /\ OnConnection(reqs[r], clients)
         /\ Len(clients) \in Nat /\ clients \in Seq(States) /\ control \in 0..Len(clients)
         /\ Len(clients) <= MaxClients /\ MaxClients \in Nat /\ server \subseteq Names
  BY LenProperties, SessionsAssumption DEF IInv, SessionsTypeOK, States

(* A request hears nothing of a command it has not sent but that it could    *)
(* not be.                                                                   *)
LEMMA HearsOfNone ==
  ASSUME NEW q \in SessionRequest, RequestOK(q), q.pc \in {"get", "send"},
         NEW o \in {"unavailable", "error"}
  PROVE  MayHear(q, o)
  BY DEF RequestOK, Running, MayHear, Looks, Changed, Mutations

LEMMA BeginKept ==
  ASSUME IInv, NEW r \in Requests, Begin(r)
  PROVE  IInv'
<1>1. PICK q \in SessionRequest:
         /\ q.result = "none" /\ Untried(q) /\ (q.nameless => q.op = "create")
         /\ Set(r, First(q))
  <2>1. Generated[1] \in Names
    BY NamesGenerated
  <2>2. ASSUME NEW a \in Names, NEW b \in Names, NEW nameless \in BOOLEAN,
               NEW op \in {"create", "rename", "keep", "kill", "list"},
               nameless => op = "create", Set(r, First(NewSessionRequest(op, a, b, nameless)))
        PROVE  \E q \in SessionRequest:
                 /\ q.result = "none" /\ Untried(q)
                 /\ (q.nameless => q.op = "create") /\ Set(r, First(q))
    <3>1. PICK q: q = NewSessionRequest(op, a, b, nameless)
      OBVIOUS
    <3>2. /\ q \in SessionRequest /\ q.result = "none" /\ Untried(q)
          /\ q.op = op /\ q.nameless = nameless
      BY <3>1, NewFacts
    <3> QED
      BY <2>2, <3>1, <3>2
  <2>3. ASSUME NEW a \in Names, NEW b \in Names,
               Set(r, First(NewSessionRequest(IF a = b THEN "keep" ELSE "rename", a, b, FALSE)))
        PROVE  \E op \in {"keep", "rename"}: Set(r, First(NewSessionRequest(op, a, b, FALSE)))
    BY <2>3
  <2>4. \E a, b \in Names, nameless \in BOOLEAN,
            op \in {"create", "rename", "keep", "kill", "list"}:
          (nameless => op = "create") /\ Set(r, First(NewSessionRequest(op, a, b, nameless)))
    BY <2>1, <2>3 DEF Begin
  <2> QED
    BY <2>2, <2>4
<1>2. PICK d: d = First(q)
  OBVIOUS
<1>3. Onward(d) /\ Set(r, d)
  BY <1>1, <1>2, FirstOn
<1>4. /\ remote' = remote /\ server' = server /\ clients' = clients /\ control' = control
      /\ edits' = edits
  BY DEF Begin
<1>5. OnConnection(d, clients')
  BY <1>3, <1>4, Known DEF Onward, OnConnection
<1> QED
  BY <1>3, <1>4, <1>5, Steps, WiresUnchanged, Known DEF Onward

-----------------------------------------------------------------------------
(* The connection of a request and what is sent on it. *)

LEMMA GetControlKept ==
  ASSUME IInv, NEW r \in Requests, GetControl(r)
  PROVE  IInv'
<1>1. /\ reqs[r].pc = "get" /\ remote' = remote /\ server' = server /\ edits' = edits
      /\ server' \subseteq Names
  BY Known DEF GetControl, RequestAt
<1>2. /\ reqs[r] \in SessionRequest /\ RequestOK(reqs[r]) /\ OnConnection(reqs[r], clients)
      /\ Len(clients) \in Nat /\ clients \in Seq(States) /\ control \in 0..Len(clients)
      /\ Len(clients) <= MaxClients /\ MaxClients \in Nat
  BY Known
<1>3. ASSUME NEW n \in 1..MaxClients, Set(r, [reqs[r] EXCEPT !.pc = "send", !.client = n]),
             n \in 1..Len(clients'), Len(clients') \in Nat, Wires
      PROVE  IInv'
  <2>1. PICK d: d = [reqs[r] EXCEPT !.pc = "send", !.client = n]
    OBVIOUS
  <2>2. n \in 0..MaxClients
    OBVIOUS
  <2>3. d \in SessionRequest
    BY <1>2, <2>1, <2>2, ZenonT(30) DEF SessionRequest
  <2>4. /\ d.pc = "send" /\ d.client = n /\ d.cmd = reqs[r].cmd /\ d.way = reqs[r].way
        /\ d.op = reqs[r].op /\ d.result = reqs[r].result /\ d.effects = reqs[r].effects
        /\ d.late = reqs[r].late /\ d.acted = reqs[r].acted /\ d.refused = reqs[r].refused
    BY <1>2, <2>1 DEF SessionRequest
  <2>5. RequestOK(d)
    BY <1>1, <1>2, <2>4 DEF RequestOK, Running, Changed
  <2>6. OnConnection(d, clients')
    BY <1>3, <2>4 DEF OnConnection
  <2> QED
    BY <1>1, <1>3, <2>1, <2>3, <2>5, <2>6, Steps
<1>4. CASE /\ control # 0
           /\ Set(r, [reqs[r] EXCEPT !.pc = "send", !.client = control])
           /\ UNCHANGED <<clients, control>>
  <2>1. PICK n \in 1..MaxClients: n = control
    BY <1>2, <1>4
  <2>2. n \in 1..Len(clients') /\ Len(clients') \in Nat /\ Wires
    BY <1>2, <1>4, <2>1, WiresUnchanged
  <2> QED
    BY <1>3, <1>4, <2>1, <2>2
<1>5. CASE /\ control = 0 /\ Len(clients) < MaxClients
           /\ clients' = Append(clients, "up") /\ control' = Len(clients) + 1
           /\ Set(r, [reqs[r] EXCEPT !.pc = "send", !.client = Len(clients) + 1])
  <2>1. /\ clients' \in Seq(States) /\ Len(clients') = Len(clients) + 1
        /\ \A n \in 1..Len(clients): clients'[n] = clients[n]
    BY <1>2, <1>5, AppendProperties DEF States
  <2>2. \A n \in 1..Len(clients): clients[n] # "up"
    BY <1>2, <1>5 DEF IInv, OneUp
  <2>3. Wires
    BY <1>2, <1>5, <2>1, <2>2 DEF Wires
  <2>4. PICK n \in 1..MaxClients: n = Len(clients) + 1
    BY <1>2, <1>5
  <2>5. n \in 1..Len(clients') /\ Len(clients') \in Nat
    BY <1>2, <2>1, <2>4
  <2> QED
    BY <1>3, <1>5, <2>3, <2>4, <2>5
<1>6. CASE GoesOn(r, reqs[r], "unavailable") /\ UNCHANGED <<clients, control>>
  <2>1. MayHear(reqs[r], "unavailable")
    BY <1>1, <1>2, HearsOfNone
  <2> QED
    BY <1>1, <1>2, <1>6, <2>1, WiresUnchanged, GoesOnKept DEF Outcomes
<1> QED
  BY <1>4, <1>5, <1>6 DEF GetControl

(* A command is on its way, and its request waits for it. *)
LEMMA SentKept ==
  ASSUME IInv, NEW r \in Requests, reqs[r].pc = "send",
         Set(r, [[reqs[r] EXCEPT !.way = "sent"] EXCEPT !.pc = "wait"]),
         UNCHANGED <<remote, server, clients, control, edits>>
  PROVE  IInv' /\ reqs'[r].pc = "wait"
<1>1. /\ reqs[r] \in SessionRequest /\ RequestOK(reqs[r]) /\ OnConnection(reqs[r], clients)
      /\ server' \subseteq Names
  BY Known
<1>2. PICK s: s = [reqs[r] EXCEPT !.way = "sent"]
  OBVIOUS
<1>3. s \in SessionRequest
  BY <1>1, <1>2, ZenonT(30) DEF SessionRequest
<1>4. PICK d: d = [s EXCEPT !.pc = "wait"]
  OBVIOUS
<1>5. d \in SessionRequest
  BY <1>3, <1>4, ZenonT(30) DEF SessionRequest
<1>6. /\ d.pc = "wait" /\ d.client = reqs[r].client /\ d.cmd = reqs[r].cmd /\ d.way = "sent"
      /\ d.op = reqs[r].op /\ d.result = reqs[r].result /\ d.effects = reqs[r].effects
      /\ d.late = reqs[r].late /\ d.acted = reqs[r].acted /\ d.refused = reqs[r].refused
  BY <1>1, <1>2, <1>3, <1>4 DEF SessionRequest
<1>7. RequestOK(d)
  BY <1>1, <1>6 DEF RequestOK, Running, Changed
<1>8. OnConnection(d, clients')
  BY <1>1, <1>6 DEF OnConnection
<1> QED
  <2>1. reqs'[r] = d
    BY <1>2, <1>4 DEF Set, IInv, SessionsTypeOK
  <2> QED
    BY <1>1, <1>2, <1>4, <1>5, <1>6, <1>7, <1>8, <2>1, WiresUnchanged, Steps

(* A command that was sent although Start failed. *)
LEMMA RefusedHears ==
  ASSUME IInv, NEW r \in Requests, reqs[r].pc = "send", NEW q,
         q = [[reqs[r] EXCEPT !.way = "sent"] EXCEPT !.refused = reqs[r].cmd \in Mutations \/ @]
  PROVE  q \in SessionRequest /\ MayHear(q, "unavailable")
<1>1. reqs[r] \in SessionRequest /\ RequestOK(reqs[r])
  BY Known
<1>2. PICK s: s = [reqs[r] EXCEPT !.way = "sent"]
  OBVIOUS
<1>3. s \in SessionRequest /\ s.refused = reqs[r].refused
  <2>1. s \in SessionRequest
    BY <1>1, <1>2, ZenonT(30) DEF SessionRequest
  <2> QED
    BY <1>1, <1>2, <2>1 DEF SessionRequest
<1>4. ~reqs[r].refused
  BY <1>1 DEF RequestOK, Running, Changed
<1>5. PICK b \in BOOLEAN: b <=> reqs[r].cmd \in Mutations
  <2>1. CASE reqs[r].cmd \in Mutations
    BY <2>1
  <2>2. CASE reqs[r].cmd \notin Mutations
    BY <2>2
  <2> QED
    BY <2>1, <2>2
<1>6. q = [s EXCEPT !.refused = b]
  <2>1. q = [s EXCEPT !.refused = reqs[r].cmd \in Mutations \/ s.refused]
    BY <1>2
  <2>2. (reqs[r].cmd \in Mutations \/ s.refused) = b
    BY <1>3, <1>4, <1>5
  <2> QED
    BY <2>1, <2>2
<1>7. q \in SessionRequest
  BY <1>3, <1>6, ZenonT(30) DEF SessionRequest
<1>8. /\ q.cmd = reqs[r].cmd /\ q.way = "sent" /\ q.refused = b
      /\ q.op = reqs[r].op /\ q.result = reqs[r].result /\ q.effects = reqs[r].effects
      /\ q.late = reqs[r].late /\ q.acted = reqs[r].acted
  <2>1. /\ s.cmd = reqs[r].cmd /\ s.way = "sent"
        /\ s.op = reqs[r].op /\ s.result = reqs[r].result /\ s.effects = reqs[r].effects
        /\ s.late = reqs[r].late /\ s.acted = reqs[r].acted
    BY <1>1, <1>2 DEF SessionRequest
  <2>2. /\ q.cmd = s.cmd /\ q.way = s.way /\ q.refused = b
        /\ q.op = s.op /\ q.result = s.result /\ q.effects = s.effects
        /\ q.late = s.late /\ q.acted = s.acted
    BY <1>3, <1>6 DEF SessionRequest
  <2> QED
    BY <2>1, <2>2
<1>9. MayHear(q, "unavailable")
  BY <1>1, <1>4, <1>5, <1>8 DEF MayHear, RequestOK, Running, Looks, Changed, Mutations
<1> QED
  BY <1>7, <1>9

LEMMA StartKept ==
  ASSUME IInv, NEW r \in Requests, StartCommand(r)
  PROVE  IInv' /\ reqs'[r].pc # "send"
<1>1. /\ remote /\ reqs[r].pc = "send" /\ remote' = remote /\ server' = server
      /\ edits' = edits
  BY DEF StartCommand, RequestAt
<1>2. /\ reqs[r] \in SessionRequest /\ RequestOK(reqs[r]) /\ OnConnection(reqs[r], clients)
      /\ Len(clients) \in Nat
  BY Known
<1>3. reqs[r].client \in 1..Len(clients)
  BY <1>1, <1>2 DEF OnConnection
<1>4. CASE /\ Set(r, [[reqs[r] EXCEPT !.way = "sent"] EXCEPT !.pc = "wait"])
           /\ UNCHANGED <<clients, control>>
  BY <1>1, <1>4, SentKept
<1>5. CASE /\ InvalidateControl(reqs[r].client)
           /\ \/ GoesOn(r, reqs[r], "unavailable")
              \/ GoesOn(r, [[reqs[r] EXCEPT !.way = "sent"]
                            EXCEPT !.refused = reqs[r].cmd \in Mutations \/ @], "unavailable")
  <2>1. Wires
    BY <1>3, <1>5, Invalidated
  <2>2. MayHear(reqs[r], "unavailable")
    BY <1>1, <1>2, HearsOfNone
  <2>3. PICK q: q = [[reqs[r] EXCEPT !.way = "sent"]
                     EXCEPT !.refused = reqs[r].cmd \in Mutations \/ @]
    OBVIOUS
  <2>4. q \in SessionRequest /\ MayHear(q, "unavailable")
    BY <1>1, <2>3, RefusedHears
  <2>5. GoesOn(r, reqs[r], "unavailable") \/ GoesOn(r, q, "unavailable")
    BY <1>5, <2>3
  <2> QED
    BY <1>1, <1>2, <2>1, <2>2, <2>4, <2>5, GoesOnKept DEF Outcomes
<1> QED
  BY <1>4, <1>5 DEF StartCommand

LEMMA LocalStartKept ==
  ASSUME IInv, NEW r \in Requests, LocalStart(r)
  PROVE  IInv'
<1>1. /\ reqs[r].pc = "send" /\ UNCHANGED <<remote, server, clients, control, edits>>
  BY DEF LocalStart, RequestAt
<1>2. reqs[r] \in SessionRequest /\ RequestOK(reqs[r])
  BY Known
<1>3. MayHear(reqs[r], "error")
  BY <1>1, <1>2, HearsOfNone
<1>4. CASE GoesOn(r, reqs[r], "error")
  BY <1>1, <1>2, <1>3, <1>4, WiresUnchanged, GoesOnKept DEF Outcomes
<1>5. CASE Set(r, [reqs[r] EXCEPT !.pc = "wait", !.way = "sent"])
  <2>1. [reqs[r] EXCEPT !.pc = "wait", !.way = "sent"]
          = [[reqs[r] EXCEPT !.way = "sent"] EXCEPT !.pc = "wait"]
    BY <1>2 DEF SessionRequest
  <2> QED
    BY <1>1, <1>5, <2>1, SentKept
<1> QED
  BY <1>4, <1>5 DEF LocalStart

-----------------------------------------------------------------------------
(* What tmux makes of a command. *)

LEMMA ReplyFacts ==
  ASSUME NEW cmd \in Commands, NEW name \in Names, NEW new \in Names, server \subseteq Names
  PROVE  /\ Reply(cmd, name, new) \in {"found", "missing", "done", "duplicate"}
         /\ Reply(cmd, name, new) \in {"done", "duplicate"} => cmd \in Mutations
         /\ Reply(cmd, name, new) = "found" => cmd \notin Mutations
         /\ Performed(cmd, name, new) \subseteq Names
<1>1. /\ Reply(cmd, name, new) \in {"found", "missing", "done", "duplicate"}
      /\ Reply(cmd, name, new) \in {"done", "duplicate"} => cmd \in Mutations
      /\ Reply(cmd, name, new) = "found" => cmd \notin Mutations
  BY DEF Reply, Mutations, Commands
<1>2. CASE Reply(cmd, name, new) # "done"
  BY <1>1, <1>2 DEF Performed
<1>3. CASE Reply(cmd, name, new) = "done"
  <2>1. cmd \in {"new", "kill", "rename"}
    BY <1>1, <1>3 DEF Mutations
  <2>2. cmd = "new" => Performed(cmd, name, new) = server \union {name}
    BY <1>3 DEF Performed
  <2>3. cmd = "kill" => Performed(cmd, name, new) = server \ {name}
    BY <1>3 DEF Performed
  <2>4. cmd = "rename" => Performed(cmd, name, new) = (server \ {name}) \union {new}
    BY <1>3 DEF Performed
  <2> QED
    BY <1>1, <2>1, <2>2, <2>3, <2>4
<1> QED
  BY <1>1, <1>2, <1>3

LEMMA PerformKept ==
  ASSUME IInv, NEW r \in Requests, Perform(r)
  PROVE  IInv'
<1>1. /\ reqs[r] \in SessionRequest /\ RequestOK(reqs[r]) /\ OnConnection(reqs[r], clients)
      /\ server \subseteq Names
  BY Known
<1>2. /\ reqs[r].way = "sent" /\ remote' = remote /\ clients' = clients /\ control' = control
      /\ edits' = edits
  BY DEF Perform
<1>3. PICK reply: reply = Reply(reqs[r].cmd, Asked(reqs[r]), reqs[r].new)
  OBVIOUS
<1>4. /\ reply \in {"found", "missing", "done", "duplicate"}
      /\ reply \in {"done", "duplicate"} => reqs[r].cmd \in Mutations
      /\ reply = "found" => reqs[r].cmd \notin Mutations
      /\ server' \subseteq Names
  <2>1. reqs[r].cmd \in Commands /\ Asked(reqs[r]) \in Names /\ reqs[r].new \in Names
    BY <1>1 DEF SessionRequest, Asked
  <2> QED
    BY <1>1, <1>3, <2>1, ReplyFacts DEF Perform
<1>5. /\ reqs[r].pc \in {"wait", "drain"}
      /\ reqs[r].effects \in {0, 1} /\ (reply = "done" => reqs[r].effects = 0)
  BY <1>1, <1>2, <1>4 DEF RequestOK, SessionRequest, Running, Looks, Changed, Mutations
<1>6. PICK n \in {0, 1}: n = IF reply = "done" THEN 1 ELSE reqs[r].effects
  BY <1>5
<1>7. n = Effects(reqs[r], reply)
  BY <1>5, <1>6 DEF Effects
<1>8. PICK d: d = [reqs[r] EXCEPT !.way = reply, !.effects = n]
  OBVIOUS
<1>9. d \in SessionRequest
  <2>1. n \in 0..2
    BY <1>6
  <2> QED
    BY <1>1, <1>4, <1>8, <2>1, ZenonT(30) DEF SessionRequest
<1>10. /\ d.pc = reqs[r].pc /\ d.client = reqs[r].client /\ d.cmd = reqs[r].cmd
       /\ d.way = reply /\ d.effects = n /\ d.op = reqs[r].op /\ d.result = reqs[r].result
       /\ d.late = reqs[r].late /\ d.acted = reqs[r].acted /\ d.refused = reqs[r].refused
  BY <1>1, <1>8 DEF SessionRequest
<1>11. RequestOK(d)
  BY <1>1, <1>2, <1>4, <1>5, <1>6, <1>10 DEF RequestOK, Running, Looks, Changed, Mutations
<1>12. OnConnection(d, clients')
  BY <1>1, <1>2, <1>10 DEF OnConnection
<1>13. Set(r, d)
  BY <1>3, <1>7, <1>8 DEF Perform
<1> QED
  BY <1>2, <1>4, <1>9, <1>11, <1>12, <1>13, WiresUnchanged, Steps

(* A command that was given up changes something now, or nothing ever. *)
LEMMA PerformLateKept ==
  ASSUME IInv, NEW r \in Requests, PerformLate(r)
  PROVE  IInv'
<1>1. /\ reqs[r] \in SessionRequest /\ RequestOK(reqs[r]) /\ OnConnection(reqs[r], clients)
      /\ server \subseteq Names
  BY Known
<1>2. PICK c \in reqs[r].late:
        LET q == [reqs[r] EXCEPT !.late = @ \ {c}]
        IN \/ /\ server' = Performed(c[1], c[2], c[3])
              /\ Set(r, [q EXCEPT !.effects = Effects(q, Reply(c[1], c[2], c[3]))])
           \/ Set(r, q) /\ UNCHANGED server
  BY DEF PerformLate
<1>3. remote' = remote /\ clients' = clients /\ control' = control /\ edits' = edits
  BY DEF PerformLate
<1>4. /\ reqs[r].pc = "done" /\ reqs[r].effects = 0 /\ reqs[r].late = {c}
      /\ TrueAnswer(reqs[r])
  BY <1>1, <1>2 DEF RequestOK, Running, Untried, Changed, OneLate, SessionRequest
<1>5. c \in Mutations \X Names \X Names
  BY <1>1, <1>2 DEF SessionRequest
<1>6. c[1] \in Commands /\ c[2] \in Names /\ c[3] \in Names
  BY <1>5 DEF Commands
<1>7. PICK reply: reply = Reply(c[1], c[2], c[3])
  OBVIOUS
<1>8. Performed(c[1], c[2], c[3]) \subseteq Names
  BY <1>1, <1>6, ReplyFacts
<1>9. PICK q: q = [reqs[r] EXCEPT !.late = {}]
  OBVIOUS
<1>10. q = [reqs[r] EXCEPT !.late = @ \ {c}]
  BY <1>4, <1>9
<1>11. q \in SessionRequest /\ q.effects = 0
  <2>1. q \in SessionRequest
    BY <1>1, <1>9, ZenonT(30) DEF SessionRequest
  <2> QED
    BY <1>1, <1>4, <1>9 , <2>1 DEF SessionRequest
<1>12. PICK n \in {0, 1}: n = Effects(q, reply)
  BY <1>11 DEF Effects
<1>13. PICK d: d = [q EXCEPT !.effects = n]
  OBVIOUS
<1>14. d \in SessionRequest /\ d.effects = n
  <2>1. n \in 0..2
    BY <1>12
  <2>2. d \in SessionRequest
    BY <1>11, <1>13, <2>1, ZenonT(30) DEF SessionRequest
  <2> QED
    BY <1>11, <1>13, <2>2 DEF SessionRequest
<1>15. ASSUME NEW e \in SessionRequest, e \in {q, d}
       PROVE  RequestOK(e) /\ OnConnection(e, clients')
  <2>1. /\ e.pc = "done" /\ e.client = reqs[r].client /\ e.way = reqs[r].way
        /\ e.effects \in {0, 1} /\ e.op = reqs[r].op /\ e.result = reqs[r].result
        /\ e.late = {} /\ e.acted = reqs[r].acted /\ e.refused = reqs[r].refused
    <3>1. /\ q.pc = "done" /\ q.client = reqs[r].client /\ q.way = reqs[r].way
          /\ q.op = reqs[r].op /\ q.result = reqs[r].result
          /\ q.late = {} /\ q.acted = reqs[r].acted /\ q.refused = reqs[r].refused
      BY <1>1, <1>4, <1>9 DEF SessionRequest
    <3>2. /\ d.pc = q.pc /\ d.client = q.client /\ d.way = q.way
          /\ d.op = q.op /\ d.result = q.result
          /\ d.late = q.late /\ d.acted = q.acted /\ d.refused = q.refused
      BY <1>11, <1>13 DEF SessionRequest
    <3> QED
      BY <1>11, <1>14, <1>15, <3>1, <3>2
  <2>2. TrueAnswer(e)
    BY <1>4, <2>1 DEF TrueAnswer, NoEffect
  <2> QED
    BY <1>1, <1>3, <1>4, <2>1, <2>2 DEF RequestOK, Running, OneLate, OnConnection
<1>16. CASE Set(r, d) /\ server' = Performed(c[1], c[2], c[3])
  BY <1>3, <1>8, <1>14, <1>15, <1>16, WiresUnchanged, Steps
<1>17. CASE Set(r, q) /\ server' = server
  BY <1>1, <1>3, <1>11, <1>15, <1>17, WiresUnchanged, Steps
<1> QED
  BY <1>2, <1>7, <1>10, <1>12, <1>13, <1>16, <1>17

-----------------------------------------------------------------------------
(* Waiting for the answer, and giving it up. *)

(* A reply says what the command did; a lost one says nothing. *)
LEMMA WaitingHears ==
  ASSUME NEW q \in SessionRequest, RequestOK(q), q.pc \in {"wait", "drain"}, NEW o,
         (o = q.way /\ q.way \notin {"none", "sent"}) \/ o = Uncertain(q) \/ o = "error"
  PROVE  o \in Outcomes /\ MayHear(q, o)
<1>1. /\ q.way \in {"none", "sent", "found", "missing", "done", "duplicate"}
      /\ q.result = "none" /\ Belongs(q.op, q.cmd) /\ ~q.refused
      /\ q.way \in {"done", "duplicate"} => q.cmd \in Mutations
      /\ q.way = "found" => q.cmd \notin Mutations
      /\ IF Looks(q.op, q.cmd) THEN Changed(q)
         ELSE q.late = {} /\ ~q.acted /\ q.effects = IF q.way = "done" THEN 1 ELSE 0
  BY DEF SessionRequest, RequestOK, Running, Changed
<1>2. CASE o = q.way /\ q.way \notin {"none", "sent"}
  BY <1>1, <1>2 DEF MayHear, Outcomes
<1>3. CASE o = Uncertain(q)
  BY <1>1, <1>3 DEF MayHear, Uncertain, Outcomes
<1>4. CASE o = "error"
  BY <1>1, <1>4 DEF MayHear, Outcomes
<1> QED
  BY <1>2, <1>3, <1>4

LEMMA AnswerKept ==
  ASSUME IInv, NEW r \in Requests, Answer(r)
  PROVE  IInv'
<1>1. reqs[r] \in SessionRequest /\ RequestOK(reqs[r])
  BY Known
<1>2. /\ reqs[r].pc = "wait" /\ reqs[r].way \notin {"none", "sent"}
      /\ GoesOn(r, reqs[r], reqs[r].way)
      /\ UNCHANGED <<remote, server, clients, control, edits>>
  BY DEF Answer, RequestAt
<1>3. PICK o: o = reqs[r].way
  OBVIOUS
<1>4. o \in Outcomes /\ MayHear(reqs[r], o)
  BY <1>1, <1>2, <1>3, WaitingHears
<1> QED
  BY <1>1, <1>2, <1>3, <1>4, WiresUnchanged, GoesOnKept

LEMMA LoseAnswerKept ==
  ASSUME IInv, NEW r \in Requests, LoseAnswer(r)
  PROVE  IInv' /\ reqs'[r].pc # "wait"
<1>1. /\ reqs[r] \in SessionRequest /\ RequestOK(reqs[r]) /\ OnConnection(reqs[r], clients)
      /\ Len(clients) \in Nat
  BY Known
<1>2. /\ reqs[r].pc = "wait" /\ remote /\ InvalidateControl(reqs[r].client)
      /\ GoesOn(r, reqs[r], Uncertain(reqs[r]))
      /\ UNCHANGED <<remote, server, edits>>
  BY DEF LoseAnswer, RequestAt
<1>3. reqs[r].client \in 1..Len(clients)
  BY <1>1, <1>2 DEF OnConnection
<1>4. PICK o: o = Uncertain(reqs[r])
  OBVIOUS
<1>5. o \in Outcomes /\ MayHear(reqs[r], o)
  BY <1>1, <1>2, <1>4, WaitingHears
<1>6. Wires
  BY <1>2, <1>3, Invalidated
<1> QED
  BY <1>1, <1>2, <1>4, <1>5, <1>6, GoesOnKept

LEMMA DrainKept ==
  ASSUME IInv, NEW r \in Requests, Drain(r)
  PROVE  IInv'
<1>1. reqs[r] \in SessionRequest /\ RequestOK(reqs[r])
  BY Known
<1>2. /\ reqs[r].pc = "drain" /\ GoesOn(r, reqs[r], Uncertain(reqs[r]))
      /\ UNCHANGED <<remote, server, clients, control, edits>>
  BY DEF Drain, RequestAt
<1>3. PICK o: o = Uncertain(reqs[r])
  OBVIOUS
<1>4. o \in Outcomes /\ MayHear(reqs[r], o)
  BY <1>1, <1>2, <1>3, WaitingHears
<1> QED
  BY <1>1, <1>2, <1>3, <1>4, WiresUnchanged, GoesOnKept

LEMMA KilledKept ==
  ASSUME IInv, NEW r \in Requests, Killed(r)
  PROVE  IInv'
<1>1. reqs[r] \in SessionRequest /\ RequestOK(reqs[r])
  BY Known
<1>2. /\ reqs[r].pc = "wait" /\ GoesOn(r, [reqs[r] EXCEPT !.cut = TRUE], "error")
      /\ UNCHANGED <<remote, server, clients, control, edits>>
  BY DEF Killed, RequestAt
<1>3. PICK q: q = [reqs[r] EXCEPT !.cut = TRUE]
  OBVIOUS
<1>4. q \in SessionRequest
  BY <1>1, <1>3, ZenonT(30) DEF SessionRequest
<1>5. /\ q.pc = "wait" /\ q.cmd = reqs[r].cmd /\ q.way = reqs[r].way
      /\ q.op = reqs[r].op /\ q.result = reqs[r].result /\ q.effects = reqs[r].effects
      /\ q.late = reqs[r].late /\ q.acted = reqs[r].acted /\ q.refused = reqs[r].refused
  BY <1>1, <1>2, <1>3 DEF SessionRequest
<1>6. RequestOK(q)
  BY <1>1, <1>2, <1>5 DEF RequestOK, Running, Changed
<1>7. "error" \in Outcomes /\ MayHear(q, "error")
  BY <1>4, <1>5, <1>6, WaitingHears
<1> QED
  BY <1>2, <1>3, <1>4, <1>7, WiresUnchanged, GoesOnKept

(* The request gives its connection up for everyone and waits for its end.   *)
LEMMA AbortKept ==
  ASSUME IInv, NEW r \in Requests, Abort(r)
  PROVE  IInv' /\ reqs'[r] # reqs[r]
<1>1. /\ reqs[r] \in SessionRequest /\ RequestOK(reqs[r]) /\ OnConnection(reqs[r], clients)
      /\ Len(clients) \in Nat /\ server \subseteq Names
  BY Known
<1>2. /\ reqs[r].pc = "wait" /\ remote /\ InvalidateControl(reqs[r].client)
      /\ Set(r, [reqs[r] EXCEPT !.pc = "drain", !.cut = TRUE])
      /\ UNCHANGED <<remote, server, edits>>
  BY DEF Abort, RequestAt
<1>3. reqs[r].client \in 1..Len(clients)
  BY <1>1, <1>2 DEF OnConnection
<1>4. Wires /\ Len(clients') = Len(clients) /\ clients'[reqs[r].client] # "up"
  BY <1>2, <1>3, Invalidated
<1>5. PICK d: d = [reqs[r] EXCEPT !.pc = "drain", !.cut = TRUE]
  OBVIOUS
<1>6. d \in SessionRequest
  BY <1>1, <1>5, ZenonT(30) DEF SessionRequest
<1>7. /\ d.pc = "drain" /\ d.client = reqs[r].client /\ d.cmd = reqs[r].cmd
      /\ d.way = reqs[r].way
      /\ d.op = reqs[r].op /\ d.result = reqs[r].result /\ d.effects = reqs[r].effects
      /\ d.late = reqs[r].late /\ d.acted = reqs[r].acted /\ d.refused = reqs[r].refused
  BY <1>1, <1>5 DEF SessionRequest
<1>8. RequestOK(d)
  BY <1>1, <1>2, <1>7 DEF RequestOK, Running, Changed
<1>9. OnConnection(d, clients')
  BY <1>1, <1>2, <1>3, <1>4, <1>7 DEF OnConnection
<1>10. reqs'[r] = d
  BY <1>2, <1>5 DEF Set, IInv, SessionsTypeOK
<1> QED
  BY <1>1, <1>2, <1>4, <1>5, <1>6, <1>7, <1>8, <1>9, <1>10, Steps

-----------------------------------------------------------------------------
(* What is not done by a request. *)

LEMMA LoseConnectionKept ==
  ASSUME IInv, LoseConnection
  PROVE  IInv'
<1>1. /\ clients \in Seq(States) /\ Len(clients) \in Nat /\ DOMAIN clients = 1..Len(clients)
  BY LenProperties DEF IInv, SessionsTypeOK, States
<1>2. PICK n \in 1..Len(clients): clients[n] = "up" /\ clients' = [clients EXCEPT ![n] = "lost"]
  BY <1>1 DEF LoseConnection
<1>3. "lost" \in States
  BY DEF States
<1>4. /\ clients' \in Seq(States) /\ Len(clients') = Len(clients)
      /\ \A m \in 1..Len(clients): clients'[m] = IF m = n THEN "lost" ELSE clients[m]
  BY <1>1, <1>2, <1>3, ExceptSeq
<1>5. /\ remote' = remote /\ server' = server /\ control' = control /\ reqs' = reqs
      /\ edits' = edits
  BY DEF LoseConnection
<1>6. ASSUME NEW r \in Requests PROVE OnConnection(reqs[r], clients)'
  <2>1. OnConnection(reqs[r], clients)
    BY DEF IInv
  <2> QED
    BY <1>1, <1>4, <1>5, <2>1 DEF OnConnection
<1>7. SessionsTypeOK' /\ OneUp'
  BY <1>4, <1>5 DEF IInv, SessionsTypeOK, OneUp, States
<1> QED
  BY <1>5, <1>6, <1>7 DEF IInv

LEMMA WatchControlKept ==
  ASSUME IInv, WatchControl
  PROVE  IInv'
<1>1. /\ clients \in Seq(States) /\ Len(clients) \in Nat /\ control \in 0..Len(clients)
  BY LenProperties DEF IInv, SessionsTypeOK, States
<1>2. /\ control # 0 /\ clients[control] # "up" /\ control' = 0
      /\ UNCHANGED <<remote, server, clients, reqs, edits>>
  BY DEF WatchControl, Up
<1>3. OneUp'
  BY <1>1, <1>2 DEF OneUp, IInv
<1>4. SessionsTypeOK'
  BY <1>1, <1>2 DEF SessionsTypeOK, IInv
<1> QED
  BY <1>2, <1>3, <1>4 DEF IInv, OnConnection

LEMMA EditKept ==
  ASSUME IInv, EditSessions
  PROVE  IInv'
<1>1. /\ server' \subseteq Names /\ edits' \in 0..MaxEdits
      /\ UNCHANGED <<remote, clients, control, reqs>>
  BY SessionsAssumption DEF EditSessions, IInv, SessionsTypeOK
<1> QED
  BY <1>1 DEF IInv, SessionsTypeOK, OneUp, OnConnection

-----------------------------------------------------------------------------
(* The theorems. *)

LEMMA InitInv == SessionsInit => IInv
<1> SUFFICES ASSUME SessionsInit PROVE IInv
  OBVIOUS
<1>1. PICK q: q = NewSessionRequest("list", Generated[1], Generated[1], FALSE)
  OBVIOUS
<1>2. /\ q \in SessionRequest /\ q.pc = "idle" /\ q.client = 0 /\ q.way = "none"
      /\ q.result = "none" /\ Untried(q)
  <2>1. PICK a \in Names: a = Generated[1]
    BY NamesGenerated
  <2>2. PICK op \in {"create", "rename", "keep", "kill", "list"}: op = "list"
    OBVIOUS
  <2>3. PICK nameless \in BOOLEAN: ~nameless
    OBVIOUS
  <2>4. q = NewSessionRequest(op, a, a, nameless)
    BY <1>1, <2>1, <2>2, <2>3
  <2> QED
    BY <2>4, NewFacts
<1>3. reqs \in [Requests -> SessionRequest] /\ \A r \in Requests: reqs[r] = q
  BY <1>1, <1>2 DEF SessionsInit
<1>4. clients \in Seq(States) /\ Len(clients) = 0
  BY EmptySeq DEF SessionsInit
<1>5. RequestOK(q)
  BY <1>2 DEF RequestOK, Running
<1>6. OnConnection(q, clients)
  BY <1>2, <1>4 DEF OnConnection
<1>7. SessionsTypeOK
  <2>1. /\ remote \in BOOLEAN /\ server \subseteq Names /\ edits \in 0..MaxEdits
    BY SessionsAssumption DEF SessionsInit
  <2>2. control \in 0..Len(clients) /\ Len(clients) <= MaxClients
    <3>1. control = 0
      BY DEF SessionsInit
    <3> QED
      BY <1>4, <3>1, SessionsAssumption
  <2> QED
    BY <1>3, <1>4, <2>1, <2>2 DEF SessionsTypeOK, States
<1>8. OneUp
  BY <1>4 DEF OneUp
<1> QED
  BY <1>3, <1>5, <1>6, <1>7, <1>8 DEF IInv

LEMMA NextInv == IInv /\ [SessionsNext]_sessionVars => IInv'
<1> SUFFICES ASSUME IInv, [SessionsNext]_sessionVars PROVE IInv'
  OBVIOUS
<1>1. CASE UNCHANGED sessionVars
  BY <1>1 DEF sessionVars, IInv, SessionsTypeOK, OneUp, OnConnection
<1>2. ASSUME NEW r \in Requests, Run(r) PROVE IInv'
  BY <1>2, GetControlKept, StartKept, LocalStartKept, AnswerKept, LoseAnswerKept, DrainKept
  DEF Run
<1> QED
  BY <1>1, <1>2, BeginKept, AbortKept, KilledKept, PerformKept, PerformLateKept,
     LoseConnectionKept, WatchControlKept, EditKept
  DEF SessionsNext

(* In every state of the session requests of a host, what a request has      *)
(* changed agrees with the command it is at and with what it was told of it, *)
(* and no connection works but the one of the pool (exec, invalidateControl, *)
(* Create, Rename, Kill of both backends).                                   *)
THEOREM SessionsInvariant == SessionsSpec => []IInv
  BY InitInv, NextInv, PTL DEF SessionsSpec

(* The variables keep their types: each request is a record of its kind,     *)
(* whatever commands it went through.                                        *)
THEOREM SessionsTypes == SessionsSpec => []SessionsTypeOK
<1>1. IInv => SessionsTypeOK
  BY DEF IInv
<1> QED
  BY <1>1, SessionsInvariant, PTL

(* Whatever answers were lost and whatever the server did late: success is   *)
(* one change, a refusal is none (exec, Create, Rename, Kill).               *)
THEOREM AnswersStayTrue == SessionsSpec => []AnswersAreTrue
<1>1. ASSUME IInv, NEW r \in Requests
      PROVE  LET q == reqs[r]
             IN /\ q.effects <= 1
                /\ q.result = "ok" /\ q.op \notin {"list", "keep"} => q.effects = 1 /\ q.late = {}
                /\ q.result \in {"in_use", "not_found", "unavailable"} =>
                     NoEffect(q) \/ q.acted \/ q.refused
  <2>1. reqs[r] \in SessionRequest /\ RequestOK(reqs[r])
    BY <1>1, Known
  <2>2. CASE reqs[r].pc = "done"
    BY <2>1, <2>2 DEF RequestOK, TrueAnswer
  <2>3. CASE reqs[r].pc # "done"
    BY <2>1, <2>3 DEF SessionRequest, RequestOK, Running, Untried, Changed
  <2> QED
    BY <2>2, <2>3
<1>2. IInv => AnswersAreTrue
  BY <1>1 DEF AnswersAreTrue
<1> QED
  BY <1>2, SessionsInvariant, PTL

(* A request that has given up waits for no connection that works: its own   *)
(* is gone with it, also when the pool had another by then (exec).           *)
THEOREM AbandonedAreFree == SessionsSpec => []AbandonedIsFree
<1>1. ASSUME IInv, NEW r \in Requests, RequestAt(r, "drain") PROVE ~Up(reqs[r].client)
  BY <1>1, Known DEF RequestAt, Up, OnConnection
<1>2. IInv => AbandonedIsFree
  BY <1>1 DEF AbandonedIsFree
<1> QED
  BY <1>2, SessionsInvariant, PTL

(* A connection that works is closed only by a request that was using it     *)
(* (invalidateControl compares it with the one of the pool).                 *)
THEOREM OthersConnectionsAreKept == SessionsSpec => OthersConnectionKept
<1> DEFINE Spared ==
      \A n \in DOMAIN clients:
        clients[n] = "up" /\ clients'[n] = "closed" =>
          \E r \in Requests: reqs[r].client = n /\ reqs'[r] # reqs[r]
<1>1. IInv /\ [SessionsNext]_sessionVars => Spared
  <2> SUFFICES ASSUME IInv, [SessionsNext]_sessionVars, NEW n \in DOMAIN clients,
                      clients[n] = "up", clients'[n] = "closed"
               PROVE  \E r \in Requests: reqs[r].client = n /\ reqs'[r] # reqs[r]
    OBVIOUS
  <2>1. clients \in Seq(States) /\ Len(clients) \in Nat /\ n \in 1..Len(clients)
    BY LenProperties DEF IInv, SessionsTypeOK, States
  <2>2. ASSUME NEW r \in Requests, InvalidateControl(reqs[r].client), remote,
               reqs[r].pc \in {"send", "wait"}
        PROVE  reqs[r].client = n
    <3>1. reqs[r].client \in 1..Len(clients)
      BY <2>2, Known DEF OnConnection
    <3> QED
      BY <2>1, <2>2, <3>1, Invalidated
  <2>3. ASSUME NEW r \in Requests, StartCommand(r)
        PROVE  reqs[r].client = n /\ reqs'[r] # reqs[r]
    <3>1. remote /\ reqs[r].pc = "send" /\ reqs'[r].pc # "send"
      BY <2>3, StartKept DEF StartCommand, RequestAt
    <3>2. InvalidateControl(reqs[r].client)
      BY <2>3 DEF StartCommand
    <3> QED
      BY <2>2, <3>1, <3>2
  <2>4. ASSUME NEW r \in Requests, LoseAnswer(r)
        PROVE  reqs[r].client = n /\ reqs'[r] # reqs[r]
    <3>1. remote /\ reqs[r].pc = "wait" /\ reqs'[r].pc # "wait"
      BY <2>4, LoseAnswerKept DEF LoseAnswer, RequestAt
    <3>2. InvalidateControl(reqs[r].client)
      BY <2>4 DEF LoseAnswer
    <3> QED
      BY <2>2, <3>1, <3>2
  <2>5. ASSUME NEW r \in Requests, Abort(r)
        PROVE  reqs[r].client = n /\ reqs'[r] # reqs[r]
    BY <2>2, <2>5, AbortKept DEF Abort, RequestAt
  <2>6. ASSUME NEW r \in Requests, GetControl(r) PROVE FALSE
    BY <2>1, <2>6, AppendProperties DEF GetControl, States
  <2>7. ASSUME LoseConnection PROVE FALSE
    BY <2>1, <2>7, LenProperties, ExceptSeq DEF LoseConnection
  <2>8. clients' # clients
    OBVIOUS
  <2>9. ASSUME NEW r \in Requests,
               Begin(r) \/ LocalStart(r) \/ Answer(r) \/ Drain(r) \/ Killed(r) \/ Perform(r)
               \/ PerformLate(r)
        PROVE  FALSE
    BY <2>8, <2>9
    DEF Begin, LocalStart, Answer, Drain, Killed, Perform, PerformLate
  <2>10. ASSUME WatchControl \/ EditSessions \/ UNCHANGED sessionVars PROVE FALSE
    BY <2>8, <2>10 DEF WatchControl, EditSessions, sessionVars
  <2> QED
    BY <2>3, <2>4, <2>5, <2>6, <2>7, <2>9, <2>10 DEF SessionsNext, Run
<1>2. IInv /\ [SessionsNext]_sessionVars => [Spared]_sessionVars
  BY <1>1
<1> QED
  BY <1>2, SessionsInvariant, PTL DEF SessionsSpec, OthersConnectionKept
=============================================================================
