------------------------------ MODULE Sessions ------------------------------
(***************************************************************************)
(* The tmux sessions of one host: the session service                      *)
(* (session/service.go, the handlers of transport/http/router.go), over a  *)
(* tmux on the hub's machine (tmux/client.go) or on an SSH host            *)
(* (host/remote_sessions.go).  A request is a few tmux commands one after  *)
(* another; between them other requests and other users of tmux act.  A    *)
(* remote command travels over the control connection all requests share:  *)
(* it may be performed although its answer is lost, and even after the     *)
(* request gave up.  A request that gives up closes the connection for     *)
(* everyone.                                                               *)
(***************************************************************************)
EXTENDS Naturals, Sequences, FiniteSets

CONSTANTS
  Requests,    \* requests, each made once
  Names,       \* session names
  Generated,   \* the names generateUniqueName tries, in order
  MaxClients,  \* control connections that are ever made (a bound)
  MaxEdits     \* changes by other users of tmux (a bound)

ASSUME SessionsAssumption ==
  /\ Generated \in Seq(Names) /\ Len(Generated) > 0
  /\ MaxClients \in Nat /\ MaxEdits \in Nat

VARIABLES
  remote,   \* the host is an SSH host; never changes
  server,   \* the names of the sessions tmux has
  clients,  \* every control connection ever made: "up", "lost" or "closed"
  control,  \* which one the pool has, 0 for none
  reqs,     \* the local variables of the requests
  edits

sessionVars == <<remote, server, clients, control, reqs, edits>>

Mutations == {"new", "rename", "kill"}
Commands  == Mutations \union {"probe", "has", "hasNew", "look", "list", "panes"}
Outcomes  == {"found", "missing", "done", "duplicate", "unavailable", "unknown", "error"}

SessionRequest ==
  [op: {"create", "rename", "keep", "kill", "list"}, name: Names, new: Names,
   nameless: BOOLEAN, try: 1..Len(Generated),    \* no name was given; candidate
   doubt: BOOLEAN,                               \* history: it could not be asked for
   pc: {"idle", "get", "send", "wait", "drain", "done"},
   cmd: Commands, client: 0..MaxClients,
   way: {"none", "sent", "found", "missing", "done", "duplicate"}, \* of the command, or its reply
   cut: BOOLEAN,                                 \* it has seen its context end
   acted: BOOLEAN,                               \* the mutation was reported done
   effects: 0..2,                                \* history: sessions it changed
   late: SUBSET (Mutations \X Names \X Names),    \* commands it gave up, not yet performed
   refused: BOOLEAN,                             \* history: Start failed after it had sent
   result: {"none", "ok", "in_use", "not_found", "unavailable", "unknown", "error"}]

NewSessionRequest(op, a, b, nameless) ==
  [op |-> op, name |-> a, new |-> b, nameless |-> nameless, try |-> 1,
   doubt |-> FALSE, pc |-> "idle", cmd |-> "list", client |-> 0, way |-> "none", cut |-> FALSE,
   acted |-> FALSE, effects |-> 0, late |-> {}, refused |-> FALSE, result |-> "none"]

SessionsInit ==
  /\ remote \in BOOLEAN
  /\ server \in SUBSET Names
  /\ clients = <<>> /\ control = 0 /\ edits = 0
  /\ reqs \in [Requests -> {NewSessionRequest("list", Generated[1], Generated[1], FALSE)}]

-----------------------------------------------------------------------------
(* How a request goes on.  Each operator is what becomes of its variables.   *)

Runs(q, cmd)    == [q EXCEPT !.pc = IF remote THEN "get" ELSE "send", !.cmd = cmd,
                             !.way = "none", !.client = 0]
(* What is spoken of once it is over. *)
Returns(q, res) ==
  [NewSessionRequest(q.op, Generated[1], Generated[1], q.nameless) EXCEPT
     !.pc = "done", !.result = res, !.acted = q.acted, !.effects = q.effects,
     !.late = q.late, !.refused = q.refused, !.doubt = q.doubt /\ res = "in_use"]

(* Only the local client looks before it changes anything. *)
Changes(q, cmd) == IF remote THEN Runs(q, cmd) ELSE Runs(q, "has")

(* What a request begins with: no name is generated for one that has a name, *)
(* and a remote session that is to keep its name is only looked for.         *)
First(q) ==
  IF q.op = "list" THEN Runs(q, "list")
  ELSE IF q.nameless THEN Runs(q, "probe")
  ELSE IF q.op = "create" THEN Changes(q, "new")
  ELSE IF q.op = "kill" THEN Changes(q, "kill")
  ELSE IF remote /\ q.op = "keep" THEN Runs(q, "look")
  ELSE Changes(q, "rename")

(* generateUniqueName: a candidate that cannot be asked for counts as free. *)
AfterProbe(q, o) ==
  IF o # "found" THEN Changes([q EXCEPT !.doubt = o # "missing"], "new")
  ELSE IF q.try = Len(Generated) THEN [Returns(q, "in_use") EXCEPT !.cmd = "probe"]
  ELSE Runs([q EXCEPT !.try = @ + 1, !.name = Generated[q.try + 1]], "probe")

(* The checks of the local Create, Rename and Kill; a failed one is a no.    *)
AfterHas(q, found) ==
  IF q.op = "create" THEN IF found THEN Returns(q, "in_use") ELSE Runs(q, "new")
  ELSE IF ~found THEN Returns(q, "not_found")
  ELSE IF q.op = "kill" THEN Runs(q, "kill")
  ELSE IF q.op = "keep" THEN Runs(q, "look")
  ELSE Runs(q, "hasNew")

AfterHasNew(q, found) == IF found THEN Returns(q, "in_use") ELSE Runs(q, "rename")

(* new-session, rename-session, kill-session.  A renamed session and a new   *)
(* one are looked up for the answer.                                         *)
AfterMutation(q, o) ==
  IF o = "done" THEN IF q.op = "kill" THEN Returns([q EXCEPT !.acted = TRUE], "ok")
                     ELSE Runs([q EXCEPT !.acted = TRUE], "look")
  ELSE Returns(q, CASE o = "duplicate" -> "in_use" [] o = "missing" -> "not_found"
                    [] OTHER -> o)

(* The remote Create answers with what it knows when it cannot look.         *)
AfterLook(q, o) ==
  IF o = "found" \/ (remote /\ q.op = "create") THEN Returns(q, "ok")
  ELSE Returns(q, IF o = "missing" THEN "not_found" ELSE o)

After(q, o) ==
  CASE q.cmd = "probe"  -> AfterProbe(q, o)
    [] q.cmd = "has"    -> AfterHas(q, o = "found")
    [] q.cmd = "hasNew" -> AfterHasNew(q, o = "found")
    [] q.cmd \in Mutations -> AfterMutation(q, o)
    [] q.cmd = "look"   -> AfterLook(q, o)
    [] q.cmd = "list"   -> IF o \in {"found", "missing"} THEN Runs(q, "panes") ELSE Returns(q, o)
    [] q.cmd = "panes"  -> Returns(q, "ok") \* ListSessions does without them

(* Whoever leaves a command on its way does not hear of it again. *)
Leaves(q) ==
  IF q.way = "sent" /\ q.cmd \in Mutations
  THEN [q EXCEPT !.late = @ \union {<<q.cmd, q.name, q.new>>}] ELSE q

Set(r, q) == reqs' = [reqs EXCEPT ![r] = q]
GoesOn(r, q, o) == Set(r, After(Leaves(q), o))
RequestAt(r, pc) == reqs[r].pc = pc

Begin(r) ==
  /\ RequestAt(r, "idle")
  /\ \/ \E a, b \in Names:
          \/ Set(r, First(NewSessionRequest(IF a = b THEN "keep" ELSE "rename", a, b, FALSE)))
          \/ a = b /\ \E op \in {"create", "kill"}:
               Set(r, First(NewSessionRequest(op, a, a, FALSE)))
     \/ Set(r, First(NewSessionRequest("create", Generated[1], Generated[1], TRUE)))
     \/ Set(r, First(NewSessionRequest("list", Generated[1], Generated[1], FALSE)))
  /\ UNCHANGED <<remote, server, clients, control, edits>>

-----------------------------------------------------------------------------
(* The control connection, as ConnectionManager provides it. *)

Up(n) == n # 0 /\ clients[n] = "up"

(* Mutant of InvalidateControl: whatever connection the pool has is closed.  *)
InvalidateAnyControl(n) ==
  /\ control' = 0
  /\ clients' = IF control = 0 THEN clients ELSE [clients EXCEPT ![control] = "closed"]

(* Only the connection that failed, and only while the pool has it. *)
InvalidateControl(n) ==
  IF control = n
  THEN control' = 0 /\ clients' = [clients EXCEPT ![n] = "closed"]
  ELSE UNCHANGED <<control, clients>>

(* CheckValid and GetControl: the connection of the pool or a new one, or an *)
(* error.                                                                    *)
GetControl(r) ==
  /\ RequestAt(r, "get")
  /\ LET q == reqs[r]
     IN \/ /\ control # 0
           /\ Set(r, [q EXCEPT !.pc = "send", !.client = control])
           /\ UNCHANGED <<clients, control>>
        \/ /\ control = 0 /\ ~q.cut /\ Len(clients) < MaxClients
           /\ clients' = Append(clients, "up")
           /\ control' = Len(clients) + 1
           /\ Set(r, [q EXCEPT !.pc = "send", !.client = Len(clients) + 1])
        \/ /\ GoesOn(r, q, "unavailable")
           /\ UNCHANGED <<clients, control>>
  /\ UNCHANGED <<remote, server, edits>>

LoseConnection ==
  /\ \E n \in DOMAIN clients: clients[n] = "up" /\ clients' = [clients EXCEPT ![n] = "lost"]
  /\ UNCHANGED <<remote, server, control, reqs, edits>>

(* The watcher of the connection. *)
WatchControl ==
  /\ control # 0 /\ ~Up(control)
  /\ control' = 0
  /\ UNCHANGED <<remote, server, clients, reqs, edits>>

-----------------------------------------------------------------------------
(* One command: exec of the remote backend, Exec of the local one.           *)

(* NewSession and Start.  They fail on a connection that is gone, before the *)
(* command was sent or waiting for the server to confirm it; and on one that *)
(* works, if the server refuses another channel or the command.              *)
StartCommand(r) ==
  /\ remote /\ RequestAt(r, "send")
  /\ LET q == reqs[r]
         sent == [q EXCEPT !.way = "sent"]
     IN \/ Up(q.client) /\ Set(r, [sent EXCEPT !.pc = "wait"]) /\ UNCHANGED <<clients, control>>
        \/ /\ InvalidateControl(q.client)
           /\ \/ GoesOn(r, q, "unavailable")
              \/ /\ ~Up(q.client)
                 /\ GoesOn(r, [sent EXCEPT !.refused = q.cmd \in Mutations \/ @], "unavailable")
  /\ UNCHANGED <<remote, server, edits>>

(* The local Create holds optionsMu while its command runs.  A process may   *)
(* fail to start, and none starts once the context has ended.                *)
LocalStart(r) ==
  /\ ~remote /\ RequestAt(r, "send")
  /\ LET q == reqs[r]
     IN \/ GoesOn(r, q, "error")
        \/ /\ ~q.cut
           /\ q.cmd = "new" => \A o \in Requests: ~(RequestAt(o, "wait") /\ reqs[o].cmd = "new")
           /\ Set(r, [q EXCEPT !.pc = "wait", !.way = "sent"])
  /\ UNCHANGED <<remote, server, clients, control, edits>>

(* What tmux makes of a command. *)
Reply(cmd, name, new) ==
  CASE cmd = "new" -> IF name \in server THEN "duplicate" ELSE "done"
    [] cmd = "kill" -> IF name \in server THEN "done" ELSE "missing"
    [] cmd = "rename" -> IF name \notin server THEN "missing"
                         ELSE IF new \in server THEN "duplicate" ELSE "done"
    [] OTHER -> IF name \in server THEN "found" ELSE "missing"

Performed(cmd, name, new) ==
  IF Reply(cmd, name, new) # "done" THEN server
  ELSE CASE cmd = "new"    -> server \union {name}
         [] cmd = "kill"   -> server \ {name}
         [] cmd = "rename" -> (server \ {name}) \union {new}

Effects(q, reply) == IF reply = "done" THEN q.effects + 1 ELSE q.effects

(* The name a command is about. *)
Asked(q) == IF q.cmd = "hasNew" \/ (q.cmd = "look" /\ q.op = "rename") THEN q.new ELSE q.name

Perform(r) ==
  /\ reqs[r].way = "sent"
  /\ LET q == reqs[r]
         reply == Reply(q.cmd, Asked(q), q.new)
     IN /\ server' = Performed(q.cmd, Asked(q), q.new)
        /\ Set(r, [q EXCEPT !.way = reply, !.effects = Effects(q, reply)])
  /\ UNCHANGED <<remote, clients, control, edits>>

(* A command nobody waits for is performed or never arrives. *)
PerformLate(r) ==
  /\ \E c \in reqs[r].late:
       LET q == [reqs[r] EXCEPT !.late = @ \ {c}]
       IN \/ /\ server' = Performed(c[1], c[2], c[3])
             /\ Set(r, [q EXCEPT !.effects = Effects(q, Reply(c[1], c[2], c[3]))])
          \/ Set(r, q) /\ UNCHANGED server
  /\ UNCHANGED <<remote, clients, control, edits>>

(* Wait returns the exit status of the command. *)
Answer(r) ==
  /\ RequestAt(r, "wait") /\ reqs[r].way \notin {"none", "sent"}
  /\ remote => Up(reqs[r].client)
  /\ GoesOn(r, reqs[r], reqs[r].way)
  /\ UNCHANGED <<remote, server, clients, control, edits>>

(* Mutant of Uncertain: how the command would have changed anything is not *)
(* looked at.                                                              *)
Certain(q) == "unavailable"

Uncertain(q) == IF q.cmd \in Mutations THEN "unknown" ELSE "unavailable"

(* Wait returns without an exit status. *)
LoseAnswer(r) ==
  /\ remote /\ RequestAt(r, "wait") /\ ~Up(reqs[r].client)
  /\ InvalidateControl(reqs[r].client)
  /\ GoesOn(r, reqs[r], Uncertain(reqs[r]))
  /\ UNCHANGED <<remote, server, edits>>

(* Mutant of Abort: the session is closed, but not its connection. *)
AbortSession(r) ==
  /\ remote /\ RequestAt(r, "wait")
  /\ Set(r, [reqs[r] EXCEPT !.pc = "drain", !.cut = TRUE])
  /\ UNCHANGED <<remote, server, clients, control, edits>>

(* The context ends first: the caller leaves, or the hub stops.  The         *)
(* connection is closed, and then Wait is waited for.                        *)
Abort(r) ==
  /\ remote /\ RequestAt(r, "wait")
  /\ InvalidateControl(reqs[r].client)
  /\ Set(r, [reqs[r] EXCEPT !.pc = "drain", !.cut = TRUE])
  /\ UNCHANGED <<remote, server, edits>>

Drain(r) ==
  /\ RequestAt(r, "drain")
  /\ ~Up(reqs[r].client) \/ reqs[r].way # "sent"
  /\ GoesOn(r, reqs[r], Uncertain(reqs[r]))
  /\ UNCHANGED <<remote, server, clients, control, edits>>

(* The context ends and the local tmux command is killed. *)
Killed(r) ==
  /\ ~remote /\ RequestAt(r, "wait")
  /\ GoesOn(r, [reqs[r] EXCEPT !.cut = TRUE], "error")
  /\ UNCHANGED <<remote, server, clients, control, edits>>

(* Somebody else creates, ends or renames a session. *)
EditSessions ==
  /\ edits < MaxEdits
  /\ edits' = edits + 1
  /\ server' \in SUBSET Names \ {server}
  /\ Cardinality(server \ server') <= 1 /\ Cardinality(server' \ server) <= 1
  /\ UNCHANGED <<remote, clients, control, reqs>>

(* What a request does of itself. *)
Run(r) ==
  \/ GetControl(r) \/ StartCommand(r) \/ LocalStart(r) \/ Answer(r) \/ LoseAnswer(r) \/ Drain(r)

SessionsNext ==
  \/ \E r \in Requests:
       Begin(r) \/ Run(r) \/ Abort(r) \/ Killed(r) \/ Perform(r) \/ PerformLate(r)
  \/ LoseConnection \/ WatchControl \/ EditSessions

SessionsSpec == SessionsInit /\ [][SessionsNext]_sessionVars

-----------------------------------------------------------------------------
(* Type invariant. *)
SessionsTypeOK ==
  /\ remote \in BOOLEAN /\ server \subseteq Names
  /\ clients \in Seq({"up", "lost", "closed"}) /\ control \in 0..Len(clients)
  /\ Len(clients) <= MaxClients
  /\ reqs \in [Requests -> SessionRequest] /\ edits \in 0..MaxEdits

(* It changed nothing, and nothing it sent can change anything any more. *)
NoEffect(q) == q.effects = 0 /\ q.late = {}

(* An answer is true whatever happened on the way.  An answer of success     *)
(* means that the request changed one session, once; a refusal or a failure  *)
(* that does not say "unknown" means that it changed none and never will,    *)
(* unless tmux confirmed the change and only the following lookup failed, or *)
(* Start failed after it had sent (exec, Create, Rename, Kill of both        *)
(* backends).  No command is ever repeated.                                  *)
AnswersAreTrue ==
  \A r \in Requests:
    LET q == reqs[r]
    IN /\ q.effects <= 1
       /\ q.result = "ok" /\ q.op \notin {"list", "keep"} => q.effects = 1 /\ q.late = {}
       /\ q.result \in {"in_use", "not_found", "unavailable"} =>
            NoEffect(q) \/ q.acted \/ q.refused

(* Many requests share a connection and any of them may give it up: a        *)
(* connection that works is closed only by a request that was using it, never*)
(* by one that fails late on an earlier connection (invalidateControl).      *)
OthersConnectionKept ==
  [][\A n \in DOMAIN clients:
       clients[n] = "up" /\ clients'[n] = "closed" =>
         \E r \in Requests: reqs[r].client = n /\ reqs'[r] # reqs[r]]_sessionVars

(* A request whose caller has left is not held up by a server that does not  *)
(* answer: once it has given up, its connection is gone, whether it was still *)
(* the one of the pool or others had lost and replaced it before (exec).     *)
AbandonedIsFree == \A r \in Requests: RequestAt(r, "drain") => ~Up(reqs[r].client)

(* Of two creations without a name none is refused for a conflict, unless    *)
(* every name that it could have tried was found taken or could not be asked *)
(* for (generateUniqueName and new-session are two commands).                *)
NamelessNeverCollides ==
  \A q \in {reqs[r]: r \in Requests}:
    (\A r \in Requests: reqs[r].nameless) /\ q.result = "in_use" /\ ~q.doubt => q.cmd = "probe"
=============================================================================
