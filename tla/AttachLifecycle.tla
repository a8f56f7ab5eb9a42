--------------------------- MODULE AttachLifecycle ---------------------------
(***************************************************************************)
(* From a ticket to a registered attachment, while administrators edit and *)
(* remove hosts and the hub shuts down: the ticket handler of the router,  *)
(* the ticket store (auth/tickets.go), the WebSocket handler               *)
(* (transport/ws/handler.go), the terminal manager (terminal/manager.go)   *)
(* and the hook the application runs after a host changed (app/app.go).    *)
(* Every request is a goroutine of its own; what one step does is what a   *)
(* goroutine does under one lock.                                          *)
(*                                                                         *)
(* The registry appears as HostIdentity.  A metadata edit changes nothing  *)
(* here.  An update compares the connection revision it read with the one  *)
(* Save returned; Save succeeds only on the revision the request names,    *)
(* which the client learned before the request was read, so a successful   *)
(* update is one step and runs the hook exactly when it issued a revision. *)
(***************************************************************************)
EXTENDS Naturals

CONSTANTS
  Hosts, Sessions,  \* host identifiers, session names
  Handlers,         \* WebSocket requests
  Tickets,          \* ticket requests, one identifier each
  Editors,          \* goroutines of administrative requests
  MaxRevision       \* connection revisions stay at or below this (a bound)

ASSUME RequestAssumption ==
  /\ Hosts # {} /\ Sessions # {} /\ Tickets # {}
  /\ MaxRevision \in Nat \ {0}

VARIABLES
  current,   \* connection revision of a host, 0 while unregistered
  used,      \* the largest connection revision a host ever had
  life,      \* history: how often a host was removed
  tickets,   \* TicketStore.byID and the requests that fill it
  handlers,  \* the local variables of ServeHTTP
  epochs,    \* Manager.hostEpochs
  attached,  \* Manager.attachments
  shutdown,  \* "up"; Manager.Shutdown: "closing" (Manager.closing), "down"
  editors,   \* what each administrative request does
  gone       \* history: revisions of a host up to this one were invalidated

identityVars == <<current, used>>
managerVars  == <<epochs, attached, shutdown>>
vars == <<identityVars, life, tickets, handlers, managerVars, editors, gone>>

Identity == INSTANCE HostIdentity

Revisions == 0..MaxRevision

Ticket ==
  [state: {"unasked", "resolved", "issued", "gone"}, host: Hosts,
   session: Sessions, rev: Revisions, expired: BOOLEAN, life: Nat]

Request ==
  [pc: {"idle", "resolve", "redeem", "create", "register", "start", "live", "done"},
   host: Hosts, session: Sessions, ticket: Tickets, epoch: Nat, rev: Revisions,
   admitted: BOOLEAN, life: Nat, proc: {"none", "running", "stopped"}]

Edit ==
  [pc: {"idle", "tickets", "close", "force"}, host: Hosts, was: Revisions,
   close: SUBSET Handlers]

Some(set) == CHOOSE x \in set: TRUE

NewTicket == [state |-> "unasked", host |-> Some(Hosts), session |-> Some(Sessions),
              rev |-> 0, expired |-> FALSE, life |-> 0]
NewRequest == [pc |-> "idle", host |-> Some(Hosts), session |-> Some(Sessions),
               ticket |-> Some(Tickets), epoch |-> 0, rev |-> 0,
               admitted |-> FALSE, life |-> 0, proc |-> "none"]
NewEdit == [pc |-> "idle", host |-> Some(Hosts), was |-> 0, close |-> {}]

Init ==
  /\ Identity!Init
  /\ life = [h \in Hosts |-> 0]
  /\ tickets = [t \in Tickets |-> NewTicket]
  /\ handlers = [a \in Handlers |-> NewRequest]
  /\ epochs = [h \in Hosts |-> 0]
  /\ attached = {} /\ shutdown = "up"
  /\ editors = [e \in Editors |-> NewEdit]
  /\ gone = [h \in Hosts |-> 0]

-----------------------------------------------------------------------------
(* Ticket requests: issueTicket and TicketStore. *)

(* Resolve: the runtime is a snapshot of the connection revision. *)
ResolveForTicket(t) ==
  /\ tickets[t].state = "unasked"
  /\ \E h \in Hosts, s \in Sessions:
       /\ current[h] # 0
       /\ tickets' = [tickets EXCEPT ![t] =
            [state |-> "resolved", host |-> h, session |-> s, rev |-> current[h],
             expired |-> FALSE, life |-> life[h]]]
  /\ UNCHANGED <<identityVars, life, handlers, managerVars, editors, gone>>

(* GetSession finds the session and IssueForTarget stores the ticket, or the *)
(* session is not there.                                                     *)
IssueForTarget(t) ==
  /\ tickets[t].state = "resolved"
  /\ \E state \in {"issued", "gone"}: tickets' = [tickets EXCEPT ![t].state = state]
  /\ UNCHANGED <<identityVars, life, handlers, managerVars, editors, gone>>

Issued(t) == tickets[t].state = "issued"

Expire(t) ==
  /\ Issued(t) /\ ~tickets[t].expired
  /\ tickets' = [tickets EXCEPT ![t].expired = TRUE]
  /\ UNCHANGED <<identityVars, life, handlers, managerVars, editors, gone>>

Without(set) ==
  [t \in Tickets |-> IF t \in set THEN [tickets[t] EXCEPT !.state = "gone"]
                                  ELSE tickets[t]]

Sweep ==
  /\ \E t \in Tickets: Issued(t) /\ tickets[t].expired
  /\ tickets' = Without({t \in Tickets: Issued(t) /\ tickets[t].expired})
  /\ UNCHANGED <<identityVars, life, handlers, managerVars, editors, gone>>

-----------------------------------------------------------------------------
(* ServeHTTP *)

At(a, pc) == handlers[a].pc = pc

(* The epoch is read first ... *)
ReadEpoch(a) ==
  /\ At(a, "idle")
  /\ \E h \in Hosts, s \in Sessions, t \in Tickets:
       handlers' = [handlers EXCEPT ![a] =
         [NewRequest EXCEPT !.pc = "resolve", !.host = h, !.session = s,
                            !.ticket = t, !.epoch = epochs[h]]]
  /\ UNCHANGED <<identityVars, life, tickets, managerVars, editors, gone>>

(* ... then the runtime.  An unknown host is refused. *)
Resolve(a) ==
  /\ At(a, "resolve")
  /\ handlers' = [handlers EXCEPT
       ![a].pc = IF current[handlers[a].host] = 0 THEN "done" ELSE "redeem",
       ![a].rev = current[handlers[a].host],
       ![a].life = life[handlers[a].host]]
  /\ UNCHANGED <<identityVars, life, tickets, managerVars, editors, gone>>

(* Mutant of Redeemable: the revision is not compared. *)
RedeemableForHost(t, h, rev, s) ==
  /\ Issued(t) /\ ~tickets[t].expired
  /\ tickets[t].host = h /\ tickets[t].session = s

Redeemable(t, h, rev, s) ==
  /\ Issued(t) /\ ~tickets[t].expired
  /\ tickets[t].host = h /\ tickets[t].rev = rev /\ tickets[t].session = s

(* Mutant of RedeemForTarget: an accepted ticket stays in the store. *)
RedeemOften(a) ==
  /\ At(a, "redeem")
  /\ LET r == handlers[a]
     IN handlers' = [handlers EXCEPT
          ![a].pc = IF Redeemable(r.ticket, r.host, r.rev, r.session)
                    THEN "create" ELSE "done",
          ![a].admitted = Redeemable(r.ticket, r.host, r.rev, r.session)]
  /\ UNCHANGED <<identityVars, life, tickets, managerVars, editors, gone>>

(* RedeemForTarget: whatever it is worth, the ticket is taken out first. *)
RedeemForTarget(a) ==
  /\ At(a, "redeem")
  /\ LET r == handlers[a]
     IN /\ handlers' = [handlers EXCEPT
             ![a].pc = IF Redeemable(r.ticket, r.host, r.rev, r.session)
                       THEN "create" ELSE "done",
             ![a].admitted = Redeemable(r.ticket, r.host, r.rev, r.session)]
        /\ tickets' = Without({t \in {r.ticket}: Issued(t)})
  /\ UNCHANGED <<identityVars, life, managerVars, editors, gone>>

(* Mutant of NewProcess: the epoch is read here. *)
NewProcessReadsEpoch(a) ==
  /\ At(a, "create")
  /\ handlers' = [handlers EXCEPT ![a].pc = "register", ![a].proc = "running",
                                  ![a].epoch = epochs[handlers[a].host]]
  /\ UNCHANGED <<identityVars, life, tickets, managerVars, editors, gone>>

(* NewProcess attaches, or fails for any reason of its own. *)
NewProcess(a) ==
  /\ At(a, "create")
  /\ \/ handlers' = [handlers EXCEPT ![a].pc = "register", ![a].proc = "running"]
     \/ handlers' = [handlers EXCEPT ![a].pc = "done"]
  /\ UNCHANGED <<identityVars, life, tickets, managerVars, editors, gone>>

Registrable(a) ==
  shutdown = "up" /\ handlers[a].epoch = epochs[handlers[a].host]

(* Mutant of Register: a refused process keeps running. *)
RegisterUndetached(a) ==
  /\ At(a, "register")
  /\ IF Registrable(a)
     THEN /\ attached' = attached \union {a}
          /\ handlers' = [handlers EXCEPT ![a].pc = "start"]
     ELSE /\ handlers' = [handlers EXCEPT ![a].pc = "done"]
          /\ UNCHANGED attached
  /\ UNCHANGED <<identityVars, life, tickets, epochs, shutdown, editors, gone>>

(* Manager.Register, or the detach of a process that comes too late. *)
Register(a) ==
  /\ At(a, "register")
  /\ IF Registrable(a)
     THEN /\ attached' = attached \union {a}
          /\ handlers' = [handlers EXCEPT ![a].pc = "start"]
     ELSE /\ handlers' = [handlers EXCEPT ![a].pc = "done", ![a].proc = "stopped"]
          /\ UNCHANGED attached
  /\ UNCHANGED <<identityVars, life, tickets, epochs, shutdown, editors, gone>>

(* Attachment.Start; one that was closed before it started ends at once. *)
Start(a) ==
  /\ At(a, "start")
  /\ handlers' = [handlers EXCEPT
       ![a].pc = IF handlers[a].proc = "running" THEN "live" ELSE "done"]
  /\ UNCHANGED <<identityVars, life, tickets, managerVars, editors, gone>>

(* An attachment that ends, seen from the manager: the process is stopped    *)
(* and Untrack called.  Module Attachment has the steps in between.          *)
Closed(a) ==
  [handlers EXCEPT ![a].pc = IF @ = "live" THEN "done" ELSE @, ![a].proc = "stopped"]

AttachmentEnds(a) ==
  /\ At(a, "live")
  /\ handlers' = Closed(a)
  /\ attached' = attached \ {a}
  /\ UNCHANGED <<identityVars, life, tickets, epochs, shutdown, editors, gone>>

Serve(a) == \/ ReadEpoch(a) \/ Resolve(a) \/ RedeemForTarget(a)
            \/ NewProcess(a) \/ Register(a) \/ Start(a)

-----------------------------------------------------------------------------
(* Administrative requests. *)

(* Registering a host runs no hook. *)
CreateHost(e) ==
  /\ editors[e].pc = "idle"
  /\ \E h \in Hosts: current[h] = 0 /\ Identity!Issue(h)
  /\ UNCHANGED <<life, tickets, handlers, managerVars, editors, gone>>

(* A committed update of the connection, or a removal. *)
ChangeHost(e) ==
  /\ editors[e].pc = "idle"
  /\ \E h \in Hosts:
       /\ current[h] # 0
       /\ editors' = [editors EXCEPT ![e] =
            [pc |-> "tickets", host |-> h, was |-> current[h], close |-> {}]]
       /\ \/ Identity!Issue(h) /\ UNCHANGED life
          \/ Identity!Retire(h) /\ life' = [life EXCEPT ![h] = @ + 1]
  /\ UNCHANGED <<tickets, handlers, managerVars, gone>>

(* The hook: InvalidateHost ... *)
InvalidateHost(e) ==
  /\ editors[e].pc = "tickets"
  /\ tickets' = Without({t \in Tickets: Issued(t) /\ tickets[t].host = editors[e].host})
  /\ editors' = [editors EXCEPT ![e].pc = "close"]
  /\ UNCHANGED <<identityVars, life, handlers, managerVars, gone>>

AttachedTo(h) == {a \in attached: handlers[a].host = h}

(* ... then CloseHost: the epoch and the list under the lock ... *)
CloseHost(e) ==
  /\ editors[e].pc = "close"
  /\ epochs' = [epochs EXCEPT ![editors[e].host] = @ + 1]
  /\ editors' = [editors EXCEPT ![e].pc = "force", ![e].close = AttachedTo(editors[e].host)]
  /\ UNCHANGED <<identityVars, life, tickets, handlers, attached, shutdown, gone>>

(* ... and one attachment after the other outside it. *)
ForceClose(e) ==
  /\ editors[e].pc = "force"
  /\ \E a \in editors[e].close:
       /\ handlers' = Closed(a)
       /\ attached' = attached \ {a}
       /\ editors' = [editors EXCEPT ![e].close = @ \ {a}]
  /\ UNCHANGED <<identityVars, life, tickets, epochs, shutdown, gone>>

HookReturns(e) ==
  /\ editors[e].pc = "force" /\ editors[e].close = {}
  /\ gone' = [gone EXCEPT ![editors[e].host] = IF @ < editors[e].was THEN editors[e].was ELSE @]
  /\ editors' = [editors EXCEPT ![e] = NewEdit]
  /\ UNCHANGED <<identityVars, life, tickets, handlers, managerVars>>

Hook(e) == InvalidateHost(e) \/ CloseHost(e) \/ ForceClose(e) \/ HookReturns(e)

-----------------------------------------------------------------------------
(* Manager.Shutdown refuses registrations from its first step on and returns *)
(* when every attachment it found has been closed, by Shutdown or, after the *)
(* timeout, by ForceClose.                                                   *)

BeginShutdown ==
  /\ shutdown = "up"
  /\ shutdown' = "closing"
  /\ UNCHANGED <<identityVars, life, tickets, handlers, epochs, attached, editors, gone>>

ShutdownOne ==
  /\ shutdown = "closing"
  /\ \E a \in attached:
       /\ handlers' = Closed(a)
       /\ attached' = attached \ {a}
  /\ UNCHANGED <<identityVars, life, tickets, epochs, shutdown, editors, gone>>

EndShutdown ==
  /\ shutdown = "closing" /\ attached = {}
  /\ shutdown' = "down"
  /\ UNCHANGED <<identityVars, life, tickets, handlers, epochs, attached, editors, gone>>

Next ==
  \/ \E t \in Tickets: ResolveForTicket(t) \/ IssueForTarget(t) \/ Expire(t)
  \/ Sweep
  \/ \E a \in Handlers: Serve(a) \/ AttachmentEnds(a)
  \/ \E e \in Editors: CreateHost(e) \/ ChangeHost(e) \/ Hook(e)
  \/ BeginShutdown \/ ShutdownOne \/ EndShutdown

Spec == Init /\ [][Next]_vars

-----------------------------------------------------------------------------
(* Type invariant: requests are where ServeHTTP and the hook can be, and the *)
(* manager holds only attachments that were registered.                      *)
TypeOK ==
  /\ current \in [Hosts -> Revisions] /\ used \in [Hosts -> Revisions]
  /\ life \in [Hosts -> Nat] /\ gone \in [Hosts -> Revisions]
  /\ tickets \in [Tickets -> Ticket]
  /\ handlers \in [Handlers -> Request]
  /\ epochs \in [Hosts -> Nat]
  /\ attached \subseteq {a \in Handlers: handlers[a].pc \in {"start", "live"}}
  /\ shutdown \in {"up", "closing", "down"}
  /\ editors \in [Editors -> Edit]

(* Once the hook of a change has returned, no attachment made with the       *)
(* replaced connection revision is registered or will ever be: ServeHTTP     *)
(* reads the epoch before the runtime, CloseHost raises it before it lists.  *)
NoStaleAttachment ==
  \A a \in attached: handlers[a].rev > gone[handlers[a].host]

(* A ticket admits one connection, however many present it at once.          *)
SingleUse ==
  \A a, b \in Handlers:
    /\ handlers[a].admitted /\ handlers[b].admitted
    /\ handlers[a].ticket = handlers[b].ticket
    => a = b

(* A ticket for a host that was removed never admits anyone to a host that   *)
(* was registered later under the same identifier, even when the request for *)
(* the ticket was still under way when InvalidateHost ran.                   *)
TicketKeepsItsHost ==
  \A a \in Handlers: handlers[a].admitted =>
    handlers[a].life = tickets[handlers[a].ticket].life

(* No request ends with its process running, in particular not one that      *)
(* Manager.Register refuses.                                                 *)
NoOrphanProcess ==
  \A a \in Handlers: handlers[a].pc = "done" => handlers[a].proc # "running"
=============================================================================
