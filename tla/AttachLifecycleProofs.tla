------------------------ MODULE AttachLifecycleProofs ------------------------
(***************************************************************************)
(* Proofs about attaching, at the hub and then at the browser.  The first  *)
(* are about the way from a ticket to a registered attachment, for any     *)
(* number of hosts, sessions, tickets, requests and administrators.  Three *)
(* arguments carry them: what an invalidation has overtaken is either      *)
(* barred by the epoch or on the list CloseHost made; what was read of a   *)
(* host under one revision is the same host; a process exists only between *)
(* its creation and the end of its request.                                *)
(*                                                                         *)
(* The last part is about BrowserTerminal, which has no state in common    *)
(* with AttachLifecycle: its specification is TerminalSpec.                *)
(***************************************************************************)
EXTENDS AttachLifecycle, BrowserTerminal, TLAPS

(* Revisions an administrator has done away with lie below the current one. *)
RevisionsBehind ==
  \A h \in Hosts:
    /\ current[h] <= used[h] /\ gone[h] <= used[h]
    /\ current[h] # 0 => gone[h] < current[h]

EditsBehind ==
  \A e \in Editors: editors[e].pc # "idle" =>
    LET h == editors[e].host
    IN /\ editors[e].was <= used[h]
       /\ current[h] # 0 => editors[e].was < current[h]

EpochsRead == \A a \in Handlers: handlers[a].epoch <= epochs[handlers[a].host]

(* A request past its reading of the runtime that Register will refuse. *)
Unregistered(a) == handlers[a].pc \in {"redeem", "create", "register"}
Barred(a) == Unregistered(a) => handlers[a].epoch < epochs[handlers[a].host]

(* Between CloseHost and its return, an overtaken request is barred or listed. *)
OvertakenListed ==
  \A e \in Editors, a \in Handlers:
    /\ editors[e].pc = "force"
    /\ handlers[a].host = editors[e].host /\ handlers[a].rev <= editors[e].was
    => Barred(a) /\ (a \in attached => a \in editors[e].close)

(* After it, an overtaken request is barred and not attached. *)
OvertakenBarred ==
  \A a \in Handlers: handlers[a].rev <= gone[handlers[a].host] =>
    Barred(a) /\ a \notin attached

StaleInv ==
  RevisionsBehind /\ EditsBehind /\ EpochsRead /\ OvertakenListed /\ OvertakenBarred

(* What was read of a host under its present revision is of its present life. *)
ReadingsCurrent ==
  /\ \A t \in Tickets: tickets[t].rev # 0 =>
       /\ tickets[t].rev <= used[tickets[t].host]
       /\ tickets[t].rev = current[tickets[t].host] => tickets[t].life = life[tickets[t].host]
  /\ \A a \in Handlers: handlers[a].rev # 0 =>
       /\ handlers[a].rev <= used[handlers[a].host]
       /\ handlers[a].rev = current[handlers[a].host] => handlers[a].life = life[handlers[a].host]

(* Two readings of one revision are of one life. *)
ReadingsAgree ==
  \A t \in Tickets, a \in Handlers:
    /\ tickets[t].rev # 0
    /\ tickets[t].host = handlers[a].host /\ tickets[t].rev = handlers[a].rev
    => tickets[t].life = handlers[a].life

Readings ==
  /\ \A a \in Handlers: handlers[a].pc = "redeem" => handlers[a].rev # 0
  /\ \A a \in Handlers: handlers[a].pc \in {"idle", "resolve"} => handlers[a].rev = 0
  /\ \A t \in Tickets: tickets[t].state = "unasked" <=> tickets[t].rev = 0

(* A ticket that admitted a request is spent. *)
AdmittedSpent ==
  \A a \in Handlers: handlers[a].admitted =>
    /\ tickets[handlers[a].ticket].state = "gone"
    /\ handlers[a].pc \notin {"idle", "resolve", "redeem"}

AdmissionInv ==
  /\ ReadingsCurrent /\ ReadingsAgree /\ Readings /\ AdmittedSpent
  /\ SingleUse /\ TicketKeepsItsHost

(* A process is there from NewProcess on, and is stopped when a request ends. *)
ProcessInv ==
  /\ \A a \in Handlers:
       handlers[a].pc \in {"idle", "resolve", "redeem", "create"} => handlers[a].proc = "none"
  /\ \A a \in Handlers:
       handlers[a].pc = "register" \/ a \in attached => handlers[a].proc = "running"
  /\ \A e \in Editors: \A a \in editors[e].close: handlers[a].pc \in {"start", "live", "done"}
  /\ NoOrphanProcess

IInv == TypeOK /\ StaleInv /\ AdmissionInv /\ ProcessInv

-----------------------------------------------------------------------------
LEMMA SomeInSet == \A S: S # {} => Some(S) \in S
<1> QED
  BY DEF Some

LEMMA NewInSets == NewTicket \in Ticket /\ NewRequest \in Request /\ NewEdit \in Edit
<1>1. 0 \in Revisions
  BY RequestAssumption DEF Revisions
<1> QED
  BY <1>1, SomeInSet, RequestAssumption
  DEF NewTicket, NewRequest, NewEdit, Ticket, Request, Edit

LEMMA InitInv == Init => IInv
<1> SUFFICES ASSUME Init PROVE IInv
  OBVIOUS
<1> USE RequestAssumption, NewInSets DEF Init, Identity!Init
<1>1. TypeOK
  BY DEF TypeOK, Revisions
<1>2. StaleInv
  <2>1. NewRequest.pc = "idle" /\ NewRequest.epoch = 0 /\ NewRequest.host \in Hosts
    BY DEF NewRequest, Request
  <2>2. NewEdit.pc = "idle"
    BY DEF NewEdit
  <2> QED
    BY <2>1, <2>2 DEF StaleInv, RevisionsBehind, EditsBehind, EpochsRead,
       OvertakenListed, OvertakenBarred, Barred, Unregistered
<1>3. AdmissionInv
  BY DEF AdmissionInv, ReadingsCurrent, ReadingsAgree, Readings, AdmittedSpent,
         SingleUse, TicketKeepsItsHost, NewTicket, NewRequest
<1>4. ProcessInv
  BY DEF ProcessInv, NoOrphanProcess, NewRequest, NewEdit
<1> QED
  BY <1>1, <1>2, <1>3, <1>4 DEF IInv

(* Taking tickets out of the store changes nothing but their state. *)
LEMMA WithoutFacts ==
  ASSUME tickets \in [Tickets -> Ticket], NEW set
  PROVE  /\ Without(set) \in [Tickets -> Ticket]
         /\ \A t \in Tickets:
              /\ Without(set)[t].state = IF t \in set THEN "gone" ELSE tickets[t].state
              /\ Without(set)[t].host = tickets[t].host
              /\ Without(set)[t].rev = tickets[t].rev
              /\ Without(set)[t].life = tickets[t].life
<1> QED
  BY DEF Without, Ticket

(* What a step of ServeHTTP, or the end of an attachment, leaves well-formed. *)
LEMMA ServeTypes ==
  ASSUME TypeOK, ProcessInv, NEW a \in Handlers, Serve(a) \/ AttachmentEnds(a)
  PROVE  TypeOK'
<1> USE DEF TypeOK, managerVars, identityVars
<1>1. handlers[a] \in Request
  OBVIOUS
<1>2. CASE ReadEpoch(a)
  <2>1. PICK h \in Hosts, s \in Sessions, t \in Tickets:
          handlers' = [handlers EXCEPT ![a] =
            [NewRequest EXCEPT !.pc = "resolve", !.host = h, !.session = s,
                               !.ticket = t, !.epoch = epochs[h]]]
    BY <1>2 DEF ReadEpoch
  <2>2. [NewRequest EXCEPT !.pc = "resolve", !.host = h, !.session = s,
                           !.ticket = t, !.epoch = epochs[h]] \in Request
    BY NewInSets DEF Request
  <2> QED
    BY <1>2, <2>1, <2>2 DEF ReadEpoch, At
<1>3. CASE Resolve(a)
  BY <1>1, <1>3 DEF Resolve, At, Request
<1>4. CASE RedeemForTarget(a)
  <2>1. handlers' \in [Handlers -> Request]
    <3> DEFINE r == handlers[a]
               pass == Redeemable(r.ticket, r.host, r.rev, r.session)
    <3>1. pass \in BOOLEAN
      BY DEF Redeemable
    <3>2. handlers' = [handlers EXCEPT ![a].pc = IF pass THEN "create" ELSE "done",
                                       ![a].admitted = pass]
      BY <1>4 DEF RedeemForTarget
    <3> HIDE DEF pass
    <3> QED
      BY <1>1, <3>1, <3>2 DEF Request
  <2>2. tickets' \in [Tickets -> Ticket]
    BY <1>4, WithoutFacts DEF RedeemForTarget
  <2>3. \A b \in Handlers: handlers[b].pc \in {"start", "live"} => handlers'[b] = handlers[b]
    BY <1>4 DEF RedeemForTarget, At
  <2> QED
    BY <1>4, <2>1, <2>2, <2>3 DEF RedeemForTarget
<1>5. CASE NewProcess(a)
  BY <1>1, <1>5 DEF NewProcess, At, Request
<1>6. CASE Register(a)
  BY <1>1, <1>6 DEF Register, At, Request
<1>7. CASE Start(a)
  BY <1>1, <1>7 DEF Start, At, Request, ProcessInv
<1>8. CASE AttachmentEnds(a)
  BY <1>1, <1>8 DEF AttachmentEnds, Closed, At, Request
<1> QED
  BY <1>2, <1>3, <1>4, <1>5, <1>6, <1>7, <1>8 DEF Serve

(* The same of the store of tickets, the administrators and the shutdown. *)
LEMMA TicketTypes ==
  TypeOK /\ (Sweep \/ \E t \in Tickets: ResolveForTicket(t) \/ IssueForTarget(t) \/ Expire(t))
  => TypeOK'
<1> USE DEF TypeOK, managerVars, identityVars
<1>1. ASSUME TypeOK, NEW t \in Tickets, ResolveForTicket(t) PROVE TypeOK'
  BY <1>1 DEF ResolveForTicket, Ticket
<1>2. ASSUME TypeOK, NEW t \in Tickets, IssueForTarget(t) PROVE TypeOK'
  BY <1>2 DEF IssueForTarget, Ticket
<1>3. ASSUME TypeOK, NEW t \in Tickets, Expire(t) PROVE TypeOK'
  <2>1. tickets' = [tickets EXCEPT ![t].expired = TRUE] /\ tickets[t] \in Ticket
    BY <1>3 DEF Expire
  <2>2. [tickets[t] EXCEPT !.expired = TRUE] \in Ticket
    BY <2>1 DEF Ticket
  <2>3. tickets' \in [Tickets -> Ticket]
    BY <1>3, <2>1, <2>2
  <2> QED
    BY <1>3, <2>3 DEF Expire
<1>4. ASSUME TypeOK, Sweep PROVE TypeOK'
  <2>1. tickets' \in [Tickets -> Ticket]
    BY <1>4, WithoutFacts DEF Sweep
  <2> QED
    BY <1>4, <2>1 DEF Sweep
<1> QED
  BY <1>1, <1>2, <1>3, <1>4

LEMMA AttachedAreHandlers ==
  ASSUME attached \subseteq Handlers, NEW h
  PROVE  AttachedTo(h) \in SUBSET Handlers
<1> QED
  BY DEF AttachedTo

LEMMA EditorTypes ==
  ASSUME TypeOK, NEW e \in Editors, CreateHost(e) \/ ChangeHost(e) \/ Hook(e)
  PROVE  TypeOK'
<1> USE DEF TypeOK, managerVars, identityVars
<1>0. /\ editors[e] \in Edit
      /\ \A h \in Hosts: \A n \in (used[h] + 1)..MaxRevision: n \in Revisions
  BY RequestAssumption DEF Revisions
<1>1. CASE CreateHost(e)
  BY <1>0, <1>1 DEF CreateHost, Identity!Issue
<1>2. CASE ChangeHost(e)
  <2>1. PICK h \in Hosts:
          /\ editors' = [editors EXCEPT ![e] =
               [pc |-> "tickets", host |-> h, was |-> current[h], close |-> {}]]
          /\ \/ Identity!Issue(h) /\ UNCHANGED life
             \/ Identity!Retire(h) /\ life' = [life EXCEPT ![h] = @ + 1]
    BY <1>2 DEF ChangeHost
  <2>2. editors' \in [Editors -> Edit]
    BY <2>1 DEF Edit
  <2>3. life' \in [Hosts -> Nat]
    BY <2>1
  <2>4. 0 \in Revisions
    BY RequestAssumption DEF Revisions
  <2>5. current' \in [Hosts -> Revisions] /\ used' \in [Hosts -> Revisions]
    BY <1>0, <2>1, <2>4 DEF Identity!Issue, Identity!Retire
  <2> QED
    BY <1>2, <2>2, <2>3, <2>5 DEF ChangeHost
<1>3. CASE InvalidateHost(e)
  <2>1. tickets' \in [Tickets -> Ticket]
    BY <1>3, WithoutFacts DEF InvalidateHost
  <2>2. editors' \in [Editors -> Edit]
    BY <1>0, <1>3 DEF InvalidateHost, Edit
  <2> QED
    BY <1>3, <2>1, <2>2 DEF InvalidateHost
<1>4. CASE CloseHost(e)
  <2>1. AttachedTo(editors[e].host) \in SUBSET Handlers
    <3>1. attached \subseteq Handlers
      OBVIOUS
    <3> QED
      BY <3>1, AttachedAreHandlers
  <2>2. editors' = [editors EXCEPT ![e] =
          [@ EXCEPT !.pc = "force", !.close = AttachedTo(editors[e].host)]]
    BY <1>4 DEF CloseHost
  <2>3. editors' \in [Editors -> Edit]
    BY <1>0, <2>1, <2>2 DEF Edit
  <2>4. epochs' \in [Hosts -> Nat]
    BY <1>0, <1>4 DEF CloseHost, Edit
  <2> QED
    BY <1>4, <2>3, <2>4 DEF CloseHost
<1>5. CASE ForceClose(e)
  <2>1. PICK a \in editors[e].close:
          /\ handlers' = Closed(a)
          /\ attached' = attached \ {a}
          /\ editors' = [editors EXCEPT ![e].close = @ \ {a}]
    BY <1>5 DEF ForceClose
  <2>2. a \in Handlers /\ handlers[a] \in Request
    BY <1>0 DEF Edit
  <2>3. editors' \in [Editors -> Edit]
    BY <1>0, <2>1 DEF Edit
  <2>4. handlers' \in [Handlers -> Request]
    BY <2>1, <2>2 DEF Closed, Request
  <2>5. attached' \subseteq {b \in Handlers: handlers'[b].pc \in {"start", "live"}}
    BY <2>1, <2>2 DEF Closed
  <2> QED
    BY <1>5, <2>3, <2>4, <2>5 DEF ForceClose
<1>6. CASE HookReturns(e)
  <2>1. editors' \in [Editors -> Edit] /\ gone' \in [Hosts -> Revisions]
    BY <1>0, <1>6, NewInSets DEF HookReturns, Edit
  <2> QED
    BY <1>6, <2>1 DEF HookReturns
<1> QED
  BY <1>1, <1>2, <1>3, <1>4, <1>5, <1>6 DEF Hook

LEMMA ShutdownTypes ==
  ASSUME TypeOK, BeginShutdown \/ ShutdownOne \/ EndShutdown
  PROVE  TypeOK'
<1> USE DEF TypeOK, managerVars, identityVars
<1>1. CASE BeginShutdown \/ EndShutdown
  BY <1>1 DEF BeginShutdown, EndShutdown
<1>2. CASE ShutdownOne
  <2>1. PICK a \in attached: handlers' = Closed(a) /\ attached' = attached \ {a}
    BY <1>2 DEF ShutdownOne
  <2>2. a \in Handlers /\ handlers[a] \in Request
    OBVIOUS
  <2>3. handlers' \in [Handlers -> Request]
    BY <2>1, <2>2 DEF Closed, Request
  <2>4. attached' \subseteq {b \in Handlers: handlers'[b].pc \in {"start", "live"}}
    BY <2>1, <2>2 DEF Closed
  <2> QED
    BY <1>2, <2>3, <2>4 DEF ShutdownOne
<1> QED
  BY <1>1, <1>2

LEMMA TypesNext ==
  ASSUME TypeOK, ProcessInv, [Next]_vars
  PROVE  TypeOK'
<1>1. CASE UNCHANGED vars
  BY <1>1 DEF vars, TypeOK, managerVars, identityVars
<1>2. CASE Next
  BY <1>2, ServeTypes, TicketTypes, EditorTypes, ShutdownTypes DEF Next
<1> QED
  BY <1>1, <1>2

-----------------------------------------------------------------------------
(* Processes. *)

(* Closing an attachment changes the state and the process of its request.   *)
LEMMA ClosedFacts ==
  ASSUME TypeOK, NEW a \in Handlers
  PROVE  \A b \in Handlers:
           /\ Closed(a)[b].host = handlers[b].host
           /\ Closed(a)[b].rev = handlers[b].rev
           /\ Closed(a)[b].life = handlers[b].life
           /\ Closed(a)[b].epoch = handlers[b].epoch
           /\ Closed(a)[b].ticket = handlers[b].ticket
           /\ Closed(a)[b].admitted = handlers[b].admitted
           /\ Closed(a)[b].pc =
                IF b = a /\ handlers[b].pc = "live" THEN "done" ELSE handlers[b].pc
           /\ Closed(a)[b].proc = IF b = a THEN "stopped" ELSE handlers[b].proc
<1>1. handlers \in [Handlers -> Request] /\ handlers[a] \in Request
  BY DEF TypeOK
<1> QED
  BY <1>1 DEF Closed, Request

LEMMA CloseProcess ==
  ASSUME TypeOK, ProcessInv, NEW a \in attached, 
         handlers' = Closed(a), attached' = attached \ {a}, UNCHANGED editors
  PROVE  ProcessInv'
<1>1. a \in Handlers /\ handlers[a].pc \in {"start", "live"}
  BY DEF TypeOK
<1>2. \A e \in Editors: editors[e].close \subseteq Handlers
  BY DEF TypeOK, Edit
<1> QED
  BY <1>1, <1>2, ClosedFacts DEF ProcessInv, NoOrphanProcess

LEMMA ServeProcess ==
  ASSUME TypeOK, ProcessInv, NEW a \in Handlers, Serve(a) \/ AttachmentEnds(a)
  PROVE  ProcessInv'
<1> USE DEF ProcessInv, NoOrphanProcess, managerVars
<1>1. /\ handlers \in [Handlers -> Request] /\ handlers[a] \in Request
      /\ \A e \in Editors: editors[e].close \subseteq Handlers
  BY DEF TypeOK, Edit
<1>2. CASE ReadEpoch(a)
  <2>1. handlers'[a].pc = "resolve" /\ handlers'[a].proc = "none"
    BY <1>1, <1>2 DEF ReadEpoch, NewRequest
  <2>2. \A b \in Handlers \ {a}: handlers'[b] = handlers[b]
    BY <1>1, <1>2 DEF ReadEpoch
  <2>3. a \notin attached
    BY <1>2 DEF ReadEpoch, At, TypeOK
  <2> QED
    BY <1>1, <1>2, <2>1, <2>2, <2>3 DEF ReadEpoch, At
<1>3. CASE Resolve(a)
  <2>1. /\ handlers'[a].pc \in {"redeem", "done"} /\ handlers'[a].proc = handlers[a].proc
        /\ \A b \in Handlers \ {a}: handlers'[b] = handlers[b]
    BY <1>1, <1>3 DEF Resolve, Request
  <2>2. a \notin attached
    BY <1>3 DEF Resolve, At, TypeOK
  <2>3. UNCHANGED <<attached, editors>> /\ handlers[a].pc = "resolve"
    BY <1>3 DEF Resolve, At
  <2> QED
    BY <1>1, <2>1, <2>2, <2>3
<1>4. CASE RedeemForTarget(a)
  <2>1. /\ handlers'[a].pc \in {"create", "done"} /\ handlers'[a].proc = handlers[a].proc
        /\ \A b \in Handlers \ {a}: handlers'[b] = handlers[b]
    <3> DEFINE r == handlers[a]
               pass == Redeemable(r.ticket, r.host, r.rev, r.session)
    <3>1. handlers' = [handlers EXCEPT ![a].pc = IF pass THEN "create" ELSE "done",
                                       ![a].admitted = pass]
      BY <1>4 DEF RedeemForTarget
    <3> HIDE DEF pass
    <3> QED
      BY <1>1, <3>1 DEF Request
  <2>2. a \notin attached
    BY <1>4 DEF RedeemForTarget, At, TypeOK
  <2> QED
    BY <1>1, <1>4, <2>1, <2>2 DEF RedeemForTarget, At
<1>5. CASE NewProcess(a)
  <2>1. /\ \/ handlers'[a].pc = "register" /\ handlers'[a].proc = "running"
           \/ handlers'[a].pc = "done" /\ handlers'[a].proc = handlers[a].proc
        /\ \A b \in Handlers \ {a}: handlers'[b] = handlers[b]
    BY <1>1, <1>5 DEF NewProcess, Request
  <2>2. a \notin attached
    BY <1>5 DEF NewProcess, At, TypeOK
  <2> QED
    BY <1>1, <1>5, <2>1, <2>2 DEF NewProcess, At
<1>6. CASE Register(a)
  <2>1. \A b \in Handlers \ {a}: handlers'[b] = handlers[b]
    BY <1>1, <1>6 DEF Register
  <2>2. CASE Registrable(a)
    <3>1. handlers'[a].pc = "start" /\ handlers'[a].proc = handlers[a].proc
      BY <1>1, <1>6, <2>2 DEF Register, Request
    <3> QED
      BY <1>1, <1>6, <2>1, <2>2, <3>1 DEF Register, At
  <2>3. CASE ~Registrable(a)
    <3>1. /\ handlers'[a].pc = "done" /\ handlers'[a].proc = "stopped"
          /\ UNCHANGED <<attached, editors>>
      BY <1>1, <1>6, <2>3 DEF Register, Request
    <3>2. a \notin attached
      BY <1>6 DEF Register, At, TypeOK
    <3> QED
      BY <1>1, <1>6, <2>1, <3>1, <3>2 DEF Register, At
  <2> QED
    BY <2>2, <2>3
<1>7. CASE Start(a)
  BY <1>1, <1>7 DEF Start, At, Request, TypeOK
<1>8. CASE AttachmentEnds(a)
  BY <1>1, <1>8, ClosedFacts DEF AttachmentEnds, At
<1> QED
  BY <1>2, <1>3, <1>4, <1>5, <1>6, <1>7, <1>8 DEF Serve

LEMMA EditorProcess ==
  ASSUME TypeOK, ProcessInv, NEW e \in Editors, ChangeHost(e) \/ Hook(e)
  PROVE  ProcessInv'
<1> USE DEF ProcessInv, NoOrphanProcess, managerVars
<1>1. /\ editors \in [Editors -> Edit] /\ editors[e] \in Edit
      /\ attached \subseteq Handlers
      /\ \A d \in Editors: editors[d].close \subseteq Handlers
  BY DEF TypeOK, Edit
<1>2. CASE ChangeHost(e)
  BY <1>1, <1>2 DEF ChangeHost
<1>3. CASE InvalidateHost(e)
  BY <1>1, <1>3 DEF InvalidateHost, Edit
<1>4. CASE CloseHost(e)
  <2>1. editors'[e].close = AttachedTo(editors[e].host)
    BY <1>1, <1>4 DEF CloseHost, Edit
  <2>2. \A d \in Editors \ {e}: editors'[d] = editors[d]
    BY <1>1, <1>4 DEF CloseHost
  <2>3. \A a \in AttachedTo(editors[e].host): handlers[a].pc \in {"start", "live"}
    BY DEF AttachedTo, TypeOK
  <2>4. UNCHANGED <<handlers, attached>>
    BY <1>4 DEF CloseHost
  <2>5. \A d \in Editors: \A a \in editors'[d].close: handlers[a].pc \in {"start", "live", "done"}
    BY <2>1, <2>2, <2>3
  <2> QED
    BY <2>4, <2>5
<1>5. CASE ForceClose(e)
  <2>1. PICK a \in editors[e].close:
          /\ handlers' = Closed(a)
          /\ attached' = attached \ {a}
          /\ editors' = [editors EXCEPT ![e].close = @ \ {a}]
    BY <1>5 DEF ForceClose
  <2>2. a \in Handlers /\ handlers[a].pc \in {"start", "live", "done"}
    BY <1>1
  <2>3. \A d \in Editors: editors'[d].close \subseteq editors[d].close
    BY <1>1, <2>1 DEF Edit
  <2> QED
    BY <1>1, <2>1, <2>2, <2>3, ClosedFacts
<1>6. CASE HookReturns(e)
  BY <1>1, <1>6 DEF HookReturns, NewEdit
<1> QED
  BY <1>2, <1>3, <1>4, <1>5, <1>6 DEF Hook

LEMMA ProcessNext ==
  ASSUME TypeOK, ProcessInv, [Next]_vars
  PROVE  ProcessInv'
<1>1. CASE UNCHANGED <<handlers, attached, editors>>
  BY <1>1 DEF ProcessInv, NoOrphanProcess
<1>2. CASE ShutdownOne
  BY <1>2, CloseProcess DEF ShutdownOne
<1> QED
  BY <1>1, <1>2, ServeProcess, EditorProcess
  DEF Next, vars, managerVars, ResolveForTicket, IssueForTarget, Expire, Sweep,
      CreateHost, BeginShutdown, EndShutdown

-----------------------------------------------------------------------------
(* Admissions. *)

(* A step that only takes tickets further, or out of the store.              *)
TicketsMoveOn ==
  \A t \in Tickets:
    /\ tickets'[t].host = tickets[t].host /\ tickets'[t].rev = tickets[t].rev
    /\ tickets'[t].life = tickets[t].life
    /\ \/ tickets'[t].state = tickets[t].state
       \/ tickets[t].state # "unasked" /\ tickets'[t].state = "gone"
       \/ tickets[t].state = "resolved" /\ tickets'[t].state = "issued"

LEMMA TicketsAdmission ==
  ASSUME TypeOK, AdmissionInv, TicketsMoveOn, UNCHANGED <<identityVars, life, handlers>>
  PROVE  AdmissionInv'
<1>1. \A a \in Handlers: handlers[a].ticket \in Tickets
  BY DEF TypeOK, Request
<1> QED
  BY <1>1
  DEF AdmissionInv, ReadingsCurrent, ReadingsAgree, Readings, AdmittedSpent,
      SingleUse, TicketKeepsItsHost, TicketsMoveOn, identityVars

(* A step that takes requests further once their ticket has been dealt with. *)
RequestsMoveOn ==
  \A a \in Handlers:
    /\ handlers'[a].host = handlers[a].host /\ handlers'[a].rev = handlers[a].rev
    /\ handlers'[a].life = handlers[a].life
    /\ handlers'[a].ticket = handlers[a].ticket
    /\ handlers'[a].admitted = handlers[a].admitted
    /\ \/ handlers'[a].pc = handlers[a].pc
       \/ handlers'[a].pc \notin {"idle", "resolve", "redeem"}

LEMMA RequestsAdmission ==
  ASSUME AdmissionInv, RequestsMoveOn, UNCHANGED <<identityVars, life, tickets>>
  PROVE  AdmissionInv'
<1> QED
  BY DEF AdmissionInv, ReadingsCurrent, ReadingsAgree, Readings, AdmittedSpent,
         SingleUse, TicketKeepsItsHost, RequestsMoveOn, identityVars

(* The readings: a ticket request and a WebSocket request look up the host.  *)
LEMMA ResolveForTicketAdmission ==
  ASSUME IInv, NEW t \in Tickets, ResolveForTicket(t)
  PROVE  AdmissionInv'
<1>1. PICK h \in Hosts, s \in Sessions:
        /\ current[h] # 0
        /\ tickets' = [tickets EXCEPT ![t] =
             [state |-> "resolved", host |-> h, session |-> s, rev |-> current[h],
              expired |-> FALSE, life |-> life[h]]]
  BY DEF ResolveForTicket
<1>2. UNCHANGED <<identityVars, life, handlers>> /\ tickets[t].state = "unasked"
  BY DEF ResolveForTicket
<1>3. /\ tickets'[t].rev = current[h] /\ tickets'[t].life = life[h]
      /\ tickets'[t].host = h /\ tickets'[t].state = "resolved"
      /\ \A u \in Tickets \ {t}: tickets'[u] = tickets[u]
  BY <1>1 DEF IInv, TypeOK
<1>4. current[h] <= used[h]
  BY DEF IInv, StaleInv, RevisionsBehind
<1>5. AdmissionInv
  BY DEF IInv
<1>6. \A a \in Handlers: handlers[a].admitted => handlers[a].ticket # t
  BY <1>2, <1>5 DEF AdmissionInv, AdmittedSpent
<1>7. ReadingsCurrent'
  BY <1>1, <1>2, <1>3, <1>4, <1>5 DEF AdmissionInv, ReadingsCurrent, identityVars
<1>8. ReadingsAgree'
  BY <1>1, <1>2, <1>3, <1>5 DEF AdmissionInv, ReadingsCurrent, ReadingsAgree
<1>9. Readings'
  BY <1>1, <1>2, <1>3, <1>5 DEF AdmissionInv, Readings
<1>10. \A a \in Handlers: handlers[a].ticket \in Tickets
  BY DEF IInv, TypeOK, Request
<1>11. AdmittedSpent' /\ SingleUse' /\ TicketKeepsItsHost'
  BY <1>2, <1>3, <1>5, <1>6, <1>10 DEF AdmissionInv, AdmittedSpent, SingleUse, TicketKeepsItsHost
<1> QED
  BY <1>7, <1>8, <1>9, <1>11 DEF AdmissionInv

LEMMA ReadEpochAdmission ==
  ASSUME IInv, NEW a \in Handlers, ReadEpoch(a)
  PROVE  AdmissionInv'
<1>1. /\ handlers'[a].rev = 0 /\ handlers'[a].pc = "resolve" /\ ~handlers'[a].admitted
      /\ \A b \in Handlers \ {a}: handlers'[b] = handlers[b]
  BY DEF ReadEpoch, NewRequest, IInv, TypeOK
<1>2. UNCHANGED <<identityVars, life, tickets>>
  BY DEF ReadEpoch
<1> QED
  BY <1>1, <1>2
  DEF IInv, AdmissionInv, ReadingsCurrent, ReadingsAgree, Readings, AdmittedSpent,
      SingleUse, TicketKeepsItsHost, identityVars

LEMMA ResolveAdmission ==
  ASSUME IInv, NEW a \in Handlers, Resolve(a)
  PROVE  AdmissionInv'
<1> DEFINE h == handlers[a].host
<1>1. /\ handlers'[a].rev = current[h] /\ handlers'[a].life = life[h]
      /\ handlers'[a].host = h /\ handlers'[a].admitted = handlers[a].admitted
      /\ handlers'[a].pc = IF current[h] = 0 THEN "done" ELSE "redeem"
      /\ \A b \in Handlers \ {a}: handlers'[b] = handlers[b]
  BY DEF Resolve, IInv, TypeOK, Request
<1>2. UNCHANGED <<identityVars, life, tickets>> /\ handlers[a].pc = "resolve"
  BY DEF Resolve, At
<1>3. h \in Hosts /\ current[h] <= used[h]
  BY DEF IInv, TypeOK, Request, StaleInv, RevisionsBehind
<1>4. AdmissionInv
  BY DEF IInv
<1>5. ~handlers'[a].admitted
  BY <1>1, <1>2, <1>4 DEF AdmissionInv, AdmittedSpent
<1>6. ReadingsCurrent'
  BY <1>1, <1>2, <1>3, <1>4 DEF AdmissionInv, ReadingsCurrent, identityVars
<1>7. ReadingsAgree'
  BY <1>1, <1>2, <1>4 DEF AdmissionInv, ReadingsCurrent, ReadingsAgree
<1>8. Readings'
  BY <1>1, <1>2, <1>4 DEF AdmissionInv, Readings
<1>9. AdmittedSpent' /\ SingleUse' /\ TicketKeepsItsHost'
  BY <1>1, <1>2, <1>4, <1>5 DEF AdmissionInv, AdmittedSpent, SingleUse, TicketKeepsItsHost
<1> QED
  BY <1>6, <1>7, <1>8, <1>9 DEF AdmissionInv

(* The redemption: the ticket and the request agree on host and revision,    *)
(* hence on the life of the host, and nobody was admitted with it before.    *)
LEMMA RedeemAdmission ==
  ASSUME IInv, NEW a \in Handlers, RedeemForTarget(a)
  PROVE  AdmissionInv'
<1> DEFINE t == handlers[a].ticket
           pass == Redeemable(t, handlers[a].host, handlers[a].rev, handlers[a].session)
<1>1. /\ handlers'[a].rev = handlers[a].rev /\ handlers'[a].life = handlers[a].life
      /\ handlers'[a].host = handlers[a].host /\ handlers'[a].ticket = t
      /\ handlers'[a].admitted = pass
      /\ handlers'[a].pc \in {"create", "done"}
      /\ \A b \in Handlers \ {a}: handlers'[b] = handlers[b]
  BY DEF RedeemForTarget, IInv, TypeOK, Request
<1>2. UNCHANGED <<identityVars, life>> /\ handlers[a].pc = "redeem"
  BY DEF RedeemForTarget, At
<1>3. t \in Tickets /\ tickets \in [Tickets -> Ticket]
  BY DEF IInv, TypeOK, Request
<1>4. /\ tickets' = Without({u \in {t}: Issued(u)})
      /\ TicketsMoveOn
  BY <1>3, WithoutFacts DEF RedeemForTarget, TicketsMoveOn, Issued
<1>5. AdmissionInv
  BY DEF IInv
<1>6. ReadingsCurrent' /\ ReadingsAgree' /\ Readings'
  BY <1>1, <1>2, <1>4, <1>5
  DEF AdmissionInv, ReadingsCurrent, ReadingsAgree, Readings, TicketsMoveOn, identityVars
<1>7. ASSUME pass
      PROVE  /\ tickets'[t].state = "gone" /\ tickets'[t].life = handlers[a].life
             /\ \A b \in Handlers: handlers[b].admitted => handlers[b].ticket # t
  <2>1. /\ tickets[t].state = "issued" /\ tickets[t].rev = handlers[a].rev
        /\ tickets[t].host = handlers[a].host
    BY <1>7 DEF Redeemable, Issued
  <2>2. tickets'[t].state = "gone"
    BY <1>3, <1>4, <2>1, WithoutFacts DEF Issued
  <2>3. tickets[t].life = handlers[a].life
    BY <1>2, <1>3, <1>5, <2>1 DEF AdmissionInv, Readings, ReadingsAgree
  <2> QED
    BY <1>3, <1>4, <1>5, <2>1, <2>2, <2>3 DEF AdmissionInv, AdmittedSpent, TicketsMoveOn
<1>8. \A b \in Handlers: handlers[b].ticket \in Tickets
  BY DEF IInv, TypeOK, Request
<1> HIDE DEF pass
<1>9. ASSUME NEW b \in Handlers, handlers'[b].admitted
      PROVE  /\ tickets'[handlers'[b].ticket].state = "gone"
             /\ handlers'[b].pc \notin {"idle", "resolve", "redeem"}
             /\ handlers'[b].life = tickets'[handlers'[b].ticket].life
  <2>1. CASE b = a
    BY <1>1, <1>7, <1>9, <2>1
  <2>2. CASE b # a
    <3>1. handlers'[b] = handlers[b] /\ handlers[b].ticket \in Tickets
      BY <1>1, <1>8, <2>2
    <3>2. /\ tickets[handlers[b].ticket].state = "gone"
          /\ handlers[b].pc \notin {"idle", "resolve", "redeem"}
          /\ handlers[b].life = tickets[handlers[b].ticket].life
      BY <1>5, <1>9, <3>1 DEF AdmissionInv, AdmittedSpent, TicketKeepsItsHost
    <3> QED
      BY <1>4, <3>1, <3>2 DEF TicketsMoveOn
  <2> QED
    BY <2>1, <2>2
<1>10. SingleUse'
  BY <1>1, <1>5, <1>7 DEF AdmissionInv, SingleUse
<1>11. AdmittedSpent' /\ TicketKeepsItsHost'
  BY <1>9 DEF AdmittedSpent, TicketKeepsItsHost
<1> QED
  BY <1>6, <1>10, <1>11 DEF AdmissionInv

(* An administrator: a new revision has not been read yet, and a removed     *)
(* host has none.                                                            *)
LEMMA EditAdmission ==
  ASSUME IInv, NEW e \in Editors, CreateHost(e) \/ ChangeHost(e)
  PROVE  AdmissionInv'
<1>1. UNCHANGED <<tickets, handlers>>
  BY DEF CreateHost, ChangeHost
<1>2. PICK h \in Hosts:
        \/ Identity!Issue(h) /\ UNCHANGED life
        \/ Identity!Retire(h) /\ life' = [life EXCEPT ![h] = @ + 1]
  BY DEF CreateHost, ChangeHost
<1>3. /\ current \in [Hosts -> Revisions] /\ used \in [Hosts -> Revisions]
      /\ life \in [Hosts -> Nat] /\ \A n \in Revisions: n \in Nat
      /\ \A t \in Tickets: tickets[t].host \in Hosts /\ tickets[t].rev \in Nat
      /\ \A a \in Handlers: handlers[a].host \in Hosts /\ handlers[a].rev \in Nat
  BY DEF IInv, TypeOK, Ticket, Request, Revisions
<1>4. /\ \A g \in Hosts \ {h}: current'[g] = current[g] /\ life'[g] = life[g]
      /\ \A g \in Hosts: used'[g] >= used[g]
      /\ \/ current'[h] > used[h] /\ life'[h] = life[h]
         \/ current'[h] = 0
  BY <1>2, <1>3, RequestAssumption DEF Identity!Issue, Identity!Retire, Revisions
<1>5. AdmissionInv
  BY DEF IInv
<1>6. \A g \in Hosts: used[g] \in Nat /\ used'[g] \in Nat
  BY <1>2, <1>3, RequestAssumption DEF Identity!Issue, Identity!Retire, Revisions
<1>7. ReadingsCurrent'
  BY <1>1, <1>3, <1>4, <1>5, <1>6 DEF AdmissionInv, ReadingsCurrent
<1> QED
  BY <1>1, <1>5, <1>7
  DEF AdmissionInv, ReadingsAgree, Readings, AdmittedSpent, SingleUse, TicketKeepsItsHost

LEMMA AdmissionNext ==
  ASSUME IInv, [Next]_vars
  PROVE  AdmissionInv'
<1>1. /\ TypeOK /\ AdmissionInv /\ handlers \in [Handlers -> Request]
      /\ tickets \in [Tickets -> Ticket]
      /\ \A e \in Editors: editors[e].close \subseteq Handlers
      /\ attached \subseteq Handlers
  BY DEF IInv, TypeOK, Edit
<1>2. ASSUME NEW t \in Tickets, IssueForTarget(t) \/ Expire(t) PROVE AdmissionInv'
  <2>1. TicketsMoveOn
    BY <1>1, <1>2 DEF IssueForTarget, Expire, TicketsMoveOn, Issued, Ticket
  <2> QED
    BY <1>1, <1>2, <2>1, TicketsAdmission DEF IssueForTarget, Expire
<1>3. CASE Sweep
  <2>1. TicketsMoveOn
    BY <1>1, <1>3, WithoutFacts DEF Sweep, TicketsMoveOn, Issued
  <2> QED
    BY <1>1, <1>3, <2>1, TicketsAdmission DEF Sweep
<1>4. ASSUME NEW e \in Editors, InvalidateHost(e) PROVE AdmissionInv'
  <2>1. TicketsMoveOn
    BY <1>1, <1>4, WithoutFacts DEF InvalidateHost, TicketsMoveOn, Issued
  <2> QED
    BY <1>1, <1>4, <2>1, TicketsAdmission DEF InvalidateHost
<1>5. ASSUME NEW a \in Handlers, NewProcess(a) \/ Register(a) \/ Start(a) PROVE AdmissionInv'
  <2>1. RequestsMoveOn
    BY <1>1, <1>5 DEF NewProcess, Register, Start, RequestsMoveOn, Request
  <2> QED
    BY <1>1, <1>5, <2>1, RequestsAdmission DEF NewProcess, Register, Start
<1>6. ASSUME NEW a \in Handlers, handlers' = Closed(a),
             UNCHANGED <<identityVars, life, tickets>>
      PROVE  AdmissionInv'
  <2>1. RequestsMoveOn
    BY <1>1, <1>6, ClosedFacts DEF RequestsMoveOn
  <2> QED
    BY <1>1, <1>6, <2>1, RequestsAdmission
<1>7. CASE UNCHANGED <<identityVars, life, tickets, handlers>>
  BY <1>1, <1>7
  DEF AdmissionInv, ReadingsCurrent, ReadingsAgree, Readings, AdmittedSpent,
      SingleUse, TicketKeepsItsHost, identityVars
<1>8. ASSUME NEW a \in Handlers, Serve(a) \/ AttachmentEnds(a) PROVE AdmissionInv'
  BY <1>5, <1>6, <1>8, ReadEpochAdmission, ResolveAdmission, RedeemAdmission
  DEF Serve, AttachmentEnds
<1>9. ASSUME NEW e \in Editors, CreateHost(e) \/ ChangeHost(e) \/ Hook(e) PROVE AdmissionInv'
  BY <1>1, <1>4, <1>6, <1>7, <1>9, EditAdmission
  DEF Hook, CloseHost, ForceClose, HookReturns
<1>10. CASE BeginShutdown \/ ShutdownOne \/ EndShutdown
  BY <1>1, <1>6, <1>7, <1>10 DEF BeginShutdown, ShutdownOne, EndShutdown
<1> QED
  BY <1>2, <1>3, <1>7, <1>8, <1>9, <1>10, ResolveForTicketAdmission DEF Next, vars

-----------------------------------------------------------------------------
(* Overtaken requests. *)

(* What the proofs below read off the types. *)
LEMMA Types ==
  ASSUME TypeOK
  PROVE  /\ \A h \in Hosts: /\ current[h] \in Nat /\ used[h] \in Nat /\ gone[h] \in Nat
                            /\ epochs[h] \in Nat
         /\ \A a \in Handlers:
              /\ handlers[a].host \in Hosts /\ handlers[a].rev \in Nat
              /\ handlers[a].epoch \in Nat
         /\ \A e \in Editors:
              /\ editors[e].host \in Hosts /\ editors[e].was \in Nat
              /\ editors[e].close \subseteq Handlers
         /\ \A a \in attached: a \in Handlers /\ handlers[a].pc \in {"start", "live"}
<1> QED
  BY DEF TypeOK, Revisions, Request, Edit

(* A request that takes a step of its own and was not attached: it is past   *)
(* Register, or keeps what it read, or reads the present revision.           *)
LEMMA RequestStale ==
  ASSUME IInv, NEW a \in Handlers,
         UNCHANGED <<identityVars, managerVars, editors, gone>>,
         \A b \in Handlers \ {a}: handlers'[b] = handlers[b],
         a \notin attached,
         handlers'[a].epoch <= epochs[handlers'[a].host],
         \/ handlers'[a].pc \in {"resolve", "done"}
         \/ /\ handlers[a].pc \in {"redeem", "create"}
            /\ handlers'[a].host = handlers[a].host /\ handlers'[a].rev = handlers[a].rev
            /\ handlers'[a].epoch = handlers[a].epoch
         \/ /\ handlers'[a].host \in Hosts
            /\ handlers'[a].rev = current[handlers'[a].host]
            /\ handlers'[a].rev # 0
  PROVE  StaleInv'
<1>1. StaleInv /\ TypeOK
  BY DEF IInv
<1>2. UNCHANGED <<current, used, gone, epochs, attached, editors>>
  BY DEF identityVars, managerVars
<1>3. RevisionsBehind' /\ EditsBehind'
  BY <1>1, <1>2 DEF StaleInv, RevisionsBehind, EditsBehind
<1>4. EpochsRead'
  BY <1>1, <1>2 DEF StaleInv, EpochsRead
<1>5. OvertakenListed'
  <2> SUFFICES ASSUME NEW e \in Editors, NEW b \in Handlers,
                      editors[e].pc = "force",
                      handlers'[b].host = editors[e].host,
                      handlers'[b].rev <= editors[e].was
               PROVE  Barred(b)' /\ (b \in attached => b \in editors[e].close)
    BY <1>2 DEF OvertakenListed
  <2>1. CASE b # a
    BY <1>1, <1>2, <2>1 DEF StaleInv, OvertakenListed, Barred, Unregistered
  <2>2. CASE b = a
    BY <1>1, <1>2, <2>2, Types
    DEF StaleInv, OvertakenListed, EditsBehind, Barred, Unregistered
  <2> QED
    BY <2>1, <2>2
<1>6. OvertakenBarred'
  <2> SUFFICES ASSUME NEW b \in Handlers, handlers'[b].rev <= gone[handlers'[b].host]
               PROVE  Barred(b)' /\ b \notin attached
    BY <1>2 DEF OvertakenBarred
  <2>1. CASE b # a
    BY <1>1, <1>2, <2>1 DEF StaleInv, OvertakenBarred, Barred, Unregistered
  <2>2. CASE b = a
    BY <1>1, <1>2, <2>2, Types
    DEF StaleInv, OvertakenBarred, RevisionsBehind, Barred, Unregistered
  <2> QED
    BY <2>1, <2>2
<1> QED
  BY <1>3, <1>4, <1>5, <1>6 DEF StaleInv

LEMMA ServeStale ==
  ASSUME IInv, NEW a \in Handlers,
         ReadEpoch(a) \/ Resolve(a) \/ RedeemForTarget(a) \/ NewProcess(a)
  PROVE  StaleInv'
<1>1. /\ handlers \in [Handlers -> Request] /\ handlers[a] \in Request
      /\ a \notin attached /\ epochs \in [Hosts -> Nat]
      /\ handlers[a].epoch <= epochs[handlers[a].host]
  BY DEF IInv, TypeOK, StaleInv, EpochsRead, ReadEpoch, Resolve, RedeemForTarget, NewProcess, At
<1>2. CASE ReadEpoch(a)
  <2>1. PICK h \in Hosts, s \in Sessions, t \in Tickets:
          handlers' = [handlers EXCEPT ![a] =
            [NewRequest EXCEPT !.pc = "resolve", !.host = h, !.session = s,
                               !.ticket = t, !.epoch = epochs[h]]]
    BY <1>2 DEF ReadEpoch
  <2>2. /\ handlers'[a].pc = "resolve" /\ handlers'[a].host = h
        /\ handlers'[a].epoch = epochs[h]
        /\ \A b \in Handlers \ {a}: handlers'[b] = handlers[b]
    BY <1>1, <2>1 DEF NewRequest
  <2>3. handlers'[a].epoch <= epochs[handlers'[a].host]
    BY <1>1, <2>2
  <2> QED
    BY <1>1, <1>2, <2>2, <2>3, RequestStale DEF ReadEpoch
<1>3. CASE Resolve(a)
  BY <1>1, <1>3, RequestStale DEF Resolve, Request
<1>4. CASE RedeemForTarget(a)
  BY <1>1, <1>4, RequestStale DEF RedeemForTarget, Request, At
<1>5. CASE NewProcess(a)
  BY <1>1, <1>5, RequestStale DEF NewProcess, Request, At
<1> QED
  BY <1>2, <1>3, <1>4, <1>5

(* Register takes a request in only when no invalidation overtook it.        *)
LEMMA RegisterStale ==
  ASSUME IInv, NEW a \in Handlers, Register(a) \/ Start(a)
  PROVE  StaleInv'
<1>1. StaleInv /\ TypeOK /\ handlers \in [Handlers -> Request] /\ handlers[a] \in Request
  BY DEF IInv, TypeOK
<1>2. UNCHANGED <<current, used, gone, epochs, editors>>
  BY DEF Register, Start, identityVars, managerVars
<1>3. /\ \A b \in Handlers:
           /\ handlers'[b].host = handlers[b].host /\ handlers'[b].rev = handlers[b].rev
           /\ handlers'[b].epoch = handlers[b].epoch
           /\ handlers'[b].pc = handlers[b].pc \/ ~Unregistered(b)'
      /\ attached' \subseteq attached \union {a}
      /\ a \in attached' => a \in attached \/ (Unregistered(a) /\ Registrable(a))
  BY <1>1 DEF Register, Start, Request, Unregistered, At, managerVars
<1>4. RevisionsBehind' /\ EditsBehind' /\ EpochsRead'
  BY <1>1, <1>2, <1>3 DEF StaleInv, RevisionsBehind, EditsBehind, EpochsRead
<1>5. \A b \in Handlers: Barred(b) => Barred(b)'
  BY <1>2, <1>3 DEF Barred, Unregistered
<1>6. Unregistered(a) /\ Registrable(a) => ~Barred(a)
  BY <1>1, Types DEF Barred, Registrable
<1>7. OvertakenListed'
  BY <1>1, <1>2, <1>3, <1>5, <1>6 DEF StaleInv, OvertakenListed
<1>8. OvertakenBarred'
  BY <1>1, <1>2, <1>3, <1>5, <1>6 DEF StaleInv, OvertakenBarred
<1> QED
  BY <1>4, <1>7, <1>8 DEF StaleInv

(* Closing an attachment takes it off the manager, and off the list of the   *)
(* administrator who closes it.                                              *)
LEMMA CloseStale ==
  ASSUME IInv, NEW a \in Handlers,
         handlers' = Closed(a), attached' = attached \ {a},
         UNCHANGED <<current, used, gone, epochs>>,
         \A e \in Editors:
           /\ editors'[e].pc = editors[e].pc /\ editors'[e].host = editors[e].host
           /\ editors'[e].was = editors[e].was
           /\ editors[e].close \ {a} \subseteq editors'[e].close
  PROVE  StaleInv'
<1>1. StaleInv /\ TypeOK
  BY DEF IInv
<1>2. \A b \in Handlers:
        /\ handlers'[b].host = handlers[b].host /\ handlers'[b].rev = handlers[b].rev
        /\ handlers'[b].epoch = handlers[b].epoch
        /\ Barred(b) => Barred(b)'
  BY <1>1, ClosedFacts DEF Barred, Unregistered
<1>3. RevisionsBehind' /\ EditsBehind' /\ EpochsRead'
  BY <1>1, <1>2 DEF StaleInv, RevisionsBehind, EditsBehind, EpochsRead
<1>4. OvertakenListed'
  BY <1>1, <1>2 DEF StaleInv, OvertakenListed
<1>5. OvertakenBarred'
  BY <1>1, <1>2 DEF StaleInv, OvertakenBarred
<1> QED
  BY <1>3, <1>4, <1>5 DEF StaleInv

(* CloseHost raises the epoch and lists in one step: nothing escapes both.   *)
LEMMA CloseHostStale ==
  ASSUME IInv, NEW e \in Editors, CloseHost(e)
  PROVE  StaleInv'
<1> DEFINE h == editors[e].host
<1>1. StaleInv /\ TypeOK /\ editors \in [Editors -> Edit] /\ editors[e] \in Edit
      /\ epochs \in [Hosts -> Nat]
  BY DEF IInv, TypeOK
<1>2. UNCHANGED <<current, used, gone, handlers, attached>> /\ editors[e].pc = "close"
  BY DEF CloseHost, identityVars
<1>3. /\ epochs'[h] = epochs[h] + 1
      /\ \A g \in Hosts: epochs'[g] \in Nat /\ epochs'[g] >= epochs[g]
  BY <1>1, Types DEF CloseHost
<1>4. editors' = [editors EXCEPT ![e] = [@ EXCEPT !.pc = "force", !.close = AttachedTo(h)]]
  BY DEF CloseHost
<1>5. /\ editors'[e].pc = "force" /\ editors'[e].close = AttachedTo(h)
      /\ editors'[e].host = h /\ editors'[e].was = editors[e].was
      /\ \A d \in Editors \ {e}: editors'[d] = editors[d]
  BY <1>1, <1>4 DEF Edit
<1>6. RevisionsBehind' /\ EditsBehind'
  BY <1>1, <1>2, <1>5 DEF StaleInv, RevisionsBehind, EditsBehind
<1>7. EpochsRead'
  BY <1>1, <1>2, <1>3, Types DEF StaleInv, EpochsRead
<1>8. \A b \in Handlers: Barred(b) => Barred(b)'
  BY <1>1, <1>2, <1>3, Types DEF Barred, Unregistered
<1>9. \A b \in Handlers: handlers[b].host = h =>
        Barred(b)' /\ (b \in attached => b \in AttachedTo(h))
  BY <1>1, <1>2, <1>3, Types DEF StaleInv, EpochsRead, Barred, Unregistered, AttachedTo
<1>10. OvertakenListed'
  BY <1>1, <1>2, <1>5, <1>8, <1>9 DEF StaleInv, OvertakenListed
<1>11. OvertakenBarred'
  BY <1>1, <1>2, <1>8 DEF StaleInv, OvertakenBarred
<1> QED
  BY <1>6, <1>7, <1>10, <1>11 DEF StaleInv

(* The hook returns when its list is empty: what it overtook is barred.      *)
LEMMA HookReturnsStale ==
  ASSUME IInv, NEW e \in Editors, HookReturns(e)
  PROVE  StaleInv'
<1> DEFINE h == editors[e].host
<1>1. StaleInv /\ TypeOK /\ editors \in [Editors -> Edit] /\ gone \in [Hosts -> Revisions]
  BY DEF IInv, TypeOK
<1>2. /\ UNCHANGED <<current, used, epochs, handlers, attached>>
      /\ editors[e].pc = "force" /\ editors[e].close = {}
      /\ gone' = [gone EXCEPT ![h] = IF @ < editors[e].was THEN editors[e].was ELSE @]
  BY DEF HookReturns, identityVars, managerVars
<1>3. editors'[e].pc = "idle" /\ \A d \in Editors \ {e}: editors'[d] = editors[d]
  BY <1>1 DEF HookReturns, NewEdit
<1>4. /\ gone'[h] \in {gone[h], editors[e].was}
      /\ \A g \in Hosts \ {h}: gone'[g] = gone[g]
  BY <1>1, <1>2
<1>5. RevisionsBehind'
  BY <1>1, <1>2, <1>4, Types DEF StaleInv, RevisionsBehind, EditsBehind
<1>6. EditsBehind' /\ EpochsRead'
  BY <1>1, <1>2, <1>3 DEF StaleInv, EditsBehind, EpochsRead
<1>7. OvertakenListed'
  BY <1>1, <1>2, <1>3 DEF StaleInv, OvertakenListed, Barred, Unregistered
<1>8. OvertakenBarred'
  BY <1>1, <1>2, <1>4, Types DEF StaleInv, OvertakenListed, OvertakenBarred, Barred, Unregistered
<1> QED
  BY <1>5, <1>6, <1>7, <1>8 DEF StaleInv

(* A new revision lies above everything done away with.                      *)
LEMMA EditStale ==
  ASSUME IInv, NEW e \in Editors, CreateHost(e) \/ ChangeHost(e)
  PROVE  StaleInv'
<1>1. StaleInv /\ TypeOK /\ editors \in [Editors -> Edit]
      /\ current \in [Hosts -> Revisions] /\ used \in [Hosts -> Revisions]
  BY DEF IInv, TypeOK
<1>2. UNCHANGED <<epochs, attached, handlers, gone>>
  BY DEF CreateHost, ChangeHost, managerVars
<1>3. PICK h \in Hosts:
        /\ Identity!Issue(h) \/ Identity!Retire(h)
        /\ \/ UNCHANGED editors
           \/ /\ current[h] # 0
              /\ editors' = [editors EXCEPT ![e] =
                   [pc |-> "tickets", host |-> h, was |-> current[h], close |-> {}]]
  BY DEF CreateHost, ChangeHost
<1>4. /\ \A g \in Hosts \ {h}: current'[g] = current[g] /\ used'[g] = used[g]
      /\ \/ current'[h] > used[h] /\ used'[h] = current'[h]
         \/ current'[h] = 0 /\ used'[h] = used[h]
      /\ current'[h] \in Nat /\ used'[h] \in Nat
  BY <1>1, <1>3, RequestAssumption DEF Identity!Issue, Identity!Retire, Revisions
<1>5. /\ \A d \in Editors \ {e}: editors'[d] = editors[d]
      /\ \/ editors'[e] = editors[e]
         \/ /\ editors'[e].pc = "tickets" /\ editors'[e].host = h
            /\ editors'[e].was = current[h]
  BY <1>1, <1>3
<1>6. RevisionsBehind'
  BY <1>1, <1>2, <1>4, Types DEF StaleInv, RevisionsBehind
<1>7. EditsBehind'
  BY <1>1, <1>4, <1>5, Types DEF StaleInv, RevisionsBehind, EditsBehind
<1>8. EpochsRead' /\ OvertakenBarred'
  BY <1>1, <1>2 DEF StaleInv, EpochsRead, OvertakenBarred, Barred, Unregistered
<1>9. OvertakenListed'
  BY <1>1, <1>2, <1>5 DEF StaleInv, OvertakenListed, Barred, Unregistered
<1> QED
  BY <1>6, <1>7, <1>8, <1>9 DEF StaleInv

LEMMA StaleNext ==
  ASSUME IInv, [Next]_vars
  PROVE  StaleInv'
<1>1. /\ StaleInv /\ editors \in [Editors -> Edit] /\ attached \subseteq Handlers
      /\ \A e \in Editors: editors[e].close \subseteq Handlers
  BY DEF IInv, TypeOK, Edit
<1>2. CASE UNCHANGED <<current, used, gone, epochs, handlers, attached, editors>>
  BY <1>1, <1>2
  DEF StaleInv, RevisionsBehind, EditsBehind, EpochsRead, OvertakenListed,
      OvertakenBarred, Barred, Unregistered
<1>3. ASSUME NEW e \in Editors, InvalidateHost(e) PROVE StaleInv'
  <2>1. \A d \in Editors:
          /\ editors'[d].host = editors[d].host /\ editors'[d].was = editors[d].was
          /\ editors'[d].pc = editors[d].pc \/ (editors[d].pc = "tickets" /\ editors'[d].pc = "close")
          /\ editors'[d].close = editors[d].close
    BY <1>1, <1>3 DEF InvalidateHost, Edit
  <2>2. UNCHANGED <<current, used, gone, epochs, handlers, attached>>
    BY <1>3 DEF InvalidateHost, identityVars, managerVars
  <2> QED
    BY <1>1, <2>1, <2>2
    DEF StaleInv, RevisionsBehind, EditsBehind, EpochsRead, OvertakenListed,
        OvertakenBarred, Barred, Unregistered
<1>4. ASSUME NEW e \in Editors, ForceClose(e) PROVE StaleInv'
  <2>1. PICK a \in editors[e].close:
          /\ handlers' = Closed(a)
          /\ attached' = attached \ {a}
          /\ editors' = [editors EXCEPT ![e].close = @ \ {a}]
    BY <1>4 DEF ForceClose
  <2>2. \A d \in Editors:
          /\ editors'[d].pc = editors[d].pc /\ editors'[d].host = editors[d].host
          /\ editors'[d].was = editors[d].was
          /\ editors[d].close \ {a} \subseteq editors'[d].close
    BY <1>1, <2>1 DEF Edit
  <2> QED
    BY <1>1, <1>4, <2>1, <2>2, CloseStale DEF ForceClose, identityVars
<1>5. ASSUME NEW a \in Handlers, AttachmentEnds(a) PROVE StaleInv'
  BY <1>5, CloseStale DEF AttachmentEnds, identityVars
<1>6. CASE ShutdownOne
  BY <1>1, <1>6, CloseStale DEF ShutdownOne, identityVars
<1>7. ASSUME NEW a \in Handlers, Serve(a) PROVE StaleInv'
  BY <1>7, ServeStale, RegisterStale DEF Serve
<1>8. ASSUME NEW e \in Editors, CreateHost(e) \/ ChangeHost(e) \/ Hook(e) PROVE StaleInv'
  BY <1>3, <1>4, <1>8, EditStale, CloseHostStale, HookReturnsStale DEF Hook
<1> QED
  BY <1>2, <1>5, <1>6, <1>7, <1>8
  DEF Next, vars, identityVars, managerVars, ResolveForTicket, IssueForTarget,
      Expire, Sweep, BeginShutdown, EndShutdown

LEMMA NextInv == IInv /\ [Next]_vars => IInv'
<1> QED
  BY TypesNext, ProcessNext, AdmissionNext, StaleNext DEF IInv

-----------------------------------------------------------------------------
(* The invariant behind the results below, in every state of the requests,   *)
(* hooks and shutdown of ServeHTTP, TicketStore and Manager.                 *)
THEOREM LifecycleInvariant == Spec => []IInv
<1> QED
  BY InitInv, NextInv, PTL DEF Spec

(* Requests, tickets and lists stay well-formed, and the manager holds only  *)
(* attachments that were registered (Manager.Register).                      *)
THEOREM LifecycleTypes == Spec => []TypeOK
<1>1. IInv => TypeOK
  BY DEF IInv
<1> QED
  BY <1>1, LifecycleInvariant, PTL

(* Once the hook of a change has returned, no attachment of the replaced     *)
(* connection is registered: ServeHTTP reads the epoch before the runtime,   *)
(* Manager.CloseHost raises it with the list.                                *)
THEOREM NoAttachmentIsStale == Spec => []NoStaleAttachment
<1>1. ASSUME IInv PROVE NoStaleAttachment
  <2>1. \A a \in attached: a \in Handlers
    BY <1>1, Types DEF IInv
  <2> QED
    BY <1>1, <2>1, Types DEF IInv, StaleInv, OvertakenBarred, NoStaleAttachment
<1> QED
  BY <1>1, LifecycleInvariant, PTL

(* A ticket admits one request (TicketStore.RedeemForTarget deletes what it  *)
(* returns).                                                                 *)
THEOREM TicketsAdmitOnce == Spec => []SingleUse
<1>1. IInv => SingleUse
  BY DEF IInv, AdmissionInv
<1> QED
  BY <1>1, LifecycleInvariant, PTL

(* A ticket admits to the life of the host it was issued for, even when the  *)
(* host was removed and registered again while it was under way              *)
(* (IssueForTarget, RedeemForTarget).                                        *)
THEOREM TicketsKeepTheirHost == Spec => []TicketKeepsItsHost
<1>1. IInv => TicketKeepsItsHost
  BY DEF IInv, AdmissionInv
<1> QED
  BY <1>1, LifecycleInvariant, PTL

(* No request returns with its process running, whatever Manager.Register    *)
(* decides and whoever closes the attachment (ServeHTTP).                    *)
THEOREM NoProcessIsOrphaned == Spec => []NoOrphanProcess
<1>1. IInv => NoOrphanProcess
  BY DEF IInv, ProcessInv
<1> QED
  BY <1>1, LifecycleInvariant, PTL

(* The hosts of this module change as HostIdentity allows and in no other    *)
(* way, so that what the registry implements is all it relies on.            *)
THEOREM HostsAreIdentities == Spec => Identity!Spec
<1>1. Init => Identity!Init
  BY DEF Init
<1>2. [Next]_vars => [Identity!Next]_Identity!identityVars
  <2> SUFFICES ASSUME [Next]_vars
               PROVE  Identity!Next \/ UNCHANGED <<current, used>>
    BY DEF Identity!identityVars
  <2>1. ASSUME NEW e \in Editors, CreateHost(e) \/ ChangeHost(e) PROVE Identity!Next
    BY <2>1 DEF CreateHost, ChangeHost, Identity!Next
  <2>2. ASSUME NEW a \in Handlers, Serve(a) \/ AttachmentEnds(a)
        PROVE  UNCHANGED <<current, used>>
    BY <2>2 DEF Serve, ReadEpoch, Resolve, RedeemForTarget, NewProcess, Register, Start,
       AttachmentEnds, identityVars
  <2>3. ASSUME NEW e \in Editors, Hook(e) PROVE UNCHANGED <<current, used>>
    BY <2>3 DEF Hook, InvalidateHost, CloseHost, ForceClose, HookReturns, identityVars
  <2> QED
    BY <2>1, <2>2, <2>3
    DEF Next, vars, identityVars, ResolveForTicket, IssueForTarget, Expire, Sweep,
        BeginShutdown, ShutdownOne, EndShutdown
<1> QED
  BY <1>1, <1>2, PTL DEF Spec, Identity!Spec

-----------------------------------------------------------------------------
(***************************************************************************)
(* The terminal in the browser, for any number of sockets, requests and    *)
(* names: of all the attempts of a terminal only the latest has an effect, *)
(* and it is never lost, doubled, or begun again after an end.             *)
(***************************************************************************)

(***************************************************************************)
(* A socket that belongs to the latest attempt is the one the terminal     *)
(* refers to and is alive; one that is still connecting has not ended it.  *)
(* OneLiveSocket and OneWayOn alone are not inductive: they do not say     *)
(* that the close of a socket the terminal has let go of is not a loss.    *)
(***************************************************************************)
LatestIsHeld ==
  \A k \in Sockets : sockets[k].current =>
    /\ k = ws /\ ~disposed
    /\ sockets[k].state \in {"connecting", "open"}
    /\ ended => sockets[k].state = "open"

(* The inductive invariant. *)
BInv == TerminalTypeOK /\ OneLiveSocket /\ OneWayOn /\ LatestIsHeld

-----------------------------------------------------------------------------
(* The first attempt is under way. *)
LEMMA InitBInv == TerminalInit => BInv
<1> SUFFICES ASSUME TerminalInit PROVE BInv
  OBVIOUS
<1>1. session \in Names /\ NotRenaming \in Rename
  <2>1. session \in Names
    BY DEF TerminalInit
  <2>2. (CHOOSE n \in Names : TRUE) \in Names
    BY <2>1
  <2> QED
    BY <2>1, <2>2 DEF NotRenaming, Rename
<1>2. TerminalTypeOK
  <2>1. requests \subseteq TicketRequest
    BY <1>1 DEF TerminalInit, TicketRequest
  <2>2. sockets \in [Sockets -> Socket]
    BY DEF TerminalInit, Socket, Unused
  <2>3. {ended, disposed, timer, reachable, online} \subseteq BOOLEAN
    BY DEF TerminalInit
  <2> QED
    BY <1>1, <2>1, <2>2, <2>3 DEF TerminalInit, TerminalTypeOK
<1>3. \A k \in Sockets : sockets[k].state = "none" /\ ~sockets[k].current
  BY DEF TerminalInit, Unused
<1> QED
  BY <1>2, <1>3 DEF TerminalInit, BInv, OneLiveSocket, OneWayOn, Asking, Attaching, LatestIsHeld

(* A new attempt, made while no socket is open and with no timer left, is   *)
(* the only way on.                                                         *)
LEMMA ConnectBInv ==
  ASSUME BInv, Connect, ~disposed, ~Open, timer' = FALSE, UNCHANGED <<disposed, ws>>,
         session \in Names
  PROVE  /\ requests' \subseteq TicketRequest /\ sockets' \in [Sockets -> Socket]
         /\ OneLiveSocket' /\ OneWayOn' /\ LatestIsHeld'
<1> DEFINE new == [name |-> session, current |-> TRUE, answer |-> "awaited"]
<1>1. requests' \subseteq TicketRequest
  <2>1. new \in TicketRequest
    BY DEF TicketRequest
  <2>2. \A q \in requests : Outdated(q) \in TicketRequest
    BY DEF BInv, TerminalTypeOK, TicketRequest, Outdated
  <2> QED
    BY <2>1, <2>2 DEF Connect
<1>2. sockets' \in [Sockets -> Socket]
  BY DEF Connect, BInv, TerminalTypeOK, Socket, Outdated
<1>3. \A k \in Sockets : sockets'[k].state = sockets[k].state /\ ~sockets'[k].current
  BY DEF Connect, BInv, TerminalTypeOK, Socket, Outdated
<1>4. \A k \in Sockets : sockets[k].state # "open"
  BY BrowserAssumption DEF BInv, OneLiveSocket, Open
<1>5. OneLiveSocket'
  BY <1>3, <1>4 DEF BInv, OneLiveSocket
<1>6. \A q \in requests' : q.current => q = new
  BY DEF Connect, BInv, TerminalTypeOK, TicketRequest, Outdated
<1>7. new \in requests' /\ new.current
  BY DEF Connect
<1>8. OneWayOn'
  BY <1>3, <1>6, <1>7 DEF Connect, OneWayOn, Asking, Attaching
<1>9. LatestIsHeld'
  BY <1>3 DEF LatestIsHeld
<1> QED
  BY <1>1, <1>2, <1>5, <1>8, <1>9

(* A step that leaves the terminal as it is. *)
LEMMA WorldBInv ==
  ASSUME BInv, UNCHANGED terminalVars, TerminalTypeOK'
  PROVE  BInv'
BY DEF BInv, terminalVars, OneLiveSocket, OneWayOn, Asking, Attaching, LatestIsHeld

(* What arrives for an attempt that was overtaken, and is dropped.          *)
LEMMA FewerRequests ==
  ASSUME BInv, NEW q \in requests, ~q.current, requests' = requests \ {q},
         UNCHANGED <<ended, disposed, timer, shown, sockets, ws>>
  PROVE  /\ requests' \subseteq TicketRequest
         /\ OneLiveSocket' /\ OneWayOn' /\ LatestIsHeld'
<1>1. requests' \subseteq TicketRequest
  BY DEF BInv, TerminalTypeOK
<1>2. Asking' <=> Asking
  BY DEF Asking
<1> QED
  BY <1>1, <1>2 DEF BInv, OneLiveSocket, OneWayOn, Attaching, LatestIsHeld

(* The ticket opens the socket of the latest attempt and lets go of the     *)
(* one before; a refusal ends the terminal, a failure sets the timer.       *)
LEMMA TicketAnsweredBInv ==
  ASSUME BInv, NEW q \in requests, TicketAnswered(q)
  PROVE  BInv'
<1>1. UNCHANGED <<disposed, session, names, renaming, reachable, online>>
  BY DEF TicketAnswered, worldVars
<1>2. CASE disposed \/ ~q.current
  <2>1. ~q.current
    BY <1>2 DEF BInv, OneWayOn, Asking
  <2>2. requests' = requests \ {q} /\ UNCHANGED <<ended, shown, timer, sockets, ws>>
    BY <1>2 DEF TicketAnswered
  <2> QED
    BY <1>1, <2>1, <2>2, FewerRequests DEF BInv, TerminalTypeOK
<1>3. CASE ~disposed /\ q.current
  <2>1. /\ ~ended /\ ~timer /\ shown # "ended"
        /\ \A k \in Sockets : ~sockets[k].current /\ sockets[k].state # "open"
        /\ requests' = requests \ {q} /\ \A r \in requests' : ~r.current
        /\ requests' \subseteq TicketRequest
    BY <1>3 DEF TicketAnswered, BInv, TerminalTypeOK, OneWayOn, OneLiveSocket, Asking, Attaching
  <2>2. ASSUME OpenSocket(q) PROVE BInv'
    <3>1. PICK k \in Sockets :
            /\ k # ws /\ sockets[k].state = "none"
            /\ sockets' = [ForgetSocket EXCEPT ![k] =
                 [state |-> "connecting", current |-> TRUE, matching |-> q.name = session,
                  peer |-> "upgrading"]]
            /\ ws' = k
            /\ UNCHANGED <<ended, shown, timer>>
      BY <2>2 DEF OpenSocket
    <3>2. sockets' \in [Sockets -> Socket]
      BY <3>1 DEF ForgetSocket, Closing, BInv, TerminalTypeOK, Socket
    <3>3. /\ sockets'[k].state = "connecting" /\ sockets'[k].current
          /\ \A j \in Sockets \ {k} :
               ~sockets'[j].current /\ sockets'[j].state \notin {"connecting", "open"}
      BY <2>1, <3>1 DEF ForgetSocket, Closing, BInv, OneLiveSocket
    <3>4. TerminalTypeOK'
      BY <1>1, <2>1, <3>1, <3>2 DEF BInv, TerminalTypeOK
    <3>5. OneLiveSocket' /\ LatestIsHeld'
      BY <1>1, <1>3, <2>1, <3>1, <3>3 DEF OneLiveSocket, LatestIsHeld
    <3>6. OneWayOn'
      BY <1>1, <1>3, <2>1, <3>1, <3>3 DEF BInv, OneWayOn, Asking, Attaching
    <3> QED
      BY <3>4, <3>5, <3>6 DEF BInv
  <2>3. ASSUME End, UNCHANGED <<timer, sockets, ws>> PROVE BInv'
    <3>1. TerminalTypeOK'
      BY <1>1, <2>1, <2>3 DEF BInv, TerminalTypeOK, End
    <3>2. OneLiveSocket' /\ LatestIsHeld'
      BY <1>1, <2>1, <2>3 DEF BInv, OneLiveSocket, LatestIsHeld
    <3>3. OneWayOn'
      BY <1>1, <2>1, <2>3 DEF OneWayOn, Asking, Attaching, End
    <3> QED
      BY <3>1, <3>2, <3>3 DEF BInv
  <2>4. ASSUME ScheduleReconnect, UNCHANGED <<ended, shown, sockets, ws>> PROVE BInv'
    <3>1. timer' = TRUE
      BY <1>3, <2>1, <2>4 DEF ScheduleReconnect
    <3>2. TerminalTypeOK'
      BY <1>1, <2>1, <2>4, <3>1 DEF BInv, TerminalTypeOK
    <3>3. OneLiveSocket' /\ LatestIsHeld'
      BY <1>1, <2>1, <2>4 DEF BInv, OneLiveSocket, LatestIsHeld
    <3>4. OneWayOn'
      BY <1>1, <1>3, <2>1, <2>4, <3>1 DEF BInv, OneWayOn, Asking, Attaching
    <3> QED
      BY <3>2, <3>3, <3>4 DEF BInv
  <2> QED
    BY <1>3, <2>2, <2>3, <2>4 DEF TicketAnswered
<1> QED
  BY <1>2, <1>3

(* The events of a socket.                                                  *)
LEMMA SocketOpensBInv ==
  ASSUME BInv, NEW k \in Sockets, SocketOpens(k)
  PROVE  BInv'
<1>1. UNCHANGED <<ended, disposed, timer, requests, ws, session, names, renaming, reachable, online>>
  BY DEF SocketOpens, worldVars
<1>2. \A j \in Sockets \ {k} : sockets'[j] = sockets[j]
  BY DEF SocketOpens, BInv, TerminalTypeOK
<1>3. CASE sockets[k].current
  <2>1. /\ sockets'[k] = [sockets[k] EXCEPT !.state = "open"]
        /\ sockets' \in [Sockets -> Socket] /\ shown' = "connected"
    BY <1>3 DEF SocketOpens, BInv, TerminalTypeOK, Socket
  <2>2. sockets'[k].state = "open" /\ sockets'[k].current /\ k = ws /\ ~ended
    BY <1>3, <2>1 DEF SocketOpens, BInv, TerminalTypeOK, Socket, LatestIsHeld
  <2>3. TerminalTypeOK'
    BY <1>1, <2>1 DEF BInv, TerminalTypeOK
  <2>4. OneLiveSocket' /\ LatestIsHeld'
    <3>1. ~disposed
      BY <1>3 DEF BInv, LatestIsHeld
    <3>2. ws' = ws /\ ended' = ended /\ disposed' = disposed
      BY <1>1
    <3>3. \A j \in Sockets \ {k} :
            ~sockets'[j].current /\ sockets'[j].state \notin {"connecting", "open"}
      BY <1>2, <2>2 DEF BInv, OneLiveSocket, LatestIsHeld
    <3> QED
      BY <2>2, <3>1, <3>2, <3>3 DEF OneLiveSocket, LatestIsHeld
  <2>5. Attaching /\ Attaching'
    BY <1>3, <2>2 DEF Attaching
  <2>6. OneWayOn'
    BY <1>1, <2>1, <2>2, <2>5 DEF BInv, OneWayOn, Asking
  <2> QED
    BY <2>3, <2>4, <2>6 DEF BInv
<1>4. CASE ~sockets[k].current
  <2>1. /\ sockets'[k] = Closing /\ sockets' \in [Sockets -> Socket] /\ UNCHANGED shown
    <3>1. sockets' = [sockets EXCEPT ![k] = Closing] /\ UNCHANGED shown
      BY <1>4 DEF SocketOpens
    <3>2. Closing \in Socket
      BY DEF Closing, Socket
    <3> QED
      BY <3>1, <3>2 DEF BInv, TerminalTypeOK
  <2>2. TerminalTypeOK'
    BY <1>1, <2>1 DEF BInv, TerminalTypeOK
  <2>3. OneLiveSocket' /\ LatestIsHeld'
    BY <1>1, <1>2, <2>1 DEF BInv, OneLiveSocket, LatestIsHeld, Closing
  <2>4. Attaching' <=> Attaching
    BY <1>2, <1>4, <2>1 DEF Attaching, Closing
  <2>5. OneWayOn'
    BY <1>1, <2>1, <2>4 DEF BInv, OneWayOn, Asking
  <2> QED
    BY <2>2, <2>3, <2>5 DEF BInv
<1> QED
  BY <1>3, <1>4

(* What the hub does to an open connection changes its `peer' only. *)
LEMMA PeerBInv ==
  ASSUME BInv, NEW k \in Sockets, sockets[k].state = "open",
         NEW p \in {"none", "upgrading", "attached", "exit", "refused", "busy", "gone"},
         sockets' = [sockets EXCEPT ![k].peer = p],
         UNCHANGED <<disposed, timer, requests, ws, worldVars>>,
         \/ UNCHANGED <<ended, shown>>
         \/ End /\ sockets[k].current
  PROVE  BInv'
<1>1. /\ sockets' \in [Sockets -> Socket]
      /\ \A j \in Sockets : /\ sockets'[j].state = sockets[j].state
                            /\ sockets'[j].current = sockets[j].current
  BY DEF BInv, TerminalTypeOK, Socket
<1>2. TerminalTypeOK'
  BY <1>1 DEF BInv, TerminalTypeOK, worldVars, End
<1>3. OneLiveSocket'
  BY <1>1 DEF BInv, OneLiveSocket
<1>4. LatestIsHeld'
  BY <1>1 DEF BInv, LatestIsHeld, End
<1>5. OneWayOn'
  <2>1. (Attaching' <=> Attaching) /\ (Asking' <=> Asking)
    BY <1>1 DEF Attaching, Asking
  <2>2. CASE UNCHANGED <<ended, shown>>
    BY <2>1, <2>2 DEF BInv, OneWayOn
  <2>3. CASE End /\ sockets[k].current
    BY <2>1, <2>3 DEF BInv, OneWayOn, End, Attaching
  <2> QED
    BY <2>2, <2>3
<1> QED
  BY <1>2, <1>3, <1>4, <1>5 DEF BInv

LEMMA HubSaysBInv ==
  ASSUME BInv, NEW k \in Sockets, Message(k) \/ Admit(k) \/ Exit(k)
  PROVE  BInv'
<1>1. CASE Message(k)
  <2>1. \/ UNCHANGED <<ended, shown>>
        \/ End /\ sockets[k].current
    BY <1>1 DEF Message
  <2> QED
    BY <1>1, <2>1, PeerBInv DEF Message
<1>2. CASE Admit(k)
  BY <1>2, PeerBInv DEF Admit
<1>3. CASE Exit(k)
  BY <1>3, PeerBInv DEF Exit
<1> QED
  BY <1>1, <1>2, <1>3

(* The close of a socket of the latest attempt sets the timer unless the    *)
(* terminal has ended; that of any other socket changes nothing.            *)
LEMMA SocketClosesBInv ==
  ASSUME BInv, NEW k \in Sockets, SocketCloses(k)
  PROVE  BInv'
<1>1. UNCHANGED <<ended, disposed, requests, session, names, renaming, reachable, online>>
  BY DEF SocketCloses, worldVars
<1>2. /\ sockets' = [sockets EXCEPT ![k] = Unused] /\ sockets' \in [Sockets -> Socket]
      /\ sockets'[k] = Unused /\ \A j \in Sockets \ {k} : sockets'[j] = sockets[j]
  BY DEF SocketCloses, BInv, TerminalTypeOK, Socket, Unused
<1>3. ws' \in Sockets \union {NoSocket} /\ \A j \in Sockets \ {k} : j = ws => j = ws'
  BY DEF SocketCloses, BInv, TerminalTypeOK
<1>4. OneLiveSocket' /\ LatestIsHeld'
  BY <1>1, <1>2, <1>3 DEF BInv, OneLiveSocket, LatestIsHeld, Unused
<1>5. CASE sockets[k].current /\ ~ended /\ ~disposed
  <2>1. shown' = "trying" /\ timer' = TRUE
    BY <1>5 DEF SocketCloses, ScheduleReconnect
  <2>2. TerminalTypeOK'
    BY <1>1, <1>2, <1>3, <2>1 DEF BInv, TerminalTypeOK
  <2>3. ~Asking /\ ~Attaching'
    BY <1>2, <1>5 DEF BInv, OneWayOn, Attaching, LatestIsHeld, Unused
  <2>4. OneWayOn'
    BY <1>1, <1>5, <2>1, <2>3 DEF BInv, OneWayOn, Asking
  <2> QED
    BY <1>4, <2>2, <2>4 DEF BInv
<1>6. CASE ~(sockets[k].current /\ ~ended /\ ~disposed)
  <2>1. UNCHANGED <<shown, timer>>
    BY <1>6 DEF SocketCloses
  <2>2. TerminalTypeOK'
    BY <1>1, <1>2, <1>3, <2>1 DEF BInv, TerminalTypeOK
  <2>3. Attaching' => Attaching
    BY <1>2 DEF Attaching, Unused
  <2>4. ~ended /\ ~disposed => (Attaching' <=> Attaching)
    BY <1>2, <1>6 DEF Attaching, Unused
  <2>5. OneWayOn'
    BY <1>1, <2>1, <2>3, <2>4 DEF BInv, OneWayOn, Asking
  <2> QED
    BY <1>4, <2>2, <2>5 DEF BInv
<1> QED
  BY <1>5, <1>6

-----------------------------------------------------------------------------
(* The timer and the network events begin an attempt only when none is      *)
(* under way; taking an ended terminal up again, and disposing of one,      *)
(* leave none of the earlier.                                               *)
LEMMA AttemptsBInv ==
  ASSUME BInv, TimerFires \/ HandleOnline
  PROVE  BInv'
<1>1. CASE TimerFires
  <2>1. ~disposed /\ ~Open
    BY <1>1 DEF TimerFires, BInv, OneWayOn, OneLiveSocket, Attaching, Open, TerminalTypeOK
  <2>2. UNCHANGED <<disposed, ws, session, names, renaming, reachable, online>> /\ timer' = FALSE
    BY <1>1 DEF TimerFires, worldVars
  <2>3. Connect
    BY <1>1 DEF TimerFires
  <2>4. /\ requests' \subseteq TicketRequest /\ sockets' \in [Sockets -> Socket]
        /\ OneLiveSocket' /\ OneWayOn' /\ LatestIsHeld'
    BY <2>1, <2>2, <2>3, ConnectBInv DEF BInv, TerminalTypeOK
  <2>5. TerminalTypeOK'
    BY <2>2, <2>3, <2>4 DEF BInv, TerminalTypeOK, Connect
  <2> QED
    BY <2>4, <2>5 DEF BInv
<1>2. CASE HandleOnline
  <2>1. UNCHANGED <<session, names, renaming, reachable>> /\ online' = TRUE
    BY <1>2 DEF HandleOnline
  <2>2. CASE UNCHANGED terminalVars
    <3>1. TerminalTypeOK'
      BY <2>1, <2>2 DEF BInv, TerminalTypeOK, terminalVars
    <3> QED
      BY <2>2, <3>1, WorldBInv
  <2>3. CASE ~UNCHANGED terminalVars
    <3>1. ~disposed /\ ~Open /\ timer' = FALSE /\ Connect /\ UNCHANGED <<disposed, ws>>
      BY <1>2, <2>3 DEF HandleOnline
    <3>2. /\ requests' \subseteq TicketRequest /\ sockets' \in [Sockets -> Socket]
          /\ OneLiveSocket' /\ OneWayOn' /\ LatestIsHeld'
      BY <3>1, ConnectBInv DEF BInv, TerminalTypeOK
    <3>3. TerminalTypeOK'
      BY <2>1, <3>1, <3>2 DEF BInv, TerminalTypeOK, Connect
    <3> QED
      BY <3>2, <3>3 DEF BInv
  <2> QED
    BY <2>2, <2>3
<1> QED
  BY <1>1, <1>2

LEMMA ForgetsSocket ==
  ASSUME BInv, sockets' = ForgetSocket
  PROVE  /\ sockets' \in [Sockets -> Socket]
         /\ \A k \in Sockets : /\ sockets'[k].state \notin {"connecting", "open"}
                               /\ ~sockets'[k].current
BY DEF BInv, TerminalTypeOK, OneLiveSocket, LatestIsHeld, ForgetSocket, Closing, Socket

LEMMA UserBInv ==
  ASSUME BInv, Reconnect \/ Dispose \/ HandleOffline
  PROVE  BInv'
<1>1. CASE Reconnect
  <2> DEFINE new == [name |-> session, current |-> TRUE, answer |-> "awaited"]
  <2>1. /\ requests' = {new} /\ sockets' = ForgetSocket /\ ws' = NoSocket /\ timer' = FALSE
        /\ ended' = FALSE /\ shown' = "trying"
        /\ UNCHANGED <<disposed, session, names, renaming, reachable, online>> /\ ~disposed
    BY <1>1 DEF Reconnect, worldVars
  <2>2. new \in TicketRequest /\ new.current
    BY DEF BInv, TerminalTypeOK, TicketRequest
  <2>3. TerminalTypeOK'
    BY <2>1, <2>2, ForgetsSocket DEF BInv, TerminalTypeOK
  <2>4. OneLiveSocket' /\ LatestIsHeld'
    BY <2>1, ForgetsSocket DEF OneLiveSocket, LatestIsHeld
  <2>5. Asking' /\ ~Attaching'
    BY <2>1, <2>2, ForgetsSocket DEF Asking, Attaching
  <2>6. OneWayOn'
    BY <2>1, <2>5 DEF OneWayOn
  <2> QED
    BY <2>3, <2>4, <2>6 DEF BInv
<1>2. CASE Dispose
  <2>1. /\ disposed' = TRUE /\ requests' = {Outdated(q) : q \in requests}
        /\ sockets' = ForgetSocket /\ ws' = NoSocket /\ timer' = FALSE
        /\ UNCHANGED <<ended, shown, session, names, renaming, reachable, online>>
    BY <1>2 DEF Dispose, worldVars
  <2>2. requests' \subseteq TicketRequest /\ \A q \in requests' : ~q.current
    <3>1. \A q \in requests : Outdated(q) \in TicketRequest /\ ~Outdated(q).current
      BY DEF BInv, TerminalTypeOK, TicketRequest, Outdated
    <3> QED
      BY <2>1, <3>1
  <2>3. TerminalTypeOK'
    BY <2>1, <2>2, ForgetsSocket DEF BInv, TerminalTypeOK
  <2>4. OneLiveSocket' /\ LatestIsHeld'
    BY <2>1, ForgetsSocket DEF OneLiveSocket, LatestIsHeld
  <2>5. ~Asking' /\ ~Attaching'
    BY <2>2, <2>1, ForgetsSocket DEF Asking, Attaching
  <2>6. OneWayOn'
    BY <2>1, <2>2, <2>5 DEF BInv, OneWayOn
  <2> QED
    BY <2>3, <2>4, <2>6 DEF BInv
<1>3. CASE HandleOffline
  <2>1. TerminalTypeOK'
    BY <1>3 DEF HandleOffline, BInv, TerminalTypeOK
  <2>2. OneLiveSocket' /\ LatestIsHeld'
    BY <1>3 DEF HandleOffline, BInv, OneLiveSocket, LatestIsHeld
  <2>3. OneWayOn'
    BY <1>3 DEF HandleOffline, BInv, OneWayOn, Asking, Attaching
  <2> QED
    BY <2>1, <2>2, <2>3 DEF BInv
<1> QED
  BY <1>1, <1>2, <1>3

(* The hub issues tickets; the world around changes.                        *)
LEMMA IssueTicketBInv ==
  ASSUME BInv, NEW q \in requests, IssueTicket(q)
  PROVE  BInv'
<1>1. PICK a \in {"ticket", "refused", "failed"} :
        requests' = (requests \ {q}) \union {[q EXCEPT !.answer = a]}
  BY DEF IssueTicket
<1>2. UNCHANGED <<ended, disposed, timer, shown, sockets, ws, worldVars>>
  BY DEF IssueTicket
<1>3. [q EXCEPT !.answer = a] \in TicketRequest /\ [q EXCEPT !.answer = a].current = q.current
  BY DEF BInv, TerminalTypeOK, TicketRequest
<1>4. TerminalTypeOK'
  BY <1>1, <1>2, <1>3 DEF BInv, TerminalTypeOK, worldVars
<1>5. Asking' <=> Asking
  BY <1>1, <1>3 DEF Asking
<1>6. \A r, s \in requests' : r.current /\ s.current => r = s
  BY <1>1, <1>3 DEF BInv, OneWayOn
<1>7. OneWayOn'
  BY <1>2, <1>5, <1>6 DEF BInv, OneWayOn, Attaching
<1> QED
  BY <1>2, <1>4, <1>7 DEF BInv, OneLiveSocket, LatestIsHeld

LEMMA RenameBInv ==
  ASSUME BInv,
         \/ \E n \in Names : AskRename(n)
         \/ HubRenames \/ SetSession \/ SessionsChange \/ ReachabilityChanges
  PROVE  BInv'
<1>1. NotRenaming \in Rename
  BY DEF NotRenaming, Rename, BInv, TerminalTypeOK
<1>2. UNCHANGED terminalVars
  BY DEF AskRename, HubRenames, SetSession, SessionsChange, ReachabilityChanges
<1>3. TerminalTypeOK'
  <2>1. ASSUME NEW n \in Names, AskRename(n) PROVE TerminalTypeOK'
    BY <1>2, <2>1 DEF AskRename, BInv, TerminalTypeOK, Rename, terminalVars
  <2>2. CASE HubRenames
    BY <1>1, <1>2, <2>2 DEF HubRenames, BInv, TerminalTypeOK, Rename, terminalVars
  <2>3. CASE SetSession
    BY <1>1, <1>2, <2>3 DEF SetSession, BInv, TerminalTypeOK, Rename, terminalVars
  <2>4. CASE SessionsChange
    BY <1>2, <2>4 DEF SessionsChange, BInv, TerminalTypeOK, terminalVars
  <2>5. CASE ReachabilityChanges
    BY <1>2, <2>5 DEF ReachabilityChanges, BInv, TerminalTypeOK, terminalVars
  <2> QED
    BY <2>1, <2>2, <2>3, <2>4, <2>5
<1> QED
  BY <1>2, <1>3, WorldBInv

-----------------------------------------------------------------------------
(* Every step keeps the invariant. *)
LEMMA NextBInv == BInv /\ [TerminalNext]_browserVars => BInv'
<1> SUFFICES ASSUME BInv, [TerminalNext]_browserVars PROVE BInv'
  OBVIOUS
<1>1. ASSUME NEW q \in requests, TicketAnswered(q) \/ IssueTicket(q) PROVE BInv'
  BY <1>1, TicketAnsweredBInv, IssueTicketBInv
<1>2. ASSUME NEW k \in Sockets,
             SocketOpens(k) \/ Message(k) \/ SocketCloses(k) \/ Admit(k) \/ Exit(k)
      PROVE  BInv'
  BY <1>2, SocketOpensBInv, SocketClosesBInv, HubSaysBInv
<1>3. CASE TimerFires \/ HandleOnline
  BY <1>3, AttemptsBInv
<1>4. CASE Reconnect \/ Dispose \/ HandleOffline
  BY <1>4, UserBInv
<1>5. CASE \/ \E n \in Names : AskRename(n)
           \/ HubRenames \/ SetSession \/ SessionsChange \/ ReachabilityChanges
  BY <1>5, RenameBInv
<1>6. CASE UNCHANGED browserVars
  <2>1. TerminalTypeOK'
    BY <1>6 DEF browserVars, terminalVars, worldVars, BInv, TerminalTypeOK
  <2> QED
    BY <1>6, <2>1, WorldBInv DEF browserVars
<1> QED
  BY <1>1, <1>2, <1>3, <1>4, <1>5, <1>6 DEF TerminalNext

(* The inductive invariant of the terminal. *)
THEOREM TerminalInvariant == TerminalSpec => []BInv
<1>1. TerminalInit => BInv
  BY InitBInv
<1>2. BInv /\ [TerminalNext]_browserVars => BInv'
  BY NextBInv
<1> QED
  BY <1>1, <1>2, PTL DEF TerminalSpec

(* The variables of the terminal keep their types. *)
THEOREM TerminalTypes == TerminalSpec => []TerminalTypeOK
<1>1. BInv => TerminalTypeOK
  BY DEF BInv
<1> QED
  BY <1>1, TerminalInvariant, PTL

(* Only the latest attempt has a live socket (connect's generation guards). *)
THEOREM OnlyTheLatestAttempt == TerminalSpec => []OneLiveSocket
<1>1. BInv => OneLiveSocket
  BY DEF BInv
<1> QED
  BY <1>1, TerminalInvariant, PTL

(* A terminal that has not ended is always carried on, and by one of its    *)
(* timer, its request and its socket; after an end nothing is under way.    *)
THEOREM NeverForgotten == TerminalSpec => []OneWayOn
<1>1. BInv => OneWayOn
  BY DEF BInv
<1> QED
  BY <1>1, TerminalInvariant, PTL

(* Nothing but the user takes an ended terminal up again. *)
THEOREM EndsStay == TerminalSpec => EndIsFinal
<1>1. BInv /\ [TerminalNext]_browserVars => [ended /\ ~ended' => Reconnect]_browserVars
  <2> SUFFICES ASSUME BInv, TerminalNext, ended, ~ended', ~Reconnect PROVE FALSE
    OBVIOUS
  <2>1. ~timer /\ ~Asking
    BY DEF BInv, OneWayOn
  <2>2. \A q \in requests : ~TicketAnswered(q)
    <3>1. \A q \in requests : ~q.current
      BY <2>1 DEF Asking
    <3> QED
      BY <3>1 DEF TicketAnswered
  <2>3. ~TimerFires /\ ~HandleOnline
    BY <2>1 DEF TimerFires, HandleOnline, terminalVars
  <2>4. \A k \in Sockets : ~Message(k)
    BY DEF Message, End
  <2> QED
    BY <2>2, <2>3, <2>4 DEF TerminalNext, IssueTicket, SocketOpens, SocketCloses, Admit, Exit,
      HandleOffline, Dispose, AskRename, HubRenames, SetSession, SessionsChange,
      ReachabilityChanges, terminalVars
<1> QED
  BY <1>1, TerminalInvariant, PTL DEF TerminalSpec, EndIsFinal
=============================================================================
