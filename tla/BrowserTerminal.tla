---------------------------- MODULE BrowserTerminal ----------------------------
(***************************************************************************)
(* One terminal in the browser (web/src/terminal.ts, TerminalSession, and  *)
(* components/TerminalView.vue): how it connects, notices that it has lost *)
(* its connection, tries again, and ends.                                  *)
(*                                                                         *)
(* The code is a set of callbacks of one thread; each is an action.        *)
(* connect() awaits a ticket between its two halves, and what it learns    *)
(* then, like every event of a socket, may belong to an attempt that has   *)
(* been overtaken.  The code numbers the attempts and only ever asks       *)
(* whether a number is the latest, so here a request for a ticket and a    *)
(* socket carry just that, `current'.                                      *)
(*                                                                         *)
(* The hub (the ticket request and transport/ws/handler.go) answers as the *)
(* browser sees it; the sessions exist under names, which can change while *)
(* a request is under way.                                                 *)
(***************************************************************************)
EXTENDS Naturals, FiniteSets

CONSTANTS
  Names,        \* of sessions on the host
  Sockets,      \* WebSocket objects, reused once they are closed (a bound)
  NoSocket,
  MaxRequests   \* ticket requests under way at once (a bound)

ASSUME BrowserAssumption ==
  /\ NoSocket \notin Sockets
  /\ MaxRequests \in Nat \ {0}

VARIABLES
  session,    \* the name the terminal asks for
  ended, disposed,
  timer,      \* reconnectTimer is set
  shown,      \* what it last reported to its view
  requests,   \* for a ticket, each where it is on its way
  sockets,    \* where each WebSocket is
  ws,         \* the one the terminal refers to
  names,      \* of the sessions there are
  renaming,   \* a rename the page has asked for: the new name and how far it is
  reachable,  \* the hub can be reached, and has the host and reaches it
  online      \* what the browser last said of its network

terminalVars == <<ended, disposed, timer, shown, requests, sockets, ws>>
worldVars == <<session, names, renaming, reachable, online>>
browserVars == <<terminalVars, worldVars>>

TicketRequest == [name: Names, current: BOOLEAN, answer: {"awaited", "ticket", "refused", "failed"}]

(***************************************************************************)
(* `peer' is what the hub has made of the connection: a last message it    *)
(* has sent ("exit", an error that is final or one that is not), or that   *)
(* it has said all it has to say.  `matching': the ticket in the URL is    *)
(* for the name in the URL.                                                *)
(***************************************************************************)
Socket ==
  [state: {"none", "connecting", "open", "closing"}, current: BOOLEAN, matching: BOOLEAN,
   peer: {"none", "upgrading", "attached", "exit", "refused", "busy", "gone"}]

Unused == [state |-> "none", current |-> FALSE, matching |-> FALSE, peer |-> "none"]
Closing == [state |-> "closing", current |-> FALSE, matching |-> FALSE, peer |-> "gone"]

Rename == {[phase |-> "none", to |-> n] : n \in Names}
            \union [phase: {"asked", "done"}, to: Names]

NotRenaming == [phase |-> "none", to |-> CHOOSE n \in Names : TRUE]

TerminalTypeOK ==
  /\ session \in Names /\ names \subseteq Names /\ renaming \in Rename
  /\ {ended, disposed, timer, reachable, online} \subseteq BOOLEAN
  /\ shown \in {"trying", "connected", "ended"}
  /\ requests \subseteq TicketRequest
  /\ sockets \in [Sockets -> Socket]
  /\ ws \in Sockets \union {NoSocket}

Open == ws # NoSocket /\ sockets[ws].state = "open"

Outdated(s) == [s EXCEPT !.current = FALSE]

(***************************************************************************)
(* connect() up to its await: a new attempt, which makes all others old.   *)
(***************************************************************************)
Connect ==
  /\ Cardinality(requests) < MaxRequests
  /\ requests' = {Outdated(q) : q \in requests}
                   \union {[name |-> session, current |-> TRUE, answer |-> "awaited"]}
  /\ sockets' = [k \in Sockets |-> Outdated(sockets[k])]
  /\ ended' = FALSE
  /\ shown' = "trying"

(* Mutant of ScheduleReconnect: nothing is scheduled.                        *)
NoReconnect == UNCHANGED timer

(***************************************************************************)
(* What the terminal does when it loses its connection or fails to get     *)
(* one: scheduleReconnect, whose growing delay is left out.                *)
(***************************************************************************)
ScheduleReconnect == timer' = (timer \/ (~ended /\ ~disposed))

End == ended' = TRUE /\ shown' = "ended"

(* Mutant of ForgetSocket: the old socket is replaced without being closed.  *)
KeepSocket == sockets

(***************************************************************************)
(* The ticket, or the reason there is none, arrives.                       *)
(***************************************************************************)
ForgetSocket == [k \in Sockets |-> IF k = ws THEN Closing ELSE sockets[k]]

OpenSocket(q) ==
  \E k \in Sockets :
    /\ k # ws /\ sockets[k].state = "none"
    /\ sockets' = [ForgetSocket EXCEPT ![k] =
         [state |-> "connecting", current |-> TRUE, matching |-> q.name = session,
          peer |-> "upgrading"]]
    /\ ws' = k
    /\ UNCHANGED <<ended, shown, timer>>

TicketAnswered(q) ==
  /\ q \in requests /\ q.answer # "awaited"
  /\ requests' = requests \ {q}
  /\ \/ /\ disposed \/ ~q.current
        /\ UNCHANGED <<ended, shown, timer, sockets, ws>>
     \/ /\ ~disposed /\ q.current
        /\ \/ q.answer = "ticket" /\ OpenSocket(q)
           \/ q.answer = "refused" /\ End /\ UNCHANGED <<timer, sockets, ws>>
           \/ q.answer = "failed" /\ ScheduleReconnect /\ UNCHANGED <<ended, shown, sockets, ws>>
  /\ UNCHANGED <<disposed, worldVars>>

(***************************************************************************)
(* onopen, onmessage and onclose.                                          *)
(***************************************************************************)
SocketOpens(k) ==
  /\ sockets[k].state = "connecting" /\ reachable
  /\ \/ /\ sockets[k].current
        /\ sockets' = [sockets EXCEPT ![k].state = "open"]
        /\ shown' = "connected"
     \/ /\ ~sockets[k].current
        /\ sockets' = [sockets EXCEPT ![k] = Closing]
        /\ UNCHANGED shown
  /\ UNCHANGED <<ended, disposed, timer, requests, ws, worldVars>>

Message(k) ==
  /\ sockets[k].state = "open" /\ sockets[k].peer \in {"exit", "refused", "busy"}
  /\ sockets' = [sockets EXCEPT ![k].peer = "gone"]
  /\ IF sockets[k].current /\ sockets[k].peer # "busy" THEN End ELSE UNCHANGED <<ended, shown>>
  /\ UNCHANGED <<disposed, timer, requests, ws, worldVars>>

SocketCloses(k) ==
  /\ \/ sockets[k].state = "closing" \/ sockets[k].peer = "gone"
     \/ sockets[k].state # "none" /\ ~reachable
  /\ sockets' = [sockets EXCEPT ![k] = Unused]
  /\ ws' = IF k = ws THEN NoSocket ELSE ws
  /\ IF sockets[k].current /\ ~ended /\ ~disposed
       THEN shown' = "trying" /\ ScheduleReconnect
       ELSE UNCHANGED <<shown, timer>>
  /\ UNCHANGED <<ended, disposed, requests, worldVars>>

(***************************************************************************)
(* The retry timer, and what the browser says of its network.              *)
(***************************************************************************)
TimerFires ==
  /\ timer
  /\ timer' = FALSE
  /\ Connect
  /\ UNCHANGED <<disposed, ws, worldVars>>

(* Mutant of HandleOnline: without the check of `ended'.                     *)
HandleOnlineEnded ==
  /\ ~online /\ online' = TRUE
  /\ \/ /\ disposed \/ Open
        /\ UNCHANGED terminalVars
     \/ /\ ~disposed /\ ~Open
        /\ timer' = FALSE
        /\ Connect
        /\ UNCHANGED <<disposed, ws>>
  /\ UNCHANGED <<session, names, renaming, reachable>>

(* Mutant of HandleOnline: the timer stays.                                  *)
HandleOnlineTimed ==
  /\ ~online /\ online' = TRUE
  /\ \/ /\ disposed \/ ended \/ Open
        /\ UNCHANGED terminalVars
     \/ /\ ~disposed /\ ~ended /\ ~Open
        /\ Connect
        /\ UNCHANGED <<disposed, timer, ws>>
  /\ UNCHANGED <<session, names, renaming, reachable>>

HandleOnline ==
  /\ ~online /\ online' = TRUE
  /\ \/ /\ disposed \/ ended \/ Open
        /\ UNCHANGED terminalVars
     \/ /\ ~disposed /\ ~ended /\ ~Open
        /\ timer' = FALSE
        /\ Connect
        /\ UNCHANGED <<disposed, ws>>
  /\ UNCHANGED <<session, names, renaming, reachable>>

HandleOffline ==
  /\ online /\ online' = FALSE
  /\ shown' = IF disposed \/ ended THEN shown ELSE "trying"
  /\ UNCHANGED <<ended, disposed, timer, requests, sockets, ws,
                 session, names, renaming, reachable>>

(***************************************************************************)
(* TerminalView offers to attach again once the terminal has ended and the *)
(* session is listed: it disposes of the TerminalSession and makes another,*)
(* which is what the variables then stand for.  What the old one still     *)
(* waits for finds it disposed.                                            *)
(***************************************************************************)
Reconnect ==
  /\ ~disposed /\ shown = "ended" /\ session \in names
  /\ requests' = {[name |-> session, current |-> TRUE, answer |-> "awaited"]}
  /\ sockets' = ForgetSocket
  /\ ws' = NoSocket /\ timer' = FALSE
  /\ ended' = FALSE /\ shown' = "trying"
  /\ UNCHANGED <<disposed, worldVars>>

(***************************************************************************)
(* The panel is dropped: the session was killed, the user logged out.      *)
(***************************************************************************)
Dispose ==
  /\ ~disposed /\ disposed' = TRUE
  /\ requests' = {Outdated(q) : q \in requests}
  /\ sockets' = ForgetSocket
  /\ ws' = NoSocket /\ timer' = FALSE
  /\ UNCHANGED <<ended, shown, worldVars>>

(***************************************************************************)
(* onRename asks the hub, and tells the terminal only once it has answered;*)
(* an answer that is lost, or comes when another host is shown, does not   *)
(* reach it.                                                               *)
(***************************************************************************)
AskRename(n) ==
  /\ renaming.phase = "none" /\ ~disposed /\ session \in names /\ n # session
  /\ renaming' = [phase |-> "asked", to |-> n]
  /\ UNCHANGED <<terminalVars, session, names, reachable, online>>

HubRenames ==
  /\ renaming.phase = "asked"
  /\ \/ /\ session \in names /\ renaming.to \notin names
        /\ names' = (names \ {session}) \union {renaming.to}
        /\ renaming' = [renaming EXCEPT !.phase = "done"]
     \/ UNCHANGED names /\ renaming' = NotRenaming
  /\ UNCHANGED <<terminalVars, session, reachable, online>>

SetSession ==
  /\ renaming.phase = "done" /\ renaming' = NotRenaming
  /\ session' \in {session, renaming.to}
  /\ UNCHANGED <<terminalVars, names, reachable, online>>

(***************************************************************************)
(* The hub.  It refuses a ticket for good when the session is not there,   *)
(* the host has gone or the token is no longer valid; anything else that   *)
(* fails is a hub or a host that cannot be reached.  A host that has gone  *)
(* is not reachable either: then the hub still answers, and refuses a      *)
(* request for a ticket and the upgrade of a socket that has one.          *)
(***************************************************************************)
IssueTicket(q) ==
  /\ q \in requests /\ q.answer = "awaited"
  /\ \E a \in {"ticket", "refused", "failed"} :
       /\ a = "ticket" => q.name \in names /\ reachable
       /\ a = "failed" => ~reachable
       /\ requests' = (requests \ {q}) \union {[q EXCEPT !.answer = a]}
  /\ UNCHANGED <<ended, disposed, timer, shown, sockets, ws, worldVars>>

Admit(k) ==
  /\ sockets[k].state = "open" /\ sockets[k].peer = "upgrading"
  /\ \E p \in {"attached", "refused", "busy"} :
       /\ p = "attached" => sockets[k].matching
       /\ p = "busy" => sockets[k].matching /\ ~reachable
       /\ sockets' = [sockets EXCEPT ![k].peer = p]
  /\ UNCHANGED <<ended, disposed, timer, shown, requests, ws, worldVars>>

Exit(k) ==
  /\ sockets[k].state = "open" /\ sockets[k].peer = "attached"
  /\ sockets' = [sockets EXCEPT ![k].peer = "exit"]
  /\ UNCHANGED <<ended, disposed, timer, shown, requests, ws, worldVars>>

SessionsChange ==
  /\ \E n \in Names : names' \in {names \union {n}, names \ {n}}
  /\ UNCHANGED <<terminalVars, session, renaming, reachable, online>>

ReachabilityChanges ==
  /\ reachable' = ~reachable
  /\ UNCHANGED <<terminalVars, session, names, renaming, online>>

(***************************************************************************)
(* The constructor connects at once.                                       *)
(***************************************************************************)
TerminalInit ==
  /\ session \in Names /\ names = {session} /\ renaming = NotRenaming
  /\ ended = FALSE /\ disposed = FALSE /\ timer = FALSE /\ shown = "trying"
  /\ requests = {[name |-> session, current |-> TRUE, answer |-> "awaited"]}
  /\ sockets = [k \in Sockets |-> Unused] /\ ws = NoSocket
  /\ reachable = TRUE /\ online = TRUE

TerminalNext ==
  \/ \E q \in requests : TicketAnswered(q) \/ IssueTicket(q)
  \/ \E k \in Sockets :
       SocketOpens(k) \/ Message(k) \/ SocketCloses(k) \/ Admit(k) \/ Exit(k)
  \/ TimerFires \/ HandleOnline \/ HandleOffline \/ Reconnect \/ Dispose
  \/ \E n \in Names : AskRename(n)
  \/ HubRenames \/ SetSession \/ SessionsChange \/ ReachabilityChanges

TerminalSpec == TerminalInit /\ [][TerminalNext]_browserVars

(***************************************************************************)
(* Timers fire, requests are answered (fetch fails in the end when nobody  *)
(* does) and the events of a socket are delivered.  Nothing makes the      *)
(* network work or the user act.                                           *)
(***************************************************************************)
Fairness ==
  /\ WF_browserVars(TimerFires)
  /\ WF_browserVars(\E q \in requests : IssueTicket(q))
  /\ WF_browserVars(\E q \in requests : TicketAnswered(q))
  /\ \A k \in Sockets :
       /\ WF_browserVars(SocketOpens(k)) /\ WF_browserVars(Message(k))
       /\ WF_browserVars(SocketCloses(k)) /\ WF_browserVars(Admit(k))

FairSpec == TerminalSpec /\ Fairness

(***************************************************************************)
(* "Only the most recent attempt SHALL be allowed to take effect": the     *)
(* socket in use is the only one alive, and belongs to the latest attempt. *)
(* What the user types goes into `ws' without asking which attempt made    *)
(* it, so no overtaken socket may be open.                                 *)
(***************************************************************************)
OneLiveSocket ==
  \A k \in Sockets :
    /\ sockets[k].state \in {"connecting", "open"} => k = ws /\ ~disposed
    /\ sockets[k].state = "open" => sockets[k].current

(***************************************************************************)
(* A terminal is never forgotten and never carried on twice: unless it has *)
(* ended or is disposed of there is exactly one of a timer, a request of   *)
(* the latest attempt and a live socket of the latest attempt.  After an   *)
(* end the view shows it, and nothing is under way that would connect.     *)
(***************************************************************************)
Asking == \E q \in requests : q.current

Attaching == \E k \in Sockets : sockets[k].current

OneWayOn ==
  /\ ~ended /\ ~disposed => timer \/ Asking \/ Attaching
  /\ timer => ~Asking /\ ~Attaching
  /\ Asking => ~Attaching
  /\ \A p, q \in requests : p.current /\ q.current => p = q
  /\ ended \/ disposed => ~timer /\ ~Asking
  /\ ended <=> shown = "ended"

(***************************************************************************)
(* "It SHALL NOT automatically retry when the server indicated the session *)
(* ended or the attachment was refused": only the user takes it up again.  *)
(***************************************************************************)
EndIsFinal == [][ended /\ ~ended' => Reconnect]_browserVars

(***************************************************************************)
(* While the hub can be reached and the browser stays online the terminal  *)
(* does not go on trying: again and again it is connected, or has ended.   *)
(***************************************************************************)
EventuallySettles ==
  <>[](reachable /\ online) => []<>(ended \/ disposed \/ Open)
=============================================================================
