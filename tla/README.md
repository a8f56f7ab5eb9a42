# A TLA+ development of visual-tmux-client

`visual-tmux-client` is a hub that shows tmux sessions of many machines in a
browser: a Go server (`src/hub/internal`) and a Vue client (`src/hub/web`).
This directory holds TLA+ models of its concurrent and stateful parts, the TLC
configurations that check them on small instances, and TLAPS proofs of what
matters most for instances of any size. `PROJECT.json` maps every definition
to the lines it translates.

1. [The system](#1-the-system)
2. [Modules](#2-modules)
3. [Runs, bounds and results](#3-runs-bounds-and-results)
4. [Proofs](#4-proofs)
5. [Where the code and its documents disagree](#5-where-the-code-and-its-documents-disagree)
6. [Not modelled, and the plan](#6-not-modelled-and-the-plan)

To repeat a check: `tlc -config <cfg> <module>` for the rows of section 3,
`tlapm <module>.tla` for section 4.

## 1. The system

### Components

| component | source (`src/hub/…`) | state | operations | modelled in |
|---|---|---|---|---|
| Terminal attachment | `internal/terminal/attachment.go`, `queue.go`, `staging.go` | ready flag, staging buffer, output queue, context, size | `Start`, three pumps, `Shutdown`, `ForceClose` | Attachment, TerminalInput, TerminalStream |
| Manager, tickets, WebSocket handler | `internal/terminal/manager.go`, `internal/auth/tickets.go`, `internal/transport/ws` | tracked attachments, host epochs, tickets | issue, redeem, sweep, register, `CloseHost`, `Shutdown` | AttachLifecycle |
| Host registry and store | `internal/host/registry.go`, `store.go`, `identity.go` | SQLite tables of hosts, watermarks, settings, pending cleanups | save, delete, default host | HostRegistry, HostIdentity |
| Host trust | `internal/host/trust.go`, the host handlers of `internal/transport/http/router.go` | key challenges in memory | probe, confirm; create, edit, remove with a hook | HostTrust |
| SSH connection manager | `internal/host/connection.go` | pools, control and dedicated connections, permits, backoff | lease, dial, keepalive, `Invalidate`, `Close` | ConnectionManager |
| Path coordinator | `internal/host/remote_files.go` (first part) | locked paths, who waits for whom | `Lock`, unlock | PathCoordinator |
| Remote file service | `internal/host/remote_files.go` | active staging files, pending cleanups; the server's files | write, create, rename, delete, cleanup | RemoteFiles |
| Local file service | `internal/files`, `internal/transport/http/files.go` | the configured roots, the staging files in use; the file system | list, read, write, create, rename, delete, close | LocalFiles |
| Session service, tmux commands | `internal/session`, `internal/tmux/client.go`, `internal/host/remote_sessions.go` | none between calls; the control connection they share | list, create, rename, kill | Sessions |
| Runtime resolver, capabilities, credentials, SSH authentication | `internal/host` | a cache of probes | resolve, probe, seal, open | partly, through their callers |
| tmux processes | `internal/tmux/process.go`, `internal/host/remote_terminal.go` | an attach client | attach, resize, detach | Attachment, TerminalInput |
| HTTP transport, bearer check, configuration, composition | `internal/transport/http`, `internal/auth/auth.go`, `internal/config`, `internal/app` | none of their own | handlers and hooks | handlers that change state, as actions |
| Browser terminal | `web/src/terminal.ts`, `components/TerminalView.vue` | generation, socket, retry timer, state shown | connect, reconnect, network events, rename, dispose | BrowserTerminal |
| Browser file manager | `web/src/files`, `FileManagerOverlay.vue` | tabs, tree, pending operations | open, save, rename, delete, list | planned |
| Application shell, localisation | `web/src/App.vue`, … | selection, forms | poll, render | not planned |

### How they interact

* A browser asks the router for a **ticket** (host, connection revision,
  session) and opens a WebSocket with it. The WebSocket handler reads the
  manager's *epoch* of the host, resolves the host, redeems the ticket, starts
  an attach client (locally or over SSH), registers an **attachment** with the
  **manager** and calls `Attachment.Start`.
* An attachment pumps: process → staging buffer or queue → WebSocket, and
  WebSocket → process. Three goroutines, the goroutine that called `Start` and
  any caller of the manager share it.
* An administrator's edit goes through the **registry**, which issues a new
  *connection revision* when it changes how the host is reached. Afterwards the
  **hook** of `app.go` invalidates the host's tickets, closes its attachments
  (`CloseHost`, which also raises the epoch) and its SSH connections
  (`ConnectionManager.Invalidate`).
* Remote sessions, terminals and files take **leases** of a host from the
  connection manager. A short command shares the host's control connection, a
  terminal or a file operation gets a dedicated one. Whoever fails on the shared
  one gives it up for all, but only if it is still the one of the pool.
* A request for sessions is a few **tmux commands**, one after another; nothing
  keeps other requests, or other users of tmux, from acting between two of them.
* The **host handlers** read a host, probe its key or redeem a challenge, and
  save; which hook they run afterwards follows from what they read and what was
  saved.
* A **local file** request is authorized on a path once, and then walks that
  path again with every system call, on a file system it shares with others.
* A remote file operation locks its paths in the **path coordinator**, changes
  files over SFTP, and records staging files in the **store**. What a failed
  write left behind is removed when a control connection is next made.

### What is hard

* *Interleaving:* pumps against teardown, flush against output, request
  handlers against hooks, dials against invalidation, writes against cleanup.
* *Stale reads:* an epoch, a revision, a lease, a size or a file content that
  is read, then acted on after somebody else changed it.
* *Lost answers and stops:* an SFTP request whose answer never comes; a hub
  that stops between the steps of a write; identifiers that are registered
  again afterwards.
* *Waiting:* a write pump asleep in `Pop`, operations that lock paths one after
  the other, callers that wait for a permit.
* *Other programs:* on the hub's own machine they move, replace and link files
  and directories between any two system calls of a request; inode numbers are
  used again.
* *Limits:* watermarks of the queue, the staging buffer, permits of a pool, the
  table of pending cleanups.

`PROJECT.json` lists each such hazard at its line, with the properties that
would catch it going wrong.

### What makes each component correct

* Attachment: the client sees the process's output in order, without a gap
  after `ready`; memory is bounded; every goroutine returns; nothing is left.
* Attaching: a ticket admits once, for the host and revision it was made for;
  nothing made for a replaced revision outlives the hook of the change.
* Registry: a revision is never reused, whatever is removed and registered
  again, before or after a restart.
* Trust: a key is trusted only for the host, revision and endpoint at which
  somebody confirmed it; a change of the way to a host always runs the hook.
* Sessions: an answer is true, also when the connection breaks in the middle of a
  command; nobody's request closes a connection that is not its own to close.
* Local files: nothing outside the authorized root is touched, nothing is
  replaced or removed that the caller had not asked for or seen, staging files stay
  private.
* Connections: a stale lease does not connect; no connection is untracked; no
  permit is lost.
* Paths: conflicting work never overlaps; nobody waits for ever.
* Browser terminal: of several attempts to connect only the latest counts; it is
  never left without one, and not taken up again by itself after an end.
* Remote files: a save replaces what it found when it began, and no other request
  of the hub comes in between; a failure that was reported is one; staging files
  are neither removed while in use nor forgotten.

## 2. Modules

Each module has its state as VARIABLES with the names of the code, one action
per step, a type invariant, and properties. A step is what a goroutine does
between two points at which another one can interfere: one critical section,
one transaction, one exchange over a connection. Operators whose comment calls
them a *mutant* of a definition are not used by the model. Each is a plausible
mistake in that definition, kept because the property that notices it is then
known to depend on the code.

### Attachment, TerminalStream

`pc` holds the position of every goroutine: `start` (the caller of `Start`),
`output`, `write`, `input`, and the manager's calls `shutdown` and `force`. The
queue's `paused`, `closed` and `exitCode`, the staging buffer, the attachment's
context (`cancelled`) and the chunk each pump holds are variables. A chunk is a
number; where it ends in the output of the process (`Ends`) gives its length
(`SizeOf`) and that of a buffer (`Bytes`). `received` has the chunks the client
got, `control` the control frames. Actions follow the code of a goroutine from
lock to lock:

* `Launch`, `SendReady`, `MarkReady`, `Flush` are `Start`. `Attachment.mu` is
  held from `MarkReady` to the last push, which is why `Deliver` waits for it.
* `OutputLoop` … `OutputDetach` are `outputPump` with `deliver` and
  `onOutputEnd`; `Push` does not look at `closed`, exactly as the code.
* `Pop`, `SendBinary`, `SendExit`, `CloseNormal` are `writePump`.
* The five steps of `Teardown` are common to `onClientGone`, `Shutdown`,
  `ForceClose` and the error path of the write pump, which leave different ones
  out.

`cond.Wait` in `Pop` is the state `asleep` that only `Push`, the flush and the
closing of the queue end. The peer may fail at any write. `TerminalStream` is
the abstract specification: emit, discard a prefix before the start, begin,
receive, end; the end comes only when everything was received. `ImplementsStream`
maps the chunk held by either pump, the queue and the staging buffer to its
`pending`, and an exit frame after a close that came with the flush done to its
`ended` (for the other exits see section 5).

### TerminalInput

The way back: keystrokes written in pieces, and resize requests, against the
three steps of `forceRepaint`. It is a module of its own because input and
output share nothing but the process and the context. `overtaken` is a history:
the client asked for its last size after `forceRepaint` had read the one it will
restore.

### AttachLifecycle

Tickets, WebSocket requests, administrative requests and the manager. The
request's local variables are a record per request (`epoch`, `rev`, …), so that
what was read early is used late as in `ServeHTTP`: `ReadEpoch`, `Resolve`,
`RedeemForTarget`, `NewProcess`, `Register`, `Start`. The registry appears as
`HostIdentity`, which `HostRegistry` implements. The hook of `app.go` is four
steps, so hooks of different edits interleave, and a request may run between
any two. `gone` is a history variable: the revisions whose hook has returned.
`life` is another: how often a host was removed.

### HostRegistry, HostIdentity

Every operation of the registry holds its mutex for one transaction and so is
one action. `marks` is the table of watermarks, which removal keeps. Credentials
and keys are model values, `Keep` an input field left empty. Because all state is
in the database, a restart of the hub changes no variable. `issued` and
`issuedSettings` are histories. `HostIdentity` is what the rest of the hub relies
on: a connection revision only grows, and removal does not reset it.

### HostTrust

`HostTrust` extends `HostRegistry` with `TrustStore` and the handlers of the host
API. `calls` has the state of each call between its steps: what it read of the
host (`old`), the challenge it redeemed (`by`), the hook it is about to run. So
`ReadHost` and the save of the same call are two steps, as `Get` and `Save` are
in `updateHost`, and `RedeemForHost` and `PinKey` are two, as in
`confirmHostTrust`. A failed save, a refused redemption and the end of a hook are
all `Return`. `Expire` may take any challenge at any time. `Restart` loses
challenges and calls and keeps the tables. What a server answers to a probe is
any key: servers change. `made` and `confirmed` are histories. Every action of
`HostRegistry` occurs in one of `HostTrust`, so the properties of the registry
are checked and refined in the same run.

### LocalFiles

The file system is part of the model: `entry` (directory, name → inode number),
`inode`, and `where`, the directory a path leads to now. A number is free, and is
used again at once, when no name and no descriptor refers to it (`Collected`); while
none is free a creation is refused, as by a full disk, and nobody else creates
anything either. `Fresh` takes one of the free numbers, no matter which;
`born` in an inode says which file it really is, and only properties read it where
the code cannot. A step is one system call of a request, with the comparisons the
code makes before the next:

* `Resolves` is `RootSet.Resolve` with the confined directory it returns;
  `Reached` is how `os.Root` walks to that directory at each later call, and
  refuses to leave the root. Without roots the walk follows whatever is there.
* A write: `BeginWrite`, `WriteTarget` (it looks and pins), `CreateStaged` and
  `MarkStaged` under `stagingMu`, `CopyBody`, `Confirm` and `Verify` (the two
  later looks), `Commit` (the rename), `StampOf`, `RemoveStaged`,
  `UnmarkStaging`.
* `Create`, `Rename`, `Delete` are each a look and an act. A reading is
  `OpenFile` and `ServeContent`; a listing is `ReadNames` and `SkipStaging`.
* `Others` are other programs: they change, replace, remove, move and link files,
  fill directories, and replace a directory by a link; and `Close`, the shutdown.

A `quiet` request is one since whose last look no other program has acted: what
happens after the last look is beyond any check (the code says so at
`service.go:845`), so the properties make no claim there.

### Sessions

A request is a record that says which tmux command it is at (`cmd`), how far that
is (`pc`, `way`) and on which control connection (`client`). `First` and the
`After…` operators are the control flow of `Create`, `Rename`, `Kill`, `List` of
both backends: which command follows, given the outcome of the last. `remote`
chooses the backend. The steps of one remote command are those of `exec`:
`GetControl`, `StartCommand`, then `Answer`, `LoseAnswer` or `Abort` with `Drain`; a local
one is `LocalStart`, `Answer` or `Killed`. tmux performs a command in one step
(`Perform`), before or after the request stopped to wait for it: `late` has the
commands that were given up on their way. `clients` has every control connection
ever made, `control` is the one of the pool.

### ConnectionManager

One host: hosts share only the manager's mutex. `pools` has every pool ever
made, because calls keep pointers to pools that were replaced; `mapped` is the
entry of the map. A call is a request with a lease; it goes through `Lease`,
`GetControl` or a dedicated dial, `dialTransport` (`CheckClosed`, `DialPool`,
`Enter`, `Acquire`, `ResolveConfig`, `Handshake`) and the installation. The
single flight is the pool's `flight`. The keepalive loop and the watcher of the
control connection are actions of the call whose connection it is. Backoff is a
flag that a failure sets and time clears.

### PathCoordinator

A path is a sequence of names; two conflict if one is above the other. An
operation locks the names it was asked for, then resolves them in order and
locks what each resolves to: that second lock is taken while holding the first,
hence the circles. `Refuse` follows `waiting` like `checkDeadlockLocked`; `Wait`
records one conflicting owner, whichever the code's loop finds first. A refused
handle keeps its entry in `waiting`, as in the code. `Woken` is the closing of
the channel all waiters share.

### BrowserTerminal

Every callback of `TerminalSession` is an action; JavaScript runs one at a time.
`Connect` is `connect()` up to its await and `TicketAnswered` the rest of it,
which finds `disposed`, `this.ws` and the name of the session as they are by
then. The code numbers attempts (`generation`) and only compares with the latest;
a request and a socket carry the outcome of that comparison, `current`, and
`Connect` clears it everywhere else. `sockets` has every WebSocket, `ws` is
`this.ws`. A closing socket has no handlers (`ForgetSocket`) or stale ones. The
hub is what a browser sees of it: `IssueTicket`, `Admit` and `Exit`. `Reconnect`
is the button of `TerminalView`, which replaces the `TerminalSession`.
`reachable` stands for the network, the hub and the host together: while it is
false a request fails, or the hub refuses the upgrade of the socket because it has
the host no more or cannot reach it. `online` is what the browser believes of its
network.

### RemoteFiles

Requests of the four kinds on paths of one host. A request holds its locks from
`Lock` to `Unlock`. The server has requests it was sent (`request`), performs or
refuses each (`Perform`, `Refuse`) at any time, also after the requester gave up
(`Unanswered`) and released its locks. `stage` is the staging file of a write:
none, part or whole. `active` is the set of files in use, `records` the table of
pending cleanups, which is all of the hub that survives `Crash`. `Edit` is any
program outside the hub. `cleaner` is one `RunPendingCleanups`: list, look at
`active`, then one record after the other. A content is named by the request or
the edit that produced it, and `Second`, a parameter, gives the whole second it
was produced in, which is all of a time that SFTP tells. A caller that expects
something tells the time of what it saw, and its digest or not; the browser never
does, and no route returns one. `Matches` compares what is told, and `Unchanged`
falls back on the digest the hub took itself when it first looked (`origin`). A
server without `posix-rename` only refuses more. The early refusals
of a request (permissions, links, a target that is no regular file, a revoked
lease, …) are one nondeterministic alternative of each step.

### MC modules

An MC module gives constants their values and declares what is interchangeable.
Three of them also put two components side by side, of one attachment
(MCAttachment), of the requests of a browser (MCAttachLifecycle) and of the work on
an SSH host (MCRemoteHost). The two share no variable, so a behaviour of both is one
of each; an instance follows one, named by a variable that never changes (`direction`,
`part`), while the other rests in one initial state.

## 3. Runs, bounds and results

| run | module, cfg | instance | result |
|---|---|---|---|
| `attachment` | MCAttachment, MCAttachment.cfg | 3 chunks of 2, 1, 2 units, watermarks 3 and 2, staging 2, with a `Shutdown`; and the way back, 3 messages, sizes 0 to 4 of at most 3, 2 pieces | passes: QueueBounded, NothingLeftBehind, ImplementsStream, EventuallyReturns, EventuallyDelivered of Attachment; InputInOrder, SettlesOnAskedSize of TerminalInput |
| `host_registry` | MCHostTrust, MCHostTrust.cfg | 1 identifier, 4 revisions, 2 calls, 2 challenges, 2 endpoints, 2 keys | passes: TypeOK, RevisionNamesContent, ConnectionRevisionNamesConnection, DefaultHostSafe, ImplementsIdentity of the registry; ConfirmationBinds, TrustIsDecided, ChangesAreTold of HostTrust |
| `attach` | MCAttachLifecycle, MCAttachLifecycle.cfg | 1 host, 1 ticket, 2 requests, 2 administrators, 3 revisions; and 2 requests for sessions, 2 names, 2 control connections, 1 change from outside, local or remote | passes: NoStaleAttachment, TicketKeepsItsHost, SingleUse, NoOrphanProcess of AttachLifecycle; AnswersAreTrue, AbandonedIsFree, OthersConnectionKept of Sessions |
| `paths` | MCPathCoordinator, MCPathCoordinator.cfg | 3 operations that can wait in a circle of three | passes: Serialized, NoCircle, EventuallyReturns |
| `remote_files` | MCRemoteHost, MCRemoteHost.cfg | 2 requests, 2 names, 1 record, 1 edit, 1 stop, all changes in one second after that of what was there; and 2 calls, 1 administrator, 2 permits, 2 revisions, 3 pools | passes: LiveStageKept, WriteFailureHasNoEffect, LeftoverIsRecorded, SaveReplacesWhatItFound of RemoteFiles; NothingUntracked, StaleLeaseNeverConnects, PermitsComeBack of ConnectionManager |
| `local_files` | MCLocalFiles, MCLocalFiles.cfg | 2 directories, 1 name beside those of staging files, 5 inodes, 3 requests and changes together, 3 configurations of roots | passes: StaysInside, NothingTakenUnseen, StagesStayPrivate, TimeNotNewer |
| `browser_terminal` | BrowserTerminal, MCBrowserTerminal.cfg | 2 names, 2 sockets, 2 requests under way | passes: OneLiveSocket, OneWayOn, EndIsFinal, EventuallySettles |
| `final_size` | TerminalInput, MCInput_FinalSizeApplied.cfg | as in `attachment` | FinalSizeApplied is violated (section 5) |
| `save_unseen` | MCRemoteFiles, MCRemote_SaveReplacesWhatItsCallerSaw.cfg | 2 requests, 1 name, everything in one second, no edits or stops | SaveReplacesWhatItsCallerSaw is violated |
| `entry_replaced` | MCLocalFiles, MCLocal_EntryIsTheOneBegunWith.cfg | 1 request, 2 changes by other programs | EntryIsTheOneBegunWith is violated |
| `connection_invalidate` | ConnectionManager, MCConnection_InvalidatedControlCloses.cfg | 1 call, 1 administrator | InvalidatedControlCloses is violated |
| `nameless_creations` | MCSessions, MCSessions_NamelessNeverCollides.cfg | the requests of `attach`, nobody else | NamelessNeverCollides is violated |

Every module defines a type invariant, `TypeOK` (in a module that occurs beside
another one the names have a prefix: `TrustTypeOK`, `InputTypeOK`, `SessionsTypeOK`,
`ConnectionTypeOK`). The runs spend their time on the other properties; the type
invariants were checked on the same instances, and all are proved (section 4).

### Why the bounds are enough to be interesting

* `attachment`: the queue reaches the high-water mark with a large and a small
  chunk, pauses, is drained to between the marks and to below the lower one; the
  second large chunk evicts from the staging buffer; both pumps can hold a chunk
  at once. Every order of a process exit, a departure of the client, a failed
  write and a shutdown occurs. `ForceClose` takes
  the same steps as `Shutdown`, so one of the two is enough.
* `attachment`, the way back: a valid, an invalid and a boundary size (one row,
  which cannot shrink) against every step of the repaint.
* `host_registry`: one identifier, taken by the local host first, is removed and
  registered again for a remote one, with two more revisions to edit, to confirm
  and to be removed and registered once more. Two calls are enough for a save to
  come between any two steps of another; the second challenge can be of an older
  revision, of another endpoint, of a draft, or of another key. What
  a second host adds is proved without bounds (section 4).
* `attach`: two hooks of two changes run in either order, with a removal and a
  registration in between, and two requests present one ticket. A third revision
  is needed for an edit on top of a recreated host.
* `remote_files`, connections: a shared dial with a leader and a follower, against
  an edit or removal and the end of the manager. A third pool is made only by a
  lease that is older than the current pool.
* `paths`: three links and three renames, each of which can need what the next
  holds, and an operation on a directory above a target: a circle of length
  three, one through an entry left behind by a refused handle, and deadlines
  that pass or never do.
* `remote_files`: any two operations on the same name, on two names, and a
  rename between them; a full table with one record is at its limit with the
  second; the stop of the hub comes at every step of both. All that is written has
  one time, and what was there at first an older one, so times agree where contents
  differ and also tell contents apart.
* `save_unseen`: two saves of one name. Everything in one second is what two saves
  that follow one another closely are on any host.
* `local_files`: a hub without roots, with one directory outside its only root, and
  with a root for each directory. Two requests of any kinds and one change by
  another program, or one request and two changes (a file is removed and another
  gets its inode; a directory is replaced and its old one refilled). A third
  request would be like the second: the service has no state but the set of marks.
* `attach`, sessions: all pairs of requests on the same or different names, each in every
  state of its command when the connection breaks, is given up by the other or is
  replaced. The second connection is what a late failure on the first must not
  close. The change from outside takes, frees or moves a name between two commands.
* `browser_terminal`: the latest attempt and one it has overtaken, each as a
  request and as a socket, with every event between. A third would be overtaken
  like the second. Nothing else is bounded: the network fails and returns, and
  the session is renamed and removed, as often as one likes. The proofs lift
  both bounds.

### Fairness

`FairSpec` of Attachment assumes weak fairness of each goroutine, which the Go
scheduler gives every runnable goroutine, and nothing of the session, the client
or the manager. A read of a living process may therefore block for ever.
`FairSpec` of PathCoordinator assumes that an operation that holds its locks goes
on and returns (its exchanges have deadlines) and that locks whose channel was
closed are tried again; no deadline has to pass, so `EventuallyReturns` does not
rest on timeouts. `ConnectionFairSpec`, used by `connection_invalidate`, makes
goroutines run on but neither loses connections nor fails keepalives: the
counterexample is a connection that works.

That an abandoned remote request returns, given that connections which are closed
report it (weak fairness of `Drain`), was model-checked on Sessions without changes
from outside; it takes several minutes, so the run has what it rests on:
`AbandonedIsFree`, that no abandoned request waits for a connection which is up.

`FairSpec` of BrowserTerminal assumes that timers fire, that a request is
answered or fails and that the events of a socket are delivered. The network need
not work: `EventuallySettles` is about a network that works from some time on.

`CHECK_DEADLOCK FALSE` is used throughout because each model has runs that end:
a finished attachment, requests made once, revisions at their bound, a terminal
disposed of.

## 4. Proofs

Eight modules hold proofs. For each specification they state one inductive invariant,
prove that the initial states have it and that every action keeps it, and derive the
properties of the runs from it. They hold for every value of the constants: any
number of requests, hosts, chunks, pools or paths, and any bound.

`AttachmentProofs`, for any number and lengths of chunks, any watermarks and any
staging buffer:

* `AttachmentInvariant`. What the client received, what the write pump holds, the
  queue, the staging buffer and what the output pump holds are consecutive
  stretches of the output of the process (`InOrder`): a step moves the boundaries
  between them, and the bytes in a buffer follow from its two boundaries. `PlaceInv`,
  `HoldInv`, `EndInv` and `ExitInv` say where each goroutine can be given what it
  holds and what of the attachment is already over.
* `MemoryIsBounded`: `QueueBounded`. It is inductive with what is known while the
  flush is under way (queue and staging buffer together do not exceed the staging
  limit) and while the output pump has left its check (the queue was below the mark
  and only it pushes).
* `NothingIsLeftBehind`, `AttachmentTypes`: consequences.
* `AttachmentImplementsStream`: the refinement of `TerminalStream`. A read is
  `Emit`, an eviction `Discard`, `MarkReady` is `Begin`, a successful write
  `Receive`; an exit frame after a clean close is `End`, and by then every buffer
  is empty. Nothing else is seen.

and of the way back, TerminalInput, for any number and lengths of messages and any
largest dimension:

* `InputInvariant`. While the process takes input it has exactly the pieces the
  pump got to (`Turned`: all of the messages before the one being written, and of
  that one the first `piece`). `InputInOrder` alone speaks of that only while the
  pump is idle, and so is not inductive. For the size: until the repaint shrinks it,
  the process has the one asked for last; between the two resizes of the repaint
  anything between 1 and the maximum, since the pump resizes meanwhile; afterwards
  the one asked for last or the one restored. A repaint only shrinks a terminal of
  two rows or more, so no size ever becomes 0.
* `KeystrokesArriveInOrder`: `InputInOrder`. `TheSizeSettles`: `SettlesOnAskedSize`.
  `InputTypes`: no sequence of requests gives the process an invalid size.

`AttachLifecycleProofs`, of attaching at the hub,

* `LifecycleInvariant`. A request that an invalidation has overtaken is barred by
  the epoch it read or on the list that `CloseHost` made (`StaleInv`); what was read
  of a host under one revision is of one life of the host, and a ticket that
  admitted a request is spent (`AdmissionInv`); a process exists only between its
  creation and the end of its request (`ProcessInv`).
* `NoAttachmentIsStale`, `TicketsAdmitOnce`, `TicketsKeepTheirHost`,
  `NoProcessIsOrphaned`, `LifecycleTypes`: consequences.
* `HostsAreIdentities`: of the hosts this module uses only what `HostIdentity`
  allows, which is what the registry is proved to implement.

and, at the other end of the connection, of BrowserTerminal (a state of its own,
with the specification `TerminalSpec`), for any number of sockets, requests and names:

* `TerminalInvariant`: beside the properties themselves, that a socket of the
  latest attempt is the one the terminal refers to, alive, and not connecting
  any more once the terminal has ended (`LatestIsHeld`). Without it a `close`
  event could find a timer or a request beside it, or follow an end.
* `OnlyTheLatestAttempt`, `NeverForgotten`, `TerminalTypes`: consequences. The
  step that needs the argument is `ConnectBInv`: an attempt is begun only where
  no socket is open, because a timer excludes a socket of the latest attempt and
  no other socket can be open.
* `EndsStay`: the action property, from the same invariant.

`HostTrustProofs` first proves the registry, then the calls of the API over it:

* `RegistryInvariant`: neither of the two revision properties is inductive alone.
  What carries them is that the watermarks bound everything ever issued
  (`MarksCoverIssued`) and that a registered host is the last record issued for its
  identifier and sits exactly at its watermark (`HostAtMark`), so the next revision
  is fresh, and a kept connection revision is kept from the record with that
  connection. For `DefaultHostSafe` it is that the current settings have the
  largest revision (`SettingsLatest`).
* `RevisionsNameContent`, `ConnectionRevisionsNameConnection`,
  `DefaultHostStaysSafe`, `RegistryTypes`: consequences.
* `RegistryImplementsIdentity`: the refinement of `HostIdentity`. Every write is
  described once, by the lemma that its record is a `Successor`.
* `TrustInvariant`: every step of a call is a step of the registry, or leaves it
  alone, so the registry's invariant carries over; beyond it, a challenge is in the
  store, held by one call, or confirmed, and never two of these (`HeldOnce`), and
  what a call holds was really issued or made (`CallsHold`).
* `ConfirmationsBind`, `PinnedKeysAreDecided`, `ChangesAreAlwaysTold`,
  `TrustImplementsRegistry`, `TrustKeepsIdentities`, `TrustTypes`: consequences.

`ConnectionManagerProofs`:

* `ConnectionInvariant`: the mapped pool is the only one that is not revoked
  (`OneInUse`); a call's place says what it holds (`PlaceOK`) and what the pools it
  was given know of it (`PoolsKnow`); a call that was too old when it set out to
  dial stays too old (`RegistryOK`).
* `EverythingIsTracked`, `PermitsAreReturned`, `StaleLeasesNeverConnect`,
  `ConnectionTypes`: consequences.

`PathCoordinatorProofs`:

* `CoordinatorInvariant`: locks of different handles never conflict
  (`Exclusive`), and what an operation was asked for and has found is locked or
  about to be (`Covered`).
* `ConflictingWorkIsSerialized`: `Serialized`, from the two.
* `WaitingHasNoCircle`: `NoCircle`. The step is `Wait`: a circle it closed would
  run from the new edge back to the waiting handle, and the set of handles the
  chain from the conflicting owner visits (the definition of `LeadsTo`) does not
  contain that handle.
* `CoordinatorTypes`.

`RemoteFilesProofs`:

* `FilesInvariant`: for each request, by its place in the code, whether its staging
  file is recorded (`Recorded`), what the server may still do for it (`Sent`), that
  an outcome it knows is what happened (`Outcome`) and what of it is on the server
  (`Staged`); two requests that hold locks have no name in common (`LocksApart`),
  and what a save looked at is still there when it replaces it, unless somebody who
  holds no lock changed it (`SavesLook`).
* `LiveStagesAreKept`, `FailuresHaveNoEffect`, `LeftoversAreRecorded`, `FilesTypes`:
  consequences.
* `SavesReplaceWhatTheyFound`: the action property SaveReplacesWhatItFound, for any
  `Second`, that is, whatever the times tell apart. It says that no request of the
  hub comes between the first look of a save and its replacement. It does not say
  that the first look found what the caller had seen, which is false for a save
  without a digest (section 5). `DigestsDecide` says that it is true for one with a
  digest.

`SessionsProofs`:

* `SessionsInvariant`: the command a request is at says what it has changed so far
  and what it gave up (`RequestOK`), and no connection works but the one of the
  pool (`OneUp`).
* `AnswersStayTrue`, `AbandonedAreFree`, `SessionsTypes`: consequences.
  `OthersConnectionsAreKept`: the action property.

`LocalFilesProofs`, for any directories, names and requests, any configuration of
roots and any number of changes by other programs:

* `LocalFilesInvariant`. Of each request, by its place in the code: the staging file
  is in the directory it was created in, with its mark under the path the write was
  authorized on (`StagedIn`, `MarkedAs`, `InPlace`); it is what the body is copied
  to, and from the first confirmation on it is whole (`StagedWhole`); what it looked
  at last is as it was, unless it was disturbed since (`Looked`); a reader is told of
  what it is served or of something older (`Told`); it acts where the roots allow it
  to (`Confined`). Of each two: a staging file that a listing has read is marked by
  the time the listing asks (`Hidden`). `StagesStayPrivate` alone is not inductive
  for several reasons at once: nothing in it says that the file a rename puts in
  place is the one the body was copied to, that a mark outlives its file, or that a
  number in use is not given away (`FreshId`).
* The argument that another actor disturbs nothing is made once: `Spares` says what
  every step leaves to the other requests (their records but for `quiet`, their
  staging files and marks, the inodes they have pinned, and, for one that is still
  `quiet`, all a look could see), and each part of the invariant survives whatever
  spares its request.
* `StagesPrivate`, `TimesNotNewer`, `LocalFilesTypes`: consequences.
* `NothingOutsideTheRoot`: the action property `StaysInside`. A system call on an
  authorized path works in the root it was authorized in or not at all
  (`ReachedRoot`), wherever directories lead to by then.
* `NoLossUnseen`: the action property `NothingTakenUnseen`. For a write it is `Looked`
  at the moment of the rename: what has the name is the file the write began with, or
  a link that has taken its name and leads to it, which the last look cannot tell from
  it. So the theorem says what the file is that is replaced or led to, and not that the
  entry is the same (section 5). The lemmas `CommitReach`, `RenameReach`,
  `DeleteReach` compare every name before and after.

The assumptions are those the modules name, and TLC evaluates them in the runs. The
watermarks are positive and ordered, as the configuration is checked to be, and a
chunk is not empty and at most what one read returns. The local identifier is one of
the hosts; `Absent` and `Keep` are no values of records, `Draft` is no host, `NoCall`
no call, `NoOwner` no handle, `NoSocket` no socket. Paths resolve to paths and
requests are not empty. The generated names are a sequence that is not empty. The
names callers use are not those of staging files, which are random in the code;
directories and requests are finitely many, and there is an inode for the first file
of each directory. A bound is a number; one that is at least one is so in the code (a
pool has a permit, the table of cleanups a row, a registered host a revision, a
terminal a row, a message of keystrokes a piece).

Only model-checked is all liveness (`EventuallyReturns`, `EventuallyDelivered`,
`EventuallySettles`): liveness under fairness is out of the provers' reach. Every
other property of the passing runs is proved.

## 5. Where the code and its documents disagree

Five runs end in a violation of something a document or comment states. Each is
in `PROJECT.json` under findings with the quotation.

* `connection_invalidate`: `createControlConnection` installs a new control
  connection into a pool that was revoked while it dialed; nothing closes it but
  its own loss.
* `nameless_creations`: two creations without a name in the same second both find
  the generated name free, and both use it; the second is told of a name conflict,
  on the hub's machine and remotely alike (`remote_sessions.go:121`,
  `tmux/client.go:161`).
* `final_size`: a size that the client asks for while `forceRepaint` is under way is
  applied and then undone by its restoring step (`attachment.go:308`): the attachment
  records the new size, the process keeps the old one until the client asks again,
  against `openspec/specs/session-hub/spec.md:230` and `:517`. `SettlesOnAskedSize` is
  what holds: this is the only exception, and the shrunken size never stays.
* `save_unseen`: two saves of a remote file in one second. The second expects the time
  it saw before the first, and finds it (`remote_files.go:730`, `:895`): the first is
  lost without a conflict, against `openspec/specs/file-manager/spec.md:699` and
  `:703-705`. A digest would tell them apart (`DigestsDecide`), but no route returns
  one and the browser sends none (`web/src/files/api.ts:371`).
* `entry_replaced`: the look before a local replacement follows links (`service.go:917`).
  A file that is moved away during a save, with a link to it left at its name, passes
  for the file the write began with, and the link is replaced, against
  `openspec/specs/file-manager/spec.md:187`, which speaks of the entry.

Observed while modelling, and not kept as runs:

* Output that is staged when the process ends before the flush is never delivered,
  although the client is told of a normal exit: `onOutputEnd` closes the queue
  while the staging buffer is full (`attachment.go:200`, against
  `openspec/specs/session-hub/spec.md:418`). That is why `ended` of TerminalStream
  stands for an exit after the flush only.
* `Rename`, `Create` and `Delete` on an SSH host report `write_failed` when the
  connection is lost before the answer (`remote_files.go:1498`), where
  `openspec/specs/host-management/spec.md:123` wants an unknown outcome.
  `WriteFailureHasNoEffect` is what holds. A tmux command whose `Start` fails after
  it was sent is reported as unavailable in the same way (`remote_sessions.go:69`;
  `refused` in Sessions).
* A terminal whose socket survives the loss of the network says that it is
  reconnecting until that socket breaks: `handleOffline` reports the loss,
  `handleOnline` returns before it reports anything (`terminal.ts:230`).
* `stampOf` reads the time of what has the name after the rename, so a save can be
  answered with the time of a later change; a save whose rename was performed can
  also still fail there.
* A listing may show the entry of a staging file that was renamed or removed
  between the reading of the directory and the look at the marks.
* A remote rename that tmux performed is answered as failed when the lookup that
  follows it fails. Only the remote `Create` answers with what it knows.
* A creation without a name whose caller left before the probe still sends
  `new-session` if a control connection exists, since a probe that cannot be asked
  counts as a free name, and then gives that connection up for everybody.
* An abandoned remote command on a pool that was replaced finds nothing to give up
  in `invalidateControl`; it then waits for the server (`remote_sessions.go:86`).
  Sessions is about one pool.
* The directory of a pane is trimmed of all white space remotely, and of one
  newline locally.
* A rename that is confirmed while a terminal awaits its ticket makes a URL for
  the new name with a ticket for the old (`terminal.ts:340`); the hub refuses it
  for good and the terminal ends although its session lives.
* A client closed by `Shutdown` may still receive an exit frame, because
  `CloseWithExit` sets the code on a queue that is closed already
  (`queue.go:92`); a transport loss closes the WebSocket with the normal status
  (`attachment.go:213`).
* The connection budget counts per pool, so during a change of revision a host
  may briefly have twice as many (`connection.go:219`); the limits under `hosts`
  in the configuration are validated, but the manager gets the defaults
  (`app.go:104`).
* A call with an old lease that reaches `getPool` after an edit replaces, and
  closes, the newer pool (`connection.go:211`).
* A permit of a dedicated connection that its pool closes before `onClose` is
  set is not given back (`connection.go:602`); the pool is revoked by then, so
  nobody waits for it.
* `checkDeadlockLocked` may refuse a handle through the leftover entry of a
  refused one; no circle existed.
* A hook that runs after its host was removed and registered again closes the
  attachments of the new registration too, which is safe.
* `verifyTargetBeforeReplace` takes any error of looking at a new target for its
  absence (`remote_files.go:919`); the rename that follows replaces.
* Records of pending cleanups keep the host's identifier only: after an edit of
  the endpoint the cleanup looks on the new machine.

## 6. Not modelled, and the plan

Left out for good: cryptography and encoding (credentials, JSON, SSH
authentication), the network side of a key probe, parsing of tmux output and of the
configuration, static files, wording, layout, and the schema migrations of old
databases. Within the modelled parts:

* remote files: recursive deletion, reads and listings, which lock nothing, and the
  packets of `SFTPAdapter`;
* local files: mode, owner and time stamps as such, the classification of contents,
  the order and the bound of a listing;
* sessions: the rules for names, the order of panes, the environment of the tmux
  server;
* the window-change requests of a remote terminal (a resize is one step), and the
  cache of capability probes.

Next, in this order:

1. `FileManager`, over `files/tabs.ts`, `tree.ts`, `pending.ts`, `pathChanges.ts`
   and `FileManagerOverlay.vue`: a save that completes after the tab was edited,
   renamed or closed; listings that arrive out of order or after the host was
   switched. LocalFiles and RemoteFiles are the hub's side of it.
2. Recursive deletion on an SSH host, against renames of directories from outside.
3. Pure parts as operators with a reference definition: the choice of a pane, the
   validation of the configuration, the order of sessions.
