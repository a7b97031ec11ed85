# Verification of the OMP IDE bridge

TLA+ models of the bridge between the OMP coding agent and an IDE, TLC runs that check
them on small instances, and TLAPS proofs of the safety properties that matter most, for
every value of the constants. Source paths are relative to `packages/` of the repository;
`core.ts`, `bridge-client.ts` and `lockfile.ts` are in `omp-extension/src`, `index.ts` in
`omp-extension`, `server.ts`, `vscode-adapter.ts`, `adapter.ts` and `extension.ts` in
`vscode-extension/src`, the Kotlin files in
`jetbrains-plugin/src/main/kotlin/com/omp/idebridge`.

## 1. The system

An IDE window is a WebSocket server that publishes `~/.omp/ide/<port>.lock`. The agent's
process is the client: it scans the locks, dials one window, initializes, pulls the
window's state, then lives on notifications. Everything on the OMP side and in VS Code
runs on one JavaScript event loop each; JetBrains uses the EDT, one WebSocket worker per
connection, and a thread pool.

| Component | State | Operations | What makes it correct |
|---|---|---|---|
| `OmpIdeBridge`, connection (core.ts) | `stopped`, `client`, `reconnectTimer`, backoff | start, stop, disconnect, connectTo, tryConnect, open, onClose | at most one socket; stop is final; never without both a connection and a retry; the user's choice stands |
| `OmpIdeBridge`, cache (core.ts) | editors, selections, diagnostics, last injection, status line | initial pull, notifications, before_agent_start, the diagnostics pull | the cache ends up equal to the IDE's state; nothing is taken as told that this connection has not seen |
| `BridgeClient` (bridge-client.ts) | socket, pending table, next id, `closedByUs` | connect, call, timeout, message, close | a call is settled once, by its own answer, and not after its connection |
| Lock discovery (lockfile.ts) | none; the directory | scan, delete stale locks, pick | deletes only what is stale; picks the newest window of the directory |
| OMP entry point (index.ts) | the session's UI | session hooks, `/ide`, `/ide <n>`, `/ide off`, the tools | a command reports, and reports the truth; a number means what the list showed |
| VS Code server (server.ts, extension.ts) | connections, `initialized`, port, lock | start with its port attempts, onConnection, dispatch, broadcast, stop | refuses methods before initialize; knows every open connection; nothing after `shutdown`; stop ends |
| VS Code adapter (vscode-adapter.ts) | listeners, debounces, diff reviews and their temporary directories | editors, selections, diagnostics, openDiff, documents | notifications say what is current; a review answers what the user did |
| JetBrains plugin | server, workspace folders, active project, last selection, alarms | ensureStarted, refreshWorkspace, dispose, request handlers, publish | the same, over threads |
| Context rendering, parsing, mention | none | pure functions, presentation | not modelled |

Interactions: the lock directory (shared files between processes), JSON-RPC requests and
replies, four notifications (`selection_changed`, `editors_changed`, `diagnostics_changed`,
`workspace_changed`) and `shutdown`, host callbacks (`onStatus`, `onSelectionStatus`).

What is hard: continuations of `open()` that resume after the state they read has changed;
a timer, the user and an old socket acting on the one `client` field; replies overtaken by
notifications; calls in flight when a socket dies, with call numbers that repeat; hints
that are debounced, filtered and coalesced; locks written, read and deleted by processes
that do not lock; a server that waits for its clients while new ones arrive and reviews are
open; commands that overlap each other and the retry timer. `PROJECT.json` lists every hazard at its line.

## 2. The modules

| Module | Models | Composition |
|---|---|---|
| `BridgeLink` | abstract: what the host is promised of the connection | implemented by `BridgeConnection` |
| `BridgeConnection` | the connection life cycle of core.ts and the sockets of bridge-client.ts | |
| `ContextSync` | IDE events, order on the wire, caches, status line, injection | VS Code and JetBrains windows in turn |
| `IdeCommand` | the session hooks and the `/ide` command of index.ts, the order of the locks | extends `BridgeConnection`: every step of a command is a call of the life cycle |
| `DiagnosticsSync` | hints and pulls of diagnostics | a VS Code or a JetBrains window |
| `DiffReview` | one call of openDiff: temporary file, listeners, the document, the decision | |
| `VscodeServer` | activation, sockets, dispatch, broadcast and deactivation of a VS Code window | extends `DiffReview`: the reviews its connections have asked for |
| `CallContract` | abstract: what a remote call promises its caller | implemented by `RpcChannel` |
| `RpcChannel` | calls, replies, timeouts and both servers' dispatch over successive connections | |
| `LockDirectory` | the lock files: windows of both kinds, one scanning client | |
| `*Proofs` | theorems about the module they are named after | |
| `MC*` | the instances TLC checks, with their `.cfg` | |

Definitions keep the source's names where they can. `PROJECT.json` maps each to its lines.

**BridgeConnection.** The variables are the fields of `OmpIdeBridge` and one record per
`BridgeClient`. An action is one macrotask of the event loop (a socket event, the timer), a
call of the host, or the continuation of an `open()` whose promise has settled; macrotasks
wait while a continuation is pending (`Quiet`), as microtasks run first. A client object
that nothing refers to may be used again for a later `new BridgeClient`, so the object
count bounds the overlap, not the length of a behaviour. Backoff delays are dropped.
`ErrorAfterOpen` admits an `error` event on an established socket, `ScanRace` a
`connectTo` whose port has just disappeared.

**ContextSync.** `win` is the window at the other end; the socket's two directions are
`reqs` and `chan`. VS Code answers and broadcasts from one loop, so what it sends is
ordered by when it was read (`ServeRequest` sends at once). JetBrains computes a reply on
the EDT and sends it from a worker (`reply`, then `SendReply`), while events broadcast from
the EDT itself. `AgentTurn` is `before_agent_start`. The IDE state keeps a remembered
selection and a current one, with the debounce as a timer whose firing reads the state of
that moment. `Aborted` is the rest of an `open()` whose pull lost its socket. A call of the pull
may fail on a living connection (`PullFails`: 15 s without an answer, or an error), which `safe()`
swallows: the cache stays and the pull goes on; the answer that comes after all finds no call
(`LateReply`). `source` is a history variable: whether the cached list came by a reply or an event
of this connection, or was there before it.

**IdeCommand.** `CommandNext` replaces the host calls of `BridgeConnection` by the handlers of
index.ts: session start and end, `/ide off`, `/ide`, `/ide <n>`. `byTime` orders the live ports
by the times of their locks, `DirOrder` as readdir returns them. `awaiting` holds the clients
whose `connectTo` a handler awaits; the step in which `open()` returns is the step in which the
handler reports (`HandlersReport`). A client object that is used again is a new object, so
whoever awaited the old one is dropped from `awaiting` (`Reused`): that `open()` was hung
before. The lock that vanishes between the two scans of one `/ide <n>` is `ConnectToMiss` of
`BridgeConnection`, exercised by `conn_safety` only.

**DiagnosticsSync.** `kind` is the kind of the window. VS Code: `pending` collects changed files
until the adapter's debounce elapses and filters them by open tabs; a pull returns everything.
JetBrains: `pending` is what the daemon has not analysed since it changed, each project has its
alarm, a hint names every open file, and a pull returns the highlights of the open files of the
active project, computed on the EDT (`ComputePull`) and sent from a worker (`SendReply`). The
daemon's findings are known at the end of its pass. On the OMP side a hint arms
`diagPullTimer`, whose firing asks for everything; so does the initial pull once its first two
calls have ended (`pulling`, `InitialPull`). A pull fails on a living connection when its answer is
an error or comes after 15 s (`PullFails`): the cache stays and nothing asks again. A call that
times out changes nothing before its answer comes and is ignored, so `PullFails` is one step, the
arrival. `owed`, `lastRead`, `readOf` and `failed` are history variables.

**DiffReview.** A record per call of openDiff. The editor appears some time before `vscode.diff`
resolves and the listeners are registered (`Watch`), so the user can save or close before
anybody listens. `doc` is VS Code's document: a closed tab leaves it "closing" until VS Code
disposes of it, which is when onDidCloseTextDocument fires; the same event reports a change of
language. `disk` and `early` are history variables.

**VscodeServer.** An action is a macrotask of the extension host with the reactions that follow;
the end of the first wait of `stop()` is a step of its own (`Swept`) that other macrotasks wait
for (`Quiet`). A client slot stands for a process and for the next one in its place. A socket
is open, closing (the handshake of a close, during which requests are still read and nothing is
sent), or rejected for its token (no listeners, but `wss.close()` waits for it). `conns` and
`sweep` are the server's set and the connections `stop()` waits for. A failure of the lock
write leaves the server "broken": listening, without deactivation. `asker` says whom a
review's answer goes to; `last` and `late` are history variables. A client's scan may delete the
lock of the window at any time (`LockLost`, which `LockDirectory` explains), and it is not written
again.

**RpcChannel.** A call is the pair of its connection and its number, because numbers start
at 1 on each connection. VS Code dispatches every request as its own asynchronous task
after checking `initialized`; JetBrains handles one request of a connection at a time and
checks nothing. `Timeout`, `Lose` and `Dispose` give calls up while their handlers go on.
`done`, `answeredBy` and `refused` are history variables.

**LockDirectory.** Windows and the client are separate processes, so an action is one file
system call: a write is `OpenLock` (create or truncate) followed by `WriteLock`, a scan is
`ScanStart` (readdir), a `ScanRead` per name (read, pid check and stat), and `ScanRemove` as a
further step. Deleting a file that a job has open leaves the job writing into an unlinked
file (`orphan`); overlapping jobs of one window may leave one text with the tail of the
other. The times are the order of the writes. `settled` is a history variable: the live
windows with a whole lock that no step of their own has touched since the scan began. A
window stands for its port and its pid; `RecyclePid` reuses a pid. Only VS Code sets
`OMP_IDE_PORT` (extension.ts:29), so `env` ranges over its windows. A scan made only to
list candidates (`/ide`) affects the directory as one that finds nothing, and is not
separate.

## 3. The runs

Passing runs:

| Run | What it asks |
|---|---|
| `conn_safety` | Three client objects, every host call, fault and continuation in any order: types, `OneLiveSocket`, `StoppedIsQuiet`, `NoStaleClose`, the two ways to be stranded (`StrandedByTwoOnly`), and the refinement of `BridgeLink` |
| `conn_retry` | The life cycle under the session hooks and overlapping `/ide` commands (`IdeCommand`), without errors on open sockets: `NeverStranded`, `AwaitedIsPending`, `ConnectedIsTrue`, and under fairness `ReconnectsWhenCalm` and `CommandReturns` |
| `context` | `EditorsInSyncUnlessOvertaken`, `LastNoticeIsCurrent`, `ToldHere`, `NothingShownWithoutEditors` |
| `diagnostics_hints` | Both kinds of window: `HintsHonoured`, `ActiveFilesInSyncOnJetbrains`, and `HintLeadsToPull` under fairness |
| `rpc` | `AnswerIsOwn`, `NoneLeftPending`, `NothingRefused`, and the refinement of `CallContract` |
| `locks` | `SettledLockStays`, `NewestSettledWins`, `VscodeLeavesNoLock`, and `DeadLocksGo`, `WindowIsFound` under fairness |
| `window` | A VS Code window from its first port attempt to the end of `stop()`: `OpenIsKnown`, `StopWaitsForAsked`, `AnswerIsDecision`, `ShutdownIsLast`, and `StopEnds`, `CloseIsAnswered` under fairness |

Runs that find the code at odds with what the repository says of it:

| Run | What TLC finds |
|---|---|
| `conn_error_after_open` | an `error` event on an established socket leaves a started bridge with neither a connection nor a retry (bridge-client.ts:68), against the reconnect policy of docs/protocol.md:64-65 |
| `command_number` | `/ide <n>` sorts the locks by time before it takes the n-th, `/ide` numbers them in the order of the directory (index.ts:201, 219-221): the user gets another window than the one shown |
| `context_reply_overtaken` | JetBrains: a reply computed before a tab event and sent after its notification leaves the client with the old tabs (IdeBridgeServer.kt:262-270) |
| `diagnostics_opened_later` | hints for files without a tab are dropped, and opening the tab does not make up for it (vscode-adapter.ts:205-208) |
| `locks_live_deleted` | a lock read between its creation and its text is deleted although its window runs (lockfile.ts:50), and VS Code never writes it again |

Each is described with its quotation under `findings` in `PROJECT.json`.

Seven more disagreements are stated as the named exceptions of properties that hold:

- `CommandReturns`: a leftover reconnect timer that fires while the client of `/ide <n>` is still
  dialling replaces it (core.ts:242), and its handler never reports, since `connect()` is
  settled by nothing when its socket is closed before it opened.
- `ConnectedIsTrue`: a connection lost during the initial pull is still reported as
  "Connected", and its selection put back on the cleared status line (core.ts:307-309), against
  the comment at core.ts:34-36.
- `AnswerIsDecision`, `CloseIsAnswered`: a diff that is saved or closed before openDiff registers
  its listeners is rejected or never answered (vscode-adapter.ts:134-156), and a change of
  language settles one that is still open, against adapter.ts:81-84.
- `StopEnds`: a client that connects while `stop()` waits for the others is never told, and
  holds `wss.close()` until it leaves (server.ts:196-201).
- `EditorsInSync`, and with it `EditorsInSyncUnlessOvertaken`: a `getOpenEditors` that fails on a
  living connection leaves the list of the connection before (core.ts:318-328) until a tab moves,
  and the context is injected from it under the new window's name, against docs/protocol.md:118.
- `HintsHonoured`, `ActiveFilesInSyncOnJetbrains` (`failed`): a pull of diagnostics that fails on a
  living connection is not made again before the next hint (core.ts:354-356), although the comment
  there speaks only of a connection tearing down.
- `NothingShownWithoutEditors` begins when the initial pull is over: after a close that the client
  made itself the old window's selection stays on the status line during the pull of the new one,
  also when that has answered that no editor is open, against core.ts:137.

`ActiveFilesInSyncOnJetbrains` is restricted to the active project for the same reason: JetBrains
reads that one only (IdeBridgeServer.kt:326), against docs/protocol.md:97.

### Bounds

- `BridgeConnection`: two or three client objects and two IDEs, one of them matching the
  directory and one not or both. Three objects allow a current client, a superseded one
  whose continuation is pending, and a new one; no further object can matter to the others,
  since every code path closes the client it finds. Behaviours are not bounded in length.
- `IdeCommand`: two client objects and two windows, one matching: a handler that waits, the
  retry or command that closes its client, and two orders of the same two locks.
- `ContextSync`: one window of each kind; two messages in flight, so that a reply and a
  notification can be out of order; a window's editors and selection have two and three
  values, enough to tell "old" from "new" and "none".
- `DiagnosticsSync`: two unanswered pulls, and hints only sent with fewer than two messages in
  flight, so that a hint can fall before, inside and after a pull, and a pull that failed can be
  followed by one that did not. `diagnostics_hints` has one file, in one of two projects: the
  caches are compared file by file, and the file is in the active project or in the other.
  `diagnostics_opened_later` has two, so that one can be hinted without the other.
- `VscodeServer`: two clients, so that one can come late while `stop()` waits for the other, or
  be closed while the other is rejected; one review, one edit (the text saved can be an older
  one), two port attempts.
- `RpcChannel`: two connections of three calls each, initialize included, one to VS Code and
  one to JetBrains: two calls can be answered in either order and every number is used
  again. The run may end with all numbers used, which is why it does not check deadlock.
- `LockDirectory`: one window of each kind, three locks ever written (a JetBrains window needs
  two before it lists a project, and a third for VS Code makes them compete; or all three
  rewrite one lock), one pooled job besides the one of the start, one pending activity of each
  kind, one folder.

### Fairness

- `BridgeConnection`: a due timer fires, a settled promise's continuation runs, a connection
  attempt opens or fails, a call ends (each has a timeout). Nothing is assumed of the user,
  of faults or of the IDEs; `ReconnectsWhenCalm` names the calm it needs.
- `IdeCommand`: that of `BridgeConnection`; nothing is assumed of the user's commands.
- `DiagnosticsSync`: messages are handled, in time or too late, requests are answered in the end
  (both servers answer each, an EDT behind a dialog once that closes), the client's pull timer
  fires. `HintLeadsToPull` is about the server's reading; no success of a pull is assumed.
- `VscodeServer`: the timers of `stop()` fire and its waits end, a closing handshake ends (or its
  30 s timeout does), and VS Code disposes of a document that has no tab any more: the last is
  an assumption on the host. Nothing is assumed of clients or of the user.
- `LockDirectory`: the client's own steps. Its retry timer is armed whenever it has no
  connection (`NeverStranded`). Nothing is assumed of the windows: not even that a write begun
  is finished.

## 4. The proofs

All theorems are for every value of the constants allowed by the named assumptions.

**BridgeConnectionProofs.** `IInv` adds to `TypeOK`, `OneLiveSocket` and `StoppedIsQuiet` what a
client record may combine (`RecordOK`): a call only waits on an open socket, a settled
continuation only follows a closed one. `OneLiveSocket` alone is not inductive, because
closing "the client it finds" only suffices if that client is the one with the socket, and a
notified or disposed record must be known to be dead. `TypeCorrect`, `AtMostOneSocket`,
`StopIsFinal` and `NoStaleCloseHolds` follow. `NeverStranded` needs `Retrying`, which also counts
a rejected promise whose `catch` is still to run. `StrandedByTwoOnlyHolds` assumes nothing: of all
steps only an error on an open socket and a `connectTo` whose port is gone break `Retrying`
(`NextRetrying`), and a bridge without it has no event left but the host's (`NextStranded`).
`NeverStrandedHolds` is the case `~ErrorAfterOpen`, `~ScanRace`, which excludes the two.
`ImplementsLinkHolds` proves the refinement of `BridgeLink`, step by step.

**IdeCommandProofs.** `CommandStep` shows that every step of a session is one of the life cycle or
leaves it alone, so `SessionsRunTheLifeCycle` (`CommandSpec => Spec`) carries every theorem above
over; `CommandsNeverStrand` is one of them. Two things are the session's own. `ByTimeOK`: the list
that `/ide <n>` chooses from is the live ports, each of them once; its step rests on lemmas about
the removal of one element of a list (`RemoveAtSet`), and its length on a bijection
(`InjectiveLen`). And what a handler waits for: `PendingRecord` says that an `open()` is under way,
is settled, or had its client closed by the bridge before it opened. No call of the host leaves
that class (`OpenPending`, `StopPending`), and the event loop only by the last pull or by a
continuation (`BackgroundPending`), which wake the handler in the same step. From them
`CommandTypeCorrect`, `AwaitedIsPendingHolds` and `ConnectedIsTrueHolds`: a pull that ends has an
open, initialized socket, which by `OneLiveSocket` is the current client's.

**RpcChannelProofs.** `IInv` adds where replies and initialize requests can be: every reply in
flight is to a call of the connection in use and carries that call's number
(`RepliesInFlight`), call 1 of each connection is its initialize, and a server that has not
read it has it at the head of its queue (`InitializeIsRead`). From it `TypeCorrect`,
`AnswerIsOwnHolds`, `NoneLeftPendingHolds`, `NothingRefusedHolds`.

**RpcContractProofs.** `CInv` says where a call can be: `CallOK` that one which is not made or not
read has no handler and has not been performed, that a running handler has not performed its call
and a finished one has, and that numbers from `nextId` on are free; `SentOnce` that no request is
in a queue twice; `RepliesAreTrue` that a positive reply in flight is to a performed call. With the
invariant of RpcChannelProofs, `ImplementsContractHolds` follows: connecting and calling are `Make`,
a server's answer or an adapter's step is `Perform`, a reply is `Succeed`, and whatever lets go of
calls is one `GiveUp`, of every pending call or of one that timed out.

**LockDirectoryProofs.** `SettledInv` says what a scan may rely on: a settled lock is whole, its
window is up, it is not the one about to be deleted, and it is still to be read or was read
as it is now. `StampInv` says that times tell the locks of different windows apart, also a
lock read earlier from one written later. `VscodeInv` says that a VS Code window has no
pooled jobs, so none is left to write after `stop()`. Window steps and scan steps are treated
apart: `WindowKeeps` shows that a window's step leaves the scan alone and unsettles what it
touches. From it `TypeCorrect`, `SettledLockStaysHolds`, `NewestSettledWinsHolds`,
`VscodeLeavesNoLockHolds`.

**VscodeServerProofs.** `RecordOK` relates the fields of a review: what the listener heard is the
last save unless that came early, and an answer repeats what it heard; `ReviewStepOK` shows
every step of a review keeps it. `ShutdownSilences` says that a client which was told of the end
has no open socket any more: with it nothing that `Send` or `Broadcast` may do can follow. From
them `TypeCorrect`, `OpenIsKnownHolds`, `AnswerIsDecisionHolds` and, an action property, `ShutdownIsLastHolds`. On top of that invariant `TakenOver` follows a connection
from `conns`, where it is open, to `sweep`, where it is closing: `StopWaitsForAskedHolds`, the part
of `StopEnds` that safety can state.

**DiagnosticsSyncProofs.** `OwedIsPending` says what makes the client read again after a hint: the
hint itself, an armed timer, or a request that is not answered. `ReadIsLastWord` says where the
reply computed last is: held by the worker, in flight with only hints behind it, or in the
cache unless its pull failed. `ReadIsCurrent` says that a file of the project that was read agrees with the reading
unless its daemon's pass, its alarm or a hint is still to come. From them `TypeCorrect`,
`HintsHonouredHolds`, `ActiveFilesInSyncHolds`.

**ContextSyncProofs.** `NoticeOK` says that the last `selection_changed` in flight is current
unless the debounce runs, and `EventsOK` the same of `editors_changed`: the last one in flight, or
else a cache that was written from one, is the window's list. For VS Code, `ListOK` says so of the
last list of either kind. An answer that is thrown away would break it if the cache held an older
answer; `CallsOK` excludes that: `getOpenEditors` is called once on a connection, after its only
`initialize`, so its call is in one place at most, and a cache that came by a reply means it is
nowhere any more. `ListOK` is not asked of JetBrains, whose worker may send a list that an event
has overtaken. From them `TypeCorrect`, `EditorsInSyncUnlessOvertakenHolds`, `ToldHereHolds`,
`NothingShownHolds` and, an action property, `LastNoticeIsCurrentHolds`.

Only model-checked: the liveness properties (`ReconnectsWhenCalm`, `CommandReturns`,
`HintLeadsToPull`, `DeadLocksGo`, `WindowIsFound`, `StopEnds`, `CloseIsAnswered`), which are
beyond this prover: it has no rule for fairness or ENABLED. Three of them rest on a proved
invariant that says nothing is waited for in vain: `CommandReturns` on `AwaitedIsPending`, `StopEnds`
on `StopWaitsForAsked`, `HintLeadsToPull` on `HintsHonoured`. Every invariant and every action
property of a passing run is a theorem.

## 5. Not modelled

Text rendering of the context and of the status line, parsing and shape checks, file URI
conversion, wording and presentation, size limits of the servers and the checks of parameters
(each an error reply: `Refuse`), the tests and the packaging. What openFile, saveDocument and
closeTab do to the documents of an IDE is the platform's. `workspace_changed` is left out: the
client ignores it. Two windows that draw the same port, equal modification times and file
permissions are left out of `LockDirectory`; a lock's token is its window's. An `error` event on
a rejected socket, which has no listener, is left out of `VscodeServer`.

## 6. Plan

Done, in this order: `BridgeLink` and `BridgeConnection`; `ContextSync`; `DiagnosticsSync`;
`CallContract` and `RpcChannel`; `LockDirectory`; `DiffReview` and `VscodeServer`; `IdeCommand`;
JetBrains in `DiagnosticsSync`; the proofs of all of them, those of `DiffReview` with
`VscodeServer`.

Next:

1. JetBrains locks: the listed folders equal the open projects (Listeners.kt:130-131) and no
   lock after `dispose()`, both already violated by interleavings of `LockDirectory`.
2. Composition of `LockDirectory` and `BridgeConnection`: `live` as the outcome of a scan, which
   would make `ScanRace` a behaviour instead of a switch.
3. A pure module for `pathContains` and for the fitting of paths on the status line
   (context.ts), against reference definitions over short paths.

Theorems next: that the number of `/ide <n>` is right whenever the two orders of the locks agree
(its scan is a filter on sequences, which needs induction), and that JetBrains, too, is in sync
whenever no tab event falls between the computing and the sending of a reply.
