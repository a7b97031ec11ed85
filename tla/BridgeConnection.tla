-------------------------- MODULE BridgeConnection --------------------------
(***************************************************************************)
(* The connection life cycle of the OMP side of the bridge: OmpIdeBridge   *)
(* (core.ts) and the BridgeClient objects it owns (bridge-client.ts).      *)
(*                                                                         *)
(* Both run on one JavaScript event loop.  An action is either a macrotask *)
(* (a socket event or the reconnect timer, with the promise reactions that *)
(* settle inside it), a call made by the host (start, stop, connectTo), or *)
(* the continuation of an awaiting open() whose promise has settled.       *)
(* Macrotasks wait until no such continuation is pending (Quiet).          *)
(***************************************************************************)
EXTENDS FiniteSets

CONSTANTS
    Client,         \* BridgeClient objects; one that is garbage is used again
    Ide,            \* ports of the IDEs that may publish a lockfile
    Matching,       \* the ones whose workspaceFolders contain the cwd
    EnvPort,        \* OMP_IDE_PORT, or None
    None,
    ErrorAfterOpen, \* may an "error" event reach a socket that was open?
    ScanRace        \* may the port given to connectTo have lost its lockfile?

ASSUME ConstantsAssumption ==
    /\ Matching \subseteq Ide
    /\ EnvPort \in Ide \cup {None}
    /\ None \notin Ide \cup Client
    /\ ErrorAfterOpen \in BOOLEAN
    /\ ScanRace \in BOOLEAN

VARIABLES
    live,     \* ports that a scan of the lock directory returns
    stopped,  \* OmpIdeBridge.stopped
    current,  \* OmpIdeBridge.client
    timer,    \* is reconnectTimer set?  (its delay is not modelled)
    cl        \* the BridgeClient objects and the open() call awaiting each

vars == <<live, stopped, current, timer, cl>>

-----------------------------------------------------------------------------
(* BridgeClient.  "closed" stands for ws = null and for a closed ws alike.  *)
(* The task is where the open() that owns the client awaits: "connect", one *)
(* of the three calls of pullInitialState, or, once its promise has been    *)
(* rejected, the pending continuation "failed" (the catch of open) or       *)
(* "aborted" (the rest of a pull whose calls all reject at once).           *)

Pulling == {"editors", "selection", "diags"}
Settled == {"failed", "aborted"}

ClientState ==
    [port     : Ide \cup {None},
     sock     : {"none", "connecting", "open", "closed"},
     ide      : BOOLEAN,    \* ide # null: initialize has succeeded
     byUs     : BOOLEAN,    \* closedByUs
     notified : BOOLEAN,    \* closeNotified
     task     : {"none", "connect"} \cup Pulling \cup Settled,
     user     : BOOLEAN]    \* opened by connectTo

Unused == [port |-> None, sock |-> "none", ide |-> FALSE, byUs |-> FALSE,
           notified |-> FALSE, task |-> "none", user |-> FALSE]

Fresh(p, user) ==
    [Unused EXCEPT !.port = p, !.sock = "connecting", !.task = "connect",
                   !.user = user]

Live(c) == cl[c].sock \in {"connecting", "open"}

Connected == current # None /\ cl[current].sock = "open"

(* The current client has a socket, opened or still connecting. *)
HasLink == current # None /\ Live(current)

(* Mutant: an initialize in flight is not rejected with the other calls. *)
TaskKeepsInitialize(r) ==
    IF r.task \in Pulling THEN "aborted" ELSE r.task

(* handleSocketClosed rejects every pending call.  An initialize in flight  *)
(* rejects connect(); while the socket is still connecting there is no call *)
(* to reject, and connect() is left unsettled.                              *)
TaskWithoutSocket(r) ==
    IF r.task = "connect" /\ r.sock = "open" THEN "failed"
    ELSE IF r.task \in Pulling THEN "aborted" ELSE r.task

DisposeSocket(r) ==
    [r EXCEPT !.sock = "closed", !.ide = FALSE, !.task = TaskWithoutSocket(r)]

Close(r) == [DisposeSocket(r) EXCEPT !.byUs = TRUE]

Rejected(r) == [DisposeSocket(r) EXCEPT !.task = "failed"]

Quiet == \A c \in Client : cl[c].task \notin Settled

-----------------------------------------------------------------------------
(* OmpIdeBridge *)

Init ==
    /\ live = {}
    /\ stopped = TRUE
    /\ current = None
    /\ timer = FALSE
    /\ cl = [c \in Client |-> Unused]

(* Mutant: a null candidate is not told from a found one. *)
PicksNull == IF EnvPort \in live THEN {EnvPort}
             ELSE IF live \cap Matching = {} THEN {None} ELSE live \cap Matching

(* What pickCandidate may return: the explicit port when it is there, else  *)
(* a lock that matches the cwd.  Which of those is the newest is left open. *)
Picks == IF EnvPort \in live THEN {EnvPort} ELSE live \cap Matching

ScheduleReconnect(t) == timer' = (t \/ ~stopped)

Free(c) == c # current /\ ~Live(c) /\ cl[c].task \in {"none", "connect"}

(* Mutant: the previous client is replaced without being closed. *)
OpenUnclosed(p, user) ==
    \E c \in Client :
        /\ Free(c)
        /\ cl' = [cl EXCEPT ![c] = Fresh(p, user)]
        /\ current' = c

Open(p, user) ==
    \E c \in Client :
        /\ Free(c)
        /\ cl' = [d \in Client |->
                    IF d = c THEN Fresh(p, user)
                    ELSE IF d = current THEN Close(cl[d]) ELSE cl[d]]
        /\ current' = c

(* Mutant: no retry is scheduled when the scan finds nothing. *)
TryConnectOnce(t) ==
    /\ timer' = t
    /\ IF Connected \/ Picks = {} THEN UNCHANGED <<current, cl>>
       ELSE \E p \in Picks : Open(p, FALSE)

(* Mutant: an established connection does not stop a retry. *)
TryConnectAlways(t) ==
    IF Picks = {} THEN timer' = TRUE /\ UNCHANGED <<current, cl>>
    ELSE timer' = t /\ \E p \in Picks : Open(p, FALSE)

(* tryConnect, entered with reconnectTimer = t and not stopped. *)
TryConnect(t) ==
    \/ /\ Connected
       /\ timer' = t
       /\ UNCHANGED <<current, cl>>
    \/ /\ ~Connected
       /\ Picks = {}
       /\ timer' = TRUE
       /\ UNCHANGED <<current, cl>>
    \/ /\ ~Connected
       /\ timer' = t
       /\ \E p \in Picks : Open(p, FALSE)

Start ==
    /\ stopped' = FALSE
    /\ TryConnect(timer)
    /\ UNCHANGED live

(* Mutant: stop() leaves the reconnect timer running. *)
StopKeepsTimer ==
    /\ stopped' = TRUE
    /\ cl' = [c \in Client |-> IF c = current THEN Close(cl[c]) ELSE cl[c]]
    /\ current' = None
    /\ UNCHANGED <<live, timer>>

Stop ==
    /\ stopped' = TRUE
    /\ timer' = FALSE
    /\ cl' = [c \in Client |-> IF c = current THEN Close(cl[c]) ELSE cl[c]]
    /\ current' = None
    /\ UNCHANGED live

ConnectTo(p) ==
    /\ p \in live
    /\ stopped' = FALSE
    /\ Open(p, TRUE)
    /\ UNCHANGED <<live, timer>>

(* The lockfile listed a moment ago is gone: connectTo returns false. *)
ConnectToMiss ==
    /\ ScanRace
    /\ stopped' = FALSE
    /\ UNCHANGED <<live, current, timer, cl>>

TimerFires ==
    /\ Quiet
    /\ timer
    /\ IF stopped
       THEN timer' = FALSE /\ UNCHANGED <<current, cl>>
       ELSE TryConnect(FALSE)
    /\ UNCHANGED <<live, stopped>>

-----------------------------------------------------------------------------
(* Socket events.  Those of a disposed socket are gone: its handlers are    *)
(* null, so only a live socket has any.                                     *)

(* notifyUnexpectedClose and the onClose callback of open(). *)
NotifyUnexpectedClose(c, r) ==
    IF cl[c].byUs \/ cl[c].notified
    THEN /\ cl' = [cl EXCEPT ![c] = r]
         /\ UNCHANGED <<current, timer>>
    ELSE /\ cl' = [cl EXCEPT ![c] = [r EXCEPT !.notified = TRUE]]
         /\ current' = None
         /\ ScheduleReconnect(timer)

SocketOpen(c) ==
    /\ Quiet
    /\ cl[c].sock = "connecting"
    /\ cl' = [cl EXCEPT ![c].sock = "open"]
    /\ UNCHANGED <<live, stopped, current, timer>>

ConnectFails(c) ==
    /\ Quiet
    /\ cl[c].sock = "connecting"
    /\ cl' = [cl EXCEPT ![c] = Rejected(@)]
    /\ UNCHANGED <<live, stopped, current, timer>>

(* onclose without an "error" event before it: the server closed the       *)
(* socket (1008 included) or the transport was cut.                        *)
SocketClosed(c) ==
    /\ Quiet
    /\ Live(c)
    /\ NotifyUnexpectedClose(c,
            IF cl[c].ide THEN DisposeSocket(cl[c]) ELSE Rejected(cl[c]))
    /\ UNCHANGED <<live, stopped>>

(* onerror on a socket that had opened: fail() disposes of it, so that its *)
(* onclose never runs.                                                     *)
SocketError(c) ==
    /\ ErrorAfterOpen
    /\ Quiet
    /\ cl[c].sock = "open"
    /\ cl' = [cl EXCEPT ![c] = DisposeSocket(@)]
    /\ UNCHANGED <<live, stopped, current, timer>>

(* The server's "shutdown" notification. *)
ShutdownNotice(c) ==
    /\ Quiet
    /\ cl[c].sock = "open"
    /\ NotifyUnexpectedClose(c, DisposeSocket(cl[c]))
    /\ UNCHANGED <<live, stopped>>

InitializeOk(c) ==
    /\ Quiet
    /\ cl[c].sock = "open" /\ cl[c].task = "connect"
    /\ cl' = [cl EXCEPT ![c].ide = TRUE, ![c].task = "editors"]
    /\ UNCHANGED <<live, stopped, current, timer>>

(* Mutant: the connection is given up, and nobody is told. *)
InitializeFailsSilently(c) ==
    /\ Quiet
    /\ cl[c].sock = "open" /\ cl[c].task = "connect"
    /\ cl' = [cl EXCEPT ![c].sock = "closed", ![c].ide = FALSE]
    /\ UNCHANGED <<live, stopped, current, timer>>

(* An error reply, a malformed one, another protocol version, a timeout. *)
InitializeFails(c) ==
    /\ Quiet
    /\ cl[c].sock = "open" /\ cl[c].task = "connect"
    /\ cl' = [cl EXCEPT ![c] = Rejected(@)]
    /\ UNCHANGED <<live, stopped, current, timer>>

(* A call of pullInitialState is answered, refused or timed out; the last  *)
(* one is made only when the IDE advertised diagnostics.                   *)
NextPull(task) ==
    CASE task = "editors"   -> {"selection"}
      [] task = "selection" -> {"diags", "none"}
      [] OTHER              -> {"none"}

PullStep(c) ==
    /\ Quiet
    /\ cl[c].task \in Pulling
    /\ \E t \in NextPull(cl[c].task) : cl' = [cl EXCEPT ![c].task = t]
    /\ UNCHANGED <<live, stopped, current, timer>>

-----------------------------------------------------------------------------
(* Continuations of open() *)

(* Mutant: a failed open() drops the client but schedules nothing. *)
OpenFailedForGood(c) ==
    /\ cl[c].task = "failed"
    /\ cl' = [cl EXCEPT ![c].task = "none"]
    /\ current' = IF current = c THEN None ELSE current
    /\ UNCHANGED <<live, stopped, timer>>

OpenFailed(c) ==
    /\ cl[c].task = "failed"
    /\ cl' = [cl EXCEPT ![c].task = "none"]
    /\ current' = IF current = c THEN None ELSE current
    /\ ScheduleReconnect(timer)
    /\ UNCHANGED <<live, stopped>>

(* The pull ends without a socket; open() still returns true. *)
OpenAborted(c) ==
    /\ cl[c].task = "aborted"
    /\ cl' = [cl EXCEPT ![c].task = "none"]
    /\ UNCHANGED <<live, stopped, current, timer>>

-----------------------------------------------------------------------------
(* The IDEs, as the lock directory shows them *)

IdeUp(p) ==
    /\ p \notin live
    /\ live' = live \cup {p}
    /\ UNCHANGED <<stopped, current, timer, cl>>

IdeDown(p) ==
    /\ p \in live
    /\ live' = live \ {p}
    /\ UNCHANGED <<stopped, current, timer, cl>>

-----------------------------------------------------------------------------

Host == Start \/ Stop \/ ConnectToMiss \/ \E p \in Ide : ConnectTo(p)

Faults(c) == ConnectFails(c) \/ SocketClosed(c) \/ SocketError(c)
                \/ ShutdownNotice(c) \/ InitializeFails(c)

Continue(c) == OpenFailed(c) \/ OpenAborted(c)

Progress(c) == SocketOpen(c) \/ InitializeOk(c) \/ PullStep(c)

Next ==
    \/ Host
    \/ TimerFires
    \/ \E c \in Client : Progress(c) \/ Faults(c) \/ Continue(c)
    \/ \E p \in Ide : IdeUp(p) \/ IdeDown(p)

Spec == Init /\ [][Next]_vars

(* The event loop runs what is due: a timer that is set, a continuation     *)
(* that is pending, the outcome of a connection attempt (the socket opens   *)
(* or errors) and of every call (each has a timeout).                       *)
Fairness ==
    /\ WF_vars(TimerFires)
    /\ \A c \in Client :
        /\ WF_vars(Continue(c))
        /\ WF_vars(SocketOpen(c) \/ ConnectFails(c))
        /\ WF_vars(InitializeOk(c) \/ InitializeFails(c))
        /\ WF_vars(PullStep(c))

FairSpec == Spec /\ Fairness

-----------------------------------------------------------------------------
(* Properties *)

TypeOK ==
    /\ live \subseteq Ide
    /\ stopped \in BOOLEAN
    /\ current \in Client \cup {None}
    /\ timer \in BOOLEAN
    /\ cl \in [Client -> ClientState]
    /\ \A c \in Client : Live(c) => cl[c].port # None

(* At most one socket is live at any time, and it is the current client's:  *)
(* however connectTo, start and the reconnect timer interleave, open()      *)
(* leaves no earlier socket (and no earlier set of callbacks) behind.       *)
OneLiveSocket == \A c \in Client : Live(c) => c = current

(* After stop() nothing is left that could bring the connection back: no    *)
(* timer, no client, no socket that is still being opened.                  *)
StoppedIsQuiet ==
    stopped => /\ ~timer
               /\ current = None
               /\ \A c \in Client : ~Live(c)

(* onClose sets client to null without asking whose close it reports; it is *)
(* only ever run for the current client, so it never throws away the        *)
(* connection that replaced the one which closed.                           *)
NoStaleClose ==
    [][\A c \in Client : cl'[c].notified /\ ~cl[c].notified => c = current]_vars

(* While the bridge is started it is never stranded: once the pending       *)
(* continuations have run, a reconnect is scheduled or a socket is live.    *)
NeverStranded ==
    ~stopped /\ Quiet => timer \/ HasLink

(* What a started bridge lives on.  Between a rejected connect() and the    *)
(* catch of its open() that is neither a timer nor a socket.                *)
Retrying ==
    ~stopped => timer \/ HasLink \/ \E c \in Client : cl[c].task = "failed"

(* Two things can strand a started bridge, and nothing else: an "error"     *)
(* event on an open socket, and, after a disconnect, a connectTo whose port *)
(* is gone.  Neither the event loop nor an IDE brings it back from there,   *)
(* only the host does.                                                      *)
StrandedByTwoOnly ==
    [][/\ Retrying => \/ Retrying'
                      \/ ConnectToMiss
                      \/ \E c \in Client : SocketError(c)
       /\ ~Retrying /\ Retrying' => Host]_vars

Linked == HasLink /\ cl[current].ide

(* Retrying does not give up: when the host leaves the bridge started,      *)
(* faults stop and some eligible IDE stays published, a connection is       *)
(* established and kept.                                                    *)
Disturbed == Host \/ \E c \in Client : Faults(c)

ReconnectsWhenCalm ==
    <>[](~stopped /\ Picks # {}) /\ <>[][~Disturbed]_vars => <>[]Linked
(* BridgeLink is what this module implements: the link is the live socket   *)
(* of the current client, and it is up once initialize has succeeded.       *)
Link == INSTANCE BridgeLink WITH
            wanted <- ~stopped,
            peer   <- IF HasLink THEN cl[current].port ELSE None,
            up     <- Linked,
            chosen <- HasLink /\ cl[current].user

(* Every step of the life cycle is a step of BridgeLink or leaves the link  *)
(* alone: nothing connects unasked, a retry never drops an established      *)
(* link, and stop() takes it down in the same step.                         *)
ImplementsLink == Link!Spec
=============================================================================
