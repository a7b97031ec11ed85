---------------------------- MODULE VscodeServer -----------------------------
(***************************************************************************)
(* A VS Code window as its clients meet it: activation, the life of         *)
(* IdeBridgeServer and of its connections (server.ts), the diff reviews it  *)
(* has open (DiffReview), and deactivation (extension.ts).                  *)
(*                                                                         *)
(* Everything runs on the event loop of the extension host; an action is a  *)
(* macrotask with the promise reactions that follow it.  The one reaction   *)
(* that is a step of its own is the end of the first wait of stop(): other  *)
(* macrotasks wait for it (Quiet).                                          *)
(***************************************************************************)
EXTENDS DiffReview

CONSTANTS
    Client,      \* client slots: a process, then the next one in its place
    MaxAttempts  \* MAX_PORT_ATTEMPTS

ASSUME ServerAssumption == MaxAttempts \in Nat \ {0} /\ None \notin Client

VARIABLES
    server,       \* where start() and stop() are
    attempts,     \* ports tried by start()
    lock,         \* is this window's lock published?
    ws,           \* the socket of each client, as the server has it
    conns,        \* the clients in IdeBridgeServer.conns
    initialized,  \* the ones whose Conn.initialized is set
    sweep,        \* the connections whose close stop() waits for
    asker,        \* of each review, the client whose connection asked for it
    last,         \* history: what was last sent to each client
    late          \* history: the clients accepted while stop() was waiting

window  == <<server, attempts, lock>>
sockets == <<ws, conns, initialized, sweep, late>>
vars    == <<window, sockets, review, asker, last>>

(* "broken": start() threw after the server had begun to listen.            *)
(* "sweeping": stop() awaits the connections it found; "closing": it awaits *)
(* wss.close(), which waits for every socket.                               *)
ServerState == {"off", "failed", "broken", "up", "sweeping", "closing", "stopped"}

(* "rejected" is a socket closed for its token: it has no listeners.        *)
SocketState == {"none", "dialling", "open", "closing", "rejected"}

Connected(c) == ws[c] \in {"open", "closing", "rejected"}
Listens(c)   == ws[c] \in {"open", "closing"}
Accepting    == server \in {"up", "broken", "sweeping"}
Quiet        == server # "sweeping" \/ sweep # {}

Init ==
    /\ ReviewInit
    /\ server = "off" /\ attempts = 0 /\ lock = FALSE
    /\ ws = [c \in Client |-> "none"]
    /\ conns = {} /\ initialized = {} /\ sweep = {} /\ late = {}
    /\ asker = [r \in Review |-> None]
    /\ last = [c \in Client |-> "none"]

-----------------------------------------------------------------------------
(* Activation *)

PortTaken ==
    /\ server = "off"
    /\ attempts' = attempts + 1
    /\ server' = IF attempts' = MaxAttempts THEN "failed" ELSE "off"
    /\ UNCHANGED <<lock, sockets, review, asker, last>>

(* The server listens, the adapter's events are subscribed to, the lock is  *)
(* written.                                                                 *)
Start ==
    /\ server = "off"
    /\ server' = "up" /\ lock' = TRUE
    /\ UNCHANGED <<attempts, sockets, review, asker, last>>

(* The directory or the lock cannot be written, or the lock's mode cannot   *)
(* be set: activation fails and leaves the server listening.                *)
StartThrows ==
    /\ server = "off"
    /\ server' = "broken" /\ lock' \in BOOLEAN
    /\ UNCHANGED <<attempts, sockets, review, asker, last>>

(* A client's scan of the lock directory deletes the lock, which it has     *)
(* read while it was written.  This window never publishes another.         *)
LockLost ==
    /\ lock
    /\ lock' = FALSE
    /\ UNCHANGED <<server, attempts, sockets, review, asker, last>>

-----------------------------------------------------------------------------
(* Sockets *)

(* Mutant: what is sent does not depend on the state of the socket. *)
SendAlways(c, message) ==
    last' = IF c # None THEN [last EXCEPT ![c] = message] ELSE last

(* sendMessage; to None there is no connection any more. *)
Send(c, message) ==
    last' = IF c # None /\ ws[c] = "open"
            THEN [last EXCEPT ![c] = message] ELSE last

(* By the lock, which the client has read. *)
Dial(c) ==
    /\ lock /\ ws[c] = "none"
    /\ ws' = [ws EXCEPT ![c] = "dialling"]
    /\ UNCHANGED <<window, conns, initialized, sweep, late, review, asker, last>>

DialFails(c) ==
    /\ ws[c] = "dialling"
    /\ ws' = [ws EXCEPT ![c] = "none"]
    /\ UNCHANGED <<window, conns, initialized, sweep, late, review, asker, last>>

(* onConnection with this server's token. *)
Accept(c) ==
    /\ Quiet /\ Accepting
    /\ ws[c] = "dialling"
    /\ ws' = [ws EXCEPT ![c] = "open"]
    /\ conns' = conns \cup {c}
    /\ initialized' = initialized \ {c}
    /\ last' = [last EXCEPT ![c] = "none"]
    /\ late' = IF server = "sweeping" THEN late \cup {c} ELSE late \ {c}
    /\ UNCHANGED <<window, sweep, review, asker>>

(* onConnection with a token of an earlier window on this port. *)
RejectToken(c) ==
    /\ Quiet /\ Accepting
    /\ ws[c] = "dialling"
    /\ ws' = [ws EXCEPT ![c] = "rejected"]
    /\ UNCHANGED <<window, conns, initialized, sweep, late, review, asker, last>>

(* Mutant: stop() is not told of a close that it waits for. *)
ForgetUntold(c) ==
    /\ ws' = [ws EXCEPT ![c] = "none"]
    /\ conns' = conns \ {c}
    /\ asker' = [r \in Review |-> IF asker[r] = c THEN None ELSE asker[r]]
    /\ UNCHANGED <<window, initialized, sweep, late, review, last>>

(* What a close event leaves of c's connection: its handlers may still run, *)
(* but what they return goes nowhere.                                       *)
Forget(c) ==
    /\ ws' = [ws EXCEPT ![c] = "none"]
    /\ conns' = conns \ {c}
    /\ sweep' = sweep \ {c}
    /\ asker' = [r \in Review |-> IF asker[r] = c THEN None ELSE asker[r]]
    /\ UNCHANGED <<window, initialized, late, review, last>>

(* The client hangs up, or the connection is lost. *)
ClientLeaves(c) ==
    /\ Quiet /\ ws[c] = "open"
    /\ Forget(c)

(* The closing handshake ends, or its timeout does. *)
CloseEnds(c) ==
    /\ Quiet /\ ws[c] \in {"closing", "rejected"}
    /\ Forget(c)

-----------------------------------------------------------------------------
(* Requests.  They are also read from a connection that is being closed.    *)

(* A parse error, an unknown method, invalid parameters, a method before    *)
(* initialize: answered with an error.                                      *)
Refuse(c) ==
    /\ Quiet /\ Listens(c)
    /\ Send(c, "reply")
    /\ UNCHANGED <<window, sockets, review, asker>>

Initialize(c) ==
    /\ Quiet /\ Listens(c)
    /\ initialized' = initialized \cup {c}
    /\ Send(c, "reply")
    /\ UNCHANGED <<window, ws, conns, sweep, late, review, asker>>

(* A method that the adapter answers from the state of the window. *)
Query(c) ==
    /\ Quiet /\ Listens(c) /\ c \in initialized
    /\ Send(c, "reply")
    /\ UNCHANGED <<window, sockets, review, asker>>

RequestDiff(c, r) ==
    /\ Quiet /\ Listens(c) /\ c \in initialized
    /\ \/ /\ OpenDiff(r)
          /\ asker' = [asker EXCEPT ![r] = c]
          /\ UNCHANGED last
       \/ /\ OpenDiffThrows(r)
          /\ Send(c, "reply")
          /\ UNCHANGED asker
    /\ UNCHANGED <<window, sockets>>

(* A step of the review that settles nothing. *)
ReviewGoesOn(r) ==
    /\ Quiet
    /\ UserActs(r) \/ Watch(r)
    /\ UNCHANGED <<window, sockets, asker, last>>

(* A step of the review that may settle it; its answer is sent at once.     *)
ReviewEnds(r) ==
    /\ Quiet
    /\ DiffFails(r) \/ DocumentClosed(r) \/ LanguageChanged(r)
    /\ IF InReview(r)' THEN UNCHANGED last ELSE Send(asker[r], "reply")
    /\ UNCHANGED <<window, sockets, asker>>

(* An event of the adapter, while subscribed to; or a mention, which the    *)
(* user can make from a completed activation to the end of stop().          *)
Broadcast ==
    /\ Quiet
    /\ server \in {"broken", "up", "sweeping", "closing"}
    /\ last' = [c \in Client |->
                  IF c \in conns \cap initialized /\ ws[c] = "open"
                  THEN "notice" ELSE last[c]]
    /\ UNCHANGED <<window, sockets, review, asker>>

-----------------------------------------------------------------------------
(* Deactivation *)

(* Mutant: only the clients that have initialized are told and closed. *)
StopInitialized ==
    /\ server = "up"
    /\ server' = "sweeping" /\ lock' = FALSE
    /\ last' = [c \in Client |->
                  IF c \in conns \cap initialized THEN "shutdown" ELSE last[c]]
    /\ ws' = [c \in Client |->
                  IF c \in conns \cap initialized THEN "closing" ELSE ws[c]]
    /\ sweep' = conns \cap initialized /\ conns' = {}
    /\ UNCHANGED <<attempts, initialized, late, review, asker>>

(* stop() up to its first await. *)
Stop ==
    /\ server = "up"
    /\ server' = "sweeping" /\ lock' = FALSE
    /\ last' = [c \in Client |->
                  IF c \in conns /\ ws[c] = "open" THEN "shutdown" ELSE last[c]]
    /\ ws' = [c \in Client |->
                  IF c \in conns /\ ws[c] = "open" THEN "closing" ELSE ws[c]]
    /\ sweep' = conns /\ conns' = {}
    /\ UNCHANGED <<attempts, initialized, late, review, asker>>

(* 250 ms after stop() began, whatever the closing handshake does. *)
Terminate(c) ==
    /\ Quiet /\ c \in sweep
    /\ Forget(c)

(* All of them are closed: wss.close() stops listening. *)
Swept ==
    /\ server = "sweeping" /\ sweep = {}
    /\ server' = "closing"
    /\ UNCHANGED <<attempts, lock, sockets, review, asker, last>>

(* wss.close() calls back once no socket is left. *)
Closed ==
    /\ server = "closing"
    /\ \A c \in Client : ~Connected(c)
    /\ server' = "stopped"
    /\ UNCHANGED <<attempts, lock, sockets, review, asker, last>>

-----------------------------------------------------------------------------

Activation == PortTaken \/ Start \/ StartThrows

Next ==
    \/ Activation \/ LockLost
    \/ Stop \/ Swept \/ Closed \/ Broadcast
    \/ \E c \in Client :
        \/ Dial(c) \/ DialFails(c) \/ Accept(c) \/ RejectToken(c)
        \/ ClientLeaves(c) \/ CloseEnds(c) \/ Terminate(c)
        \/ Refuse(c) \/ Initialize(c) \/ Query(c)
        \/ \E r \in Review : RequestDiff(c, r)
    \/ \E r \in Review : ReviewGoesOn(r) \/ ReviewEnds(r)

Spec == Init /\ [][Next]_vars

(* The event loop runs what is due: the timers of stop(), the end of its    *)
(* waits, the closing handshake or its timeout.  VS Code is taken to        *)
(* dispose of a document without a tab.  Nothing is assumed of clients or   *)
(* of the user.                                                             *)
Fairness ==
    /\ WF_vars(Swept) /\ WF_vars(Closed)
    /\ \A c \in Client : WF_vars(Terminate(c)) /\ WF_vars(CloseEnds(c))
    /\ \A r \in Review : WF_vars(ReviewEnds(r) /\ DocumentClosed(r))

FairSpec == Spec /\ Fairness

-----------------------------------------------------------------------------
(* Properties *)

TypeOK ==
    /\ ReviewTypeOK
    /\ server \in ServerState /\ attempts \in 0..MaxAttempts /\ lock \in BOOLEAN
    /\ ws \in [Client -> SocketState]
    /\ conns \subseteq Client /\ initialized \subseteq Client
    /\ sweep \subseteq Client /\ late \subseteq Client
    /\ asker \in [Review -> Client \cup {None}]
    /\ last \in [Client -> {"none", "reply", "notice", "shutdown"}]

(* "shutdown" is the last thing a connection hears: whatever replies are    *)
(* still owed, diff reviews included, and whatever is broadcast while       *)
(* stop() waits.                                                            *)
ShutdownIsLast ==
    [][\A c \in Client : last[c] = "shutdown" /\ Connected(c)
        => last'[c] = "shutdown"]_vars

(* Every open connection belongs to conns until stop() takes it over, and   *)
(* after that only a connection accepted late does: no client is left that  *)
(* neither broadcast() nor stop() knows of.                                 *)
OpenIsKnown ==
    \A c \in Client : ws[c] = "open" => c \in conns

(* While stop() waits, each connection it waits for has been asked to go,   *)
(* and whoever it never asked came after it had begun: it neither waits for *)
(* a connection that is gone nor overlooks one that was there.              *)
StopWaitsForAsked ==
    server \in {"sweeping", "closing"} =>
        /\ \A c \in sweep : ws[c] = "closing"
        /\ \A c \in Client : ws[c] = "open" => c \in late

(* stop() ends.  The one thing that can hold it is a client that connected  *)
(* while it was waiting for the others, for as long as it stays.            *)
StopEnds ==
    server \in {"sweeping", "closing"} ~>
        server = "stopped" \/ \E c \in late : ws[c] = "open"
=============================================================================
