----------------------------- MODULE RpcChannel ------------------------------
(***************************************************************************)
(* The calls that the client makes over its successive connections:        *)
(* BridgeClient's pending map and timers (bridge-client.ts), and the        *)
(* servers that dispatch them (server.ts, IdeBridgeServer.kt).              *)
(*                                                                         *)
(* Every connection has a BridgeClient object of its own and numbers its    *)
(* calls from 1, so numbers repeat; a call is identified by the pair of its *)
(* connection and its number.  Dialling is BridgeConnection's subject: a    *)
(* connection starts here when its socket opens.                            *)
(***************************************************************************)
EXTENDS Naturals, Sequences

CONSTANTS
    MaxConn,   \* bound on the connections
    MaxCalls,  \* bound on the calls of one connection, initialize included
    Tools,     \* the methods that pullInitialState and the tools call
    JetBrains  \* the connections whose peer is the JetBrains plugin

ASSUME ConstantsAssumption ==
    /\ MaxConn \in Nat \ {0}
    /\ MaxCalls \in Nat \ {0}
    /\ Tools \subseteq {"read", "edit", "diff"}
    /\ JetBrains \subseteq 1..MaxConn

Conn == 1..MaxConn
Id   == 1..MaxCalls
Key  == Conn \X Id

(* "read" is answered from the state of the IDE, "edit" is carried out by   *)
(* it (openFile, saveDocument, closeTab), "diff" waits for the user.        *)
Method  == {"initialize", "read", "edit", "diff"}
Outcome == {"unmade", "pending", "success", "error", "timeout", "dropped"}
Message == [id : Id, of : Key, ok : BOOLEAN]

VARIABLES
    conn,         \* the connection in use or, with sock closed, the last one
    sock,         \* is its socket open?
    ide,          \* client.ide # null
    nextId,       \* its BridgeClient.nextId
    method,       \* of each call that has been made
    outcome,      \* of each call
    toServer,     \* requests that each connection's server has not read
    initialized,  \* the connections that the server has seen initialize on
    handler,      \* the handler of each request: "none", "running", "done"
                  \* (carried out, reply not sent yet) or "failed" (likewise)
    toClient,     \* replies on their way to the client
    done,         \* history: how often each call was carried out
    answeredBy,   \* history: the call whose answer settled this one
    refused       \* history: calls the server refused as out of turn

client == <<conn, sock, ide, nextId, method>>
server == <<initialized, handler, done, refused>>
vars   == <<client, outcome, toServer, server, toClient, answeredBy>>

Init ==
    /\ conn = 0 /\ sock = FALSE /\ ide = FALSE /\ nextId = 1
    /\ method = [k \in Key |-> "read"]
    /\ outcome = [k \in Key |-> "unmade"]
    /\ toServer = [c \in Conn |-> <<>>]
    /\ initialized = {}
    /\ handler = [k \in Key |-> "none"]
    /\ toClient = <<>>
    /\ done = [k \in Key |-> 0] /\ refused = {}
    /\ answeredBy = [k \in Key |-> k]

-----------------------------------------------------------------------------
(* The client *)

Pending == {k \in Key : outcome[k] = "pending"}

(* The socket opens: a fresh client, whose onopen sends initialize.         *)
Connect ==
    /\ ~sock /\ conn < MaxConn
    /\ conn' = conn + 1
    /\ sock' = TRUE /\ ide' = FALSE
    /\ nextId' = 2
    /\ method' = [method EXCEPT ![<<conn', 1>>] = "initialize"]
    /\ outcome' = [outcome EXCEPT ![<<conn', 1>>] = "pending"]
    /\ toServer' = [toServer EXCEPT ![conn'] = <<1>>]
    /\ toClient' = <<>>
    /\ UNCHANGED <<server, answeredBy>>

(* A call of pullInitialState or of a tool.  It takes an open socket, not a *)
(* completed handshake; a diff also takes the capability, which only the    *)
(* VS Code server advertises.                                               *)
Call(m) ==
    /\ sock /\ nextId <= MaxCalls
    /\ m = "diff" => ide /\ conn \notin JetBrains
    /\ nextId' = nextId + 1
    /\ method' = [method EXCEPT ![<<conn, nextId>>] = m]
    /\ outcome' = [outcome EXCEPT ![<<conn, nextId>>] = "pending"]
    /\ toServer' = [toServer EXCEPT ![conn] = Append(@, nextId)]
    /\ UNCHANGED <<conn, sock, ide, server, toClient, answeredBy>>

(* Mutant: the calls in flight are not rejected with their socket. *)
DropKeepsPending(o) ==
    /\ sock' = FALSE /\ ide' = FALSE
    /\ outcome' = o
    /\ toClient' = <<>>
    /\ UNCHANGED <<conn, nextId, method>>

(* disposeSocket and handleSocketClosed, with the outcomes o so far: what   *)
(* is pending is rejected, and nothing that arrives later is looked at.     *)
DropCalls(o) ==
    /\ sock' = FALSE /\ ide' = FALSE
    /\ outcome' = [k \in Key |-> IF o[k] = "pending" THEN "dropped" ELSE o[k]]
    /\ toClient' = <<>>
    /\ UNCHANGED <<conn, nextId, method>>

(* close(), the shutdown notification or an error: the client lets go of    *)
(* the socket; the server still reads what was sent before.                 *)
Dispose ==
    /\ sock
    /\ DropCalls(outcome)
    /\ UNCHANGED <<toServer, server, answeredBy>>

(* The connection is lost, with the requests that were not read; the IDE    *)
(* behind it may be gone and its handlers with it.                          *)
Lose ==
    /\ sock
    /\ DropCalls(outcome)
    /\ toServer' = [toServer EXCEPT ![conn] = <<>>]
    /\ \/ UNCHANGED handler
       \/ handler' = [k \in Key |-> IF k[1] = conn THEN "none" ELSE handler[k]]
    /\ UNCHANGED <<initialized, done, refused, answeredBy>>

(* Call k ends with outcome o, and rest is left to be received.  A failed  *)
(* initialize takes the connection with it.                                 *)
Settle(k, o, rest) ==
    IF method[k] = "initialize" /\ o # "success"
    THEN DropCalls([outcome EXCEPT ![k] = o])
    ELSE /\ outcome' = [outcome EXCEPT ![k] = o]
         /\ ide' = (ide \/ method[k] = "initialize")
         /\ toClient' = rest
         /\ UNCHANGED <<conn, sock, nextId, method>>

(* Mutant: a call that timed out may be sent again before it is given up. *)
TimeoutRetries(i) ==
    LET k == <<conn, i>> IN
    /\ sock /\ outcome[k] = "pending"
    /\ \/ /\ toServer[conn] = <<>>
          /\ toServer' = [toServer EXCEPT ![conn] = <<i>>]
          /\ UNCHANGED <<client, outcome, toClient>>
       \/ Settle(k, "timeout", toClient) /\ UNCHANGED toServer
    /\ UNCHANGED <<server, answeredBy>>

(* The timer of a call fires: 15 s, or 10 min for a diff. *)
Timeout(i) ==
    LET k == <<conn, i>> IN
    /\ sock /\ outcome[k] = "pending"
    /\ Settle(k, "timeout", toClient)
    /\ UNCHANGED <<toServer, server, answeredBy>>

(* Mutant: replies are matched to calls by their order. *)
ReceiveInOrder ==
    LET m == Head(toClient)
        waiting == {i \in Id : outcome[<<conn, i>>] = "pending"}
    IN
    /\ toClient # <<>>
    /\ \/ /\ waiting = {}
          /\ toClient' = Tail(toClient)
          /\ UNCHANGED <<client, outcome, answeredBy>>
       \/ \E i \in waiting :
            /\ \A j \in waiting : i <= j
            /\ Settle(<<conn, i>>, IF m.ok THEN "success" ELSE "error", Tail(toClient))
            /\ answeredBy' = [answeredBy EXCEPT ![<<conn, i>>] = m.of]
    /\ UNCHANGED <<toServer, server>>

(* What a reply makes of its call.  The result of initialize is checked: it *)
(* may be malformed or of another protocol version.                         *)
OutcomesOf(m) ==
    IF ~m.ok THEN {"error"}
    ELSE IF method[<<conn, m.id>>] = "initialize" THEN {"success", "error"}
    ELSE {"success"}

(* handleMessage: the reply to a call that is not pending is dropped. *)
Receive ==
    LET m == Head(toClient)
        k == <<conn, m.id>>
    IN
    /\ toClient # <<>>
    /\ \/ /\ outcome[k] # "pending"
          /\ toClient' = Tail(toClient)
          /\ UNCHANGED <<client, outcome, answeredBy>>
       \/ /\ outcome[k] = "pending"
          /\ \E o \in OutcomesOf(m) : Settle(k, o, Tail(toClient))
          /\ answeredBy' = [answeredBy EXCEPT ![k] = m.of]
    /\ UNCHANGED <<toServer, server>>

-----------------------------------------------------------------------------
(* The servers *)

(* Mutant: an error is sent without the number of its request. *)
ReplyWithoutId(k, ok) ==
    toClient' = IF sock /\ k[1] = conn
                THEN Append(toClient, [id |-> IF ok THEN k[2] ELSE 0, of |-> k, ok |-> ok])
                ELSE toClient

(* A reply goes to the connection its request came from, if that is open. *)
Reply(k, ok) ==
    toClient' = IF sock /\ k[1] = conn
                THEN Append(toClient, [id |-> k[2], of |-> k, ok |-> ok])
                ELSE toClient

Idle(c) == \A i \in Id : handler[<<c, i>>] = "none"

NextRequest(c, k) ==
    /\ toServer[c] # <<>>
    /\ k = <<c, Head(toServer[c])>>
    /\ toServer' = [toServer EXCEPT ![c] = Tail(@)]

Refused(k) == method[k] # "initialize" /\ k[1] \notin initialized

(* Mutant: initialize is answered but not recorded. *)
AnswerUnrecorded(c, k) ==
    /\ c \notin JetBrains
    /\ NextRequest(c, k)
    /\ Refused(k) \/ method[k] \in {"initialize", "read"}
    /\ IF Refused(k)
       THEN /\ refused' = refused \cup {k}
            /\ Reply(k, FALSE)
            /\ UNCHANGED <<initialized, done>>
       ELSE /\ UNCHANGED initialized
            /\ done' = [done EXCEPT ![k] = @ + 1]
            /\ Reply(k, TRUE)
            /\ UNCHANGED refused
    /\ UNCHANGED <<client, outcome, handler, answeredBy>>

(* server.ts: initialize and the reads are answered in the turn of the      *)
(* event loop in which they arrive; before initialize, everything else is   *)
(* refused in that turn.                                                    *)
Answer(c, k) ==
    /\ c \notin JetBrains
    /\ NextRequest(c, k)
    /\ Refused(k) \/ method[k] \in {"initialize", "read"}
    /\ IF Refused(k)
       THEN /\ refused' = refused \cup {k}
            /\ Reply(k, FALSE)
            /\ UNCHANGED <<initialized, done>>
       ELSE /\ initialized' = initialized \cup {c}
            /\ done' = [done EXCEPT ![k] = @ + 1]
            /\ Reply(k, TRUE)
            /\ UNCHANGED refused
    /\ UNCHANGED <<client, outcome, handler, answeredBy>>

(* server.ts starts any other call and goes on to the next message.  The    *)
(* JetBrains plugin, which asks for no initialize, blocks the connection's  *)
(* worker thread until the reply to the request before has been sent.       *)
Begin(c, k) ==
    /\ NextRequest(c, k)
    /\ IF c \in JetBrains THEN Idle(c)
       ELSE ~Refused(k) /\ method[k] \notin {"initialize", "read"}
    /\ handler' = [handler EXCEPT ![k] = "running"]
    /\ UNCHANGED <<client, outcome, initialized, done, refused, toClient, answeredBy>>

(* The adapter (on the EDT, for JetBrains) carries the call out or throws.  *)
Perform(k) ==
    /\ handler[k] = "running"
    /\ \/ /\ handler' = [handler EXCEPT ![k] = "done"]
          /\ done' = [done EXCEPT ![k] = @ + 1]
       \/ /\ handler' = [handler EXCEPT ![k] = "failed"]
          /\ UNCHANGED done
    /\ UNCHANGED <<client, outcome, toServer, initialized, refused, toClient, answeredBy>>

SendReply(k) ==
    /\ handler[k] \in {"done", "failed"}
    /\ handler' = [handler EXCEPT ![k] = "none"]
    /\ Reply(k, handler[k] = "done")
    /\ UNCHANGED <<client, outcome, toServer, initialized, done, refused, answeredBy>>

-----------------------------------------------------------------------------

Client == Connect \/ Dispose \/ Lose \/ Receive
            \/ \E m \in Tools : Call(m)
            \/ \E i \in Id : Timeout(i)

Server == \E k \in Key : \/ Answer(k[1], k) \/ Begin(k[1], k)
                         \/ Perform(k) \/ SendReply(k)

Next == Client \/ Server

Spec == Init /\ [][Next]_vars

-----------------------------------------------------------------------------
(* Properties *)

TypeOK ==
    /\ conn \in 0..MaxConn
    /\ sock \in BOOLEAN /\ ide \in BOOLEAN
    /\ nextId \in 1..(MaxCalls + 1)
    /\ method \in [Key -> Method]
    /\ outcome \in [Key -> Outcome]
    /\ toServer \in [Conn -> Seq(Id)]
    /\ initialized \subseteq Conn
    /\ handler \in [Key -> {"none", "running", "done", "failed"}]
    /\ toClient \in Seq(Message)
    /\ done \in [Key -> Nat]
    /\ answeredBy \in [Key -> Key]
    /\ refused \subseteq Key

(* A call is settled by the answer to that very call: not by the one to     *)
(* another call that was answered out of order, nor to the call of the same *)
(* number on an earlier connection.                                         *)
AnswerIsOwn == \A k \in Key : answeredBy[k] = k

(* A call that waits is one that can still be answered: it is of the        *)
(* connection in use, whose socket is open.                                 *)
NoneLeftPending == \A k \in Pending : sock /\ k[1] = conn

(* The server never refuses a call of this client for want of initialize,   *)
(* although calls may be made as soon as the socket is open.                *)
NothingRefused == refused = {}

Contract == INSTANCE CallContract WITH
                outcome <- [k \in Key |->
                    IF outcome[k] \in {"unmade", "pending", "success"}
                    THEN outcome[k] ELSE "failure"]

(* Calls are performed at most once and never before they are made, succeed *)
(* only when they were performed, and end once.                             *)
ImplementsContract == Contract!Spec
=============================================================================
