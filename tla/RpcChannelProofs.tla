-------------------------- MODULE RpcChannelProofs ---------------------------
(* Safety of RpcChannel for any number of connections and calls, whatever   *)
(* kind of server each connection leads to.                                 *)
EXTENDS RpcChannel, TLAPS

(* Replies in flight are to calls of the connection in use, and carry the   *)
(* number of the call they answer.                                          *)
RepliesInFlight ==
    \A n \in 1..Len(toClient) : toClient[n].of = <<conn, toClient[n].id>>

(* Call number 1 of every connection so far is its initialize.              *)
InitializeIsFirst ==
    /\ sock => conn # 0
    /\ conn # 0 => nextId # 1
    /\ \A c \in Conn : c <= conn => method[<<c, 1>>] = "initialize"

(* Until a server has seen initialize, it is the first request to be read.  *)
InitializeIsRead ==
    \A c \in Conn :
        /\ toServer[c] # <<>> => c <= conn
        /\ c \notin JetBrains \cup initialized =>
            /\ toServer[c] # <<>> => Head(toServer[c]) = 1
            /\ sock /\ c = conn => toServer[c] # <<>>

IInv ==
    /\ TypeOK
    /\ RepliesInFlight
    /\ NoneLeftPending
    /\ AnswerIsOwn
    /\ InitializeIsFirst
    /\ InitializeIsRead
    /\ NothingRefused

USE DEF Key

LEMMA InitIInv == ASSUME Init PROVE IInv
<1>1. /\ conn = 0 /\ ~sock /\ nextId = 1 /\ toClient = <<>> /\ refused = {}
      /\ toServer = [c \in Conn |-> <<>>] /\ initialized = {}
      /\ outcome = [k \in Key |-> "unmade"] /\ answeredBy = [k \in Key |-> k]
  BY DEF Init
<1>2. TypeOK
  <2>1. 0 \in 0..MaxConn /\ 1 \in 1..(MaxCalls + 1)
    BY ConstantsAssumption
  <2>2. <<>> \in Seq(Id) /\ <<>> \in Seq(Message)
    OBVIOUS
  <2>3. toServer \in [Conn -> Seq(Id)]
    BY <1>1, <2>2
  <2> QED BY <1>1, <2>1, <2>2, <2>3 DEF Init, TypeOK, Method, Outcome
<1>3. RepliesInFlight /\ NoneLeftPending /\ AnswerIsOwn /\ NothingRefused
  BY <1>1 DEF RepliesInFlight, NoneLeftPending, Pending, AnswerIsOwn, NothingRefused
<1>4. InitializeIsFirst /\ InitializeIsRead
  BY <1>1 DEF InitializeIsFirst, InitializeIsRead, Conn
<1> QED BY <1>2, <1>3, <1>4 DEF IInv

(* Letting go of a socket: the calls keep their types, none is pending.     *)
LEMMA DropCallsFacts ==
    ASSUME NEW o \in [Key -> Outcome], DropCalls(o)
    PROVE  /\ outcome' \in [Key -> Outcome]
           /\ \A k \in Key : outcome'[k] # "pending"
           /\ sock' = FALSE /\ ide' = FALSE /\ toClient' = <<>>
           /\ UNCHANGED <<conn, nextId, method>>
BY DEF DropCalls, Outcome

LEMMA ConnectStep == ASSUME IInv, Connect PROVE IInv'
<1> USE ConstantsAssumption
<1>1. conn' = conn + 1 /\ conn' \in Conn /\ conn \in 0..MaxConn
  BY DEF IInv, TypeOK, Connect, Conn
<1>2. 1 \in Id /\ <<conn', 1>> \in Key
  BY <1>1 DEF Id
<1>3. /\ sock' = TRUE /\ ide' = FALSE /\ nextId' = 2 /\ toClient' = <<>>
      /\ method' = [method EXCEPT ![<<conn', 1>>] = "initialize"]
      /\ outcome' = [outcome EXCEPT ![<<conn', 1>>] = "pending"]
      /\ toServer' = [toServer EXCEPT ![conn'] = <<1>>]
      /\ UNCHANGED <<server, answeredBy>>
  BY DEF Connect
<1>4. \A k \in Key : outcome[k] # "pending"
  BY DEF IInv, NoneLeftPending, Pending, Connect
<1>5. TypeOK'
  <2>1. method' \in [Key -> Method] /\ outcome' \in [Key -> Outcome]
    BY <1>2, <1>3 DEF IInv, TypeOK, Method, Outcome
  <2>2. toServer' \in [Conn -> Seq(Id)]
    BY <1>1, <1>2, <1>3 DEF IInv, TypeOK
  <2>3. conn' \in 0..MaxConn /\ nextId' \in 1..(MaxCalls + 1)
    BY <1>1, <1>3 DEF Conn
  <2>4. toClient' \in Seq(Message)
    BY <1>3
  <2> QED BY <1>3, <2>1, <2>2, <2>3, <2>4 DEF IInv, TypeOK, server
<1>6. RepliesInFlight' /\ AnswerIsOwn' /\ NothingRefused'
  BY <1>3 DEF IInv, RepliesInFlight, AnswerIsOwn, NothingRefused, server
<1>7. NoneLeftPending'
  <2>1. \A k \in Key : outcome'[k] = "pending" => k = <<conn', 1>>
    BY <1>3, <1>4 DEF IInv, TypeOK
  <2> QED BY <2>1, <1>3 DEF NoneLeftPending, Pending
<1>8. InitializeIsFirst'
  BY <1>1, <1>2, <1>3 DEF IInv, TypeOK, InitializeIsFirst, Conn
<1>9. InitializeIsRead'
  BY <1>1, <1>2, <1>3 DEF IInv, TypeOK, InitializeIsRead, Conn, server
<1> QED BY <1>5, <1>6, <1>7, <1>8, <1>9 DEF IInv

LEMMA CallStep == ASSUME IInv, NEW m \in Tools, Call(m) PROVE IInv'
<1> USE ConstantsAssumption
<1> DEFINE k == <<conn, nextId>>
<1>1. /\ conn \in Conn /\ nextId \in Id /\ nextId \in Nat /\ nextId # 1
      /\ k \in Key /\ m \in Method
  BY DEF IInv, TypeOK, InitializeIsFirst, Call, Conn, Id, Method
<1>2. /\ sock /\ nextId' = nextId + 1
      /\ method' = [method EXCEPT ![k] = m]
      /\ outcome' = [outcome EXCEPT ![k] = "pending"]
      /\ toServer' = [toServer EXCEPT ![conn] = Append(@, nextId)]
      /\ UNCHANGED <<conn, sock, ide, server, toClient, answeredBy>>
  BY DEF Call
<1>3. TypeOK'
  <2>1. method' \in [Key -> Method] /\ outcome' \in [Key -> Outcome]
    BY <1>1, <1>2 DEF IInv, TypeOK, Outcome
  <2>2. toServer' \in [Conn -> Seq(Id)]
    BY <1>1, <1>2 DEF IInv, TypeOK
  <2>3. nextId' \in 1..(MaxCalls + 1)
    BY <1>1, <1>2 DEF Id
  <2> QED BY <1>2, <2>1, <2>2, <2>3 DEF IInv, TypeOK, server
<1>4. RepliesInFlight' /\ AnswerIsOwn' /\ NothingRefused'
  BY <1>2 DEF IInv, RepliesInFlight, AnswerIsOwn, NothingRefused, server
<1>5. NoneLeftPending'
  BY <1>1, <1>2 DEF IInv, TypeOK, NoneLeftPending, Pending
<1>6. InitializeIsFirst'
  BY <1>1, <1>2 DEF IInv, TypeOK, InitializeIsFirst, Conn
<1>7. InitializeIsRead'
  <2>1. \A c \in Conn : c # conn => toServer'[c] = toServer[c]
    BY <1>2 DEF IInv, TypeOK
  <2>2. /\ toServer[conn] \in Seq(Id)
        /\ toServer'[conn] = Append(toServer[conn], nextId)
    BY <1>1, <1>2 DEF IInv, TypeOK
  <2>3. toServer'[conn] # <<>>
    BY <1>1, <2>2
  <2>4. toServer[conn] # <<>> => Head(toServer'[conn]) = Head(toServer[conn])
    BY <1>1, <2>2
  <2>5. conn <= conn
    BY <1>1 DEF Conn
  <2> QED BY <1>1, <1>2, <2>1, <2>3, <2>4, <2>5 DEF IInv, InitializeIsRead, server
<1> QED BY <1>3, <1>4, <1>5, <1>6, <1>7 DEF IInv

(* Whatever lets go of the socket and leaves the servers' side alone, but   *)
(* for requests that are lost, keeps the invariant.                         *)
LEMMA DropStep ==
    ASSUME IInv, NEW o \in [Key -> Outcome], DropCalls(o),
           NEW lost \in BOOLEAN,
           sock,
           toServer' = IF lost THEN [toServer EXCEPT ![conn] = <<>>] ELSE toServer,
           handler' \in [Key -> {"none", "running", "done", "failed"}],
           UNCHANGED <<initialized, done, refused>>,
           answeredBy' = answeredBy
    PROVE  IInv'
<1> USE ConstantsAssumption
<1>1. /\ outcome' \in [Key -> Outcome]
      /\ \A k \in Key : outcome'[k] # "pending"
      /\ sock' = FALSE /\ ide' = FALSE /\ toClient' = <<>>
      /\ UNCHANGED <<conn, nextId, method>>
  BY DropCallsFacts
<1>2. conn \in Conn
  BY DEF IInv, TypeOK, InitializeIsFirst, Conn
<1>3. toServer' \in [Conn -> Seq(Id)]
  BY <1>2 DEF IInv, TypeOK
<1>4. \A c \in Conn : toServer'[c] = toServer[c] \/ toServer'[c] = <<>>
  BY <1>2 DEF IInv, TypeOK
<1>5. TypeOK'
  <2>1. toClient' \in Seq(Message)
    BY <1>1
  <2> QED BY <1>1, <1>3, <2>1 DEF IInv, TypeOK
<1>6. RepliesInFlight' /\ NoneLeftPending' /\ AnswerIsOwn' /\ NothingRefused'
  BY <1>1 DEF IInv, RepliesInFlight, NoneLeftPending, Pending, AnswerIsOwn, NothingRefused
<1>7. InitializeIsFirst'
  BY <1>1 DEF IInv, InitializeIsFirst
<1>8. InitializeIsRead'
  BY <1>1, <1>4 DEF IInv, InitializeIsRead
<1> QED BY <1>5, <1>6, <1>7, <1>8 DEF IInv

LEMMA DisposeStep == ASSUME IInv, Dispose PROVE IInv'
<1>1. outcome \in [Key -> Outcome] /\ handler' \in [Key -> {"none", "running", "done", "failed"}]
  BY DEF IInv, TypeOK, Dispose, server
<1>2. toServer' = IF FALSE THEN [toServer EXCEPT ![conn] = <<>>] ELSE toServer
  BY DEF Dispose
<1> QED BY <1>1, <1>2, DropStep DEF Dispose, server

LEMMA LoseStep == ASSUME IInv, Lose PROVE IInv'
<1>1. outcome \in [Key -> Outcome] /\ handler' \in [Key -> {"none", "running", "done", "failed"}]
  BY DEF IInv, TypeOK, Lose
<1>2. toServer' = IF TRUE THEN [toServer EXCEPT ![conn] = <<>>] ELSE toServer
  BY DEF Lose
<1> QED BY <1>1, <1>2, DropStep DEF Lose

(* A call of the connection in use ends, and rest is what is still to be    *)
(* received.                                                                *)
LEMMA SettleStep ==
    ASSUME IInv, NEW k \in Key, outcome[k] = "pending",
           NEW o \in Outcome \ {"pending"},
           NEW rest \in Seq(Message),
           \A n \in 1..Len(rest) : rest[n].of = <<conn, rest[n].id>>,
           Settle(k, o, rest),
           UNCHANGED <<toServer, server>>,
           answeredBy' = answeredBy
    PROVE  IInv'
<1>1. sock /\ outcome \in [Key -> Outcome]
  BY DEF IInv, TypeOK, NoneLeftPending, Pending
<1>2. CASE method[k] = "initialize" /\ o # "success"
  <2>1. [outcome EXCEPT ![k] = o] \in [Key -> Outcome]
    BY <1>1
  <2>2. DropCalls([outcome EXCEPT ![k] = o])
    BY <1>2 DEF Settle
  <2>3. handler' \in [Key -> {"none", "running", "done", "failed"}]
    BY DEF IInv, TypeOK, server
  <2>4. toServer' = IF FALSE THEN [toServer EXCEPT ![conn] = <<>>] ELSE toServer
    OBVIOUS
  <2> QED BY <1>1, <2>1, <2>2, <2>3, <2>4, DropStep DEF server
<1>3. CASE ~(method[k] = "initialize" /\ o # "success")
  <2>1. /\ outcome' = [outcome EXCEPT ![k] = o]
        /\ ide' = (ide \/ method[k] = "initialize")
        /\ toClient' = rest
        /\ UNCHANGED <<conn, sock, nextId, method>>
    BY <1>3 DEF Settle
  <2>2. outcome' \in [Key -> Outcome]
    BY <1>1, <2>1
  <2>3. ide' \in BOOLEAN
    BY <2>1 DEF IInv, TypeOK
  <2>4. TypeOK'
    BY <2>1, <2>2, <2>3 DEF IInv, TypeOK, server
  <2>5. RepliesInFlight' /\ AnswerIsOwn' /\ NothingRefused'
    BY <2>1 DEF IInv, RepliesInFlight, AnswerIsOwn, NothingRefused, server
  <2>6. NoneLeftPending'
    BY <1>1, <2>1 DEF IInv, NoneLeftPending, Pending
  <2>7. InitializeIsFirst' /\ InitializeIsRead'
    BY <2>1 DEF IInv, InitializeIsFirst, InitializeIsRead, server
  <2> QED BY <2>4, <2>5, <2>6, <2>7 DEF IInv
<1> QED BY <1>2, <1>3

LEMMA TimeoutStep == ASSUME IInv, NEW i \in Id, Timeout(i) PROVE IInv'
<1>1. conn \in Conn /\ <<conn, i>> \in Key
  BY ConstantsAssumption DEF IInv, TypeOK, InitializeIsFirst, Conn, Timeout
<1>2. "timeout" \in Outcome \ {"pending"} /\ toClient \in Seq(Message)
  BY DEF Outcome, IInv, TypeOK
<1>3. \A n \in 1..Len(toClient) : toClient[n].of = <<conn, toClient[n].id>>
  BY DEF IInv, RepliesInFlight
<1> QED BY <1>1, <1>2, <1>3, SettleStep DEF Timeout

LEMMA ReceiveStep == ASSUME IInv, Receive PROVE IInv'
<1> DEFINE m == Head(toClient)
<1> DEFINE k == <<conn, m.id>>
<1>1. /\ toClient # <<>> /\ toClient \in Seq(Message) /\ 1 \in 1..Len(toClient)
      /\ m = toClient[1] /\ m \in Message
  BY DEF Receive, IInv, TypeOK
<1>2. m.of = k /\ k \in Key
  BY <1>1 DEF IInv, RepliesInFlight, Message
<1>3. /\ Tail(toClient) \in Seq(Message)
      /\ \A n \in 1..Len(Tail(toClient)) :
            Tail(toClient)[n].of = <<conn, Tail(toClient)[n].id>>
  BY <1>1 DEF IInv, RepliesInFlight
<1> HIDE DEF m, k
<1>4. CASE outcome[k] # "pending"
  <2>1. /\ toClient' = Tail(toClient)
        /\ UNCHANGED <<client, outcome, answeredBy, toServer, server>>
    BY <1>4 DEF Receive, m, k
  <2>2. TypeOK'
    BY <1>3, <2>1 DEF IInv, TypeOK, client, server
  <2>3. RepliesInFlight' /\ NoneLeftPending' /\ AnswerIsOwn' /\ NothingRefused'
    BY <1>3, <2>1 DEF IInv, RepliesInFlight, NoneLeftPending, Pending, AnswerIsOwn,
                      NothingRefused, client, server
  <2>4. InitializeIsFirst' /\ InitializeIsRead'
    BY <2>1 DEF IInv, InitializeIsFirst, InitializeIsRead, client, server
  <2> QED BY <2>2, <2>3, <2>4 DEF IInv
<1>5. CASE outcome[k] = "pending"
  <2>1. PICK o \in OutcomesOf(m) : Settle(k, o, Tail(toClient))
    BY <1>5 DEF Receive, m, k
  <2>2. o \in Outcome \ {"pending"}
    BY DEF OutcomesOf, Outcome
  <2>3. answeredBy' = [answeredBy EXCEPT ![k] = k] /\ UNCHANGED <<toServer, server>>
    BY <1>2, <1>5 DEF Receive, m, k
  <2>4. answeredBy' = answeredBy
    BY <1>2, <2>3 DEF IInv, TypeOK, AnswerIsOwn
  <2> QED BY <1>2, <1>3, <1>5, <2>1, <2>2, <2>3, <2>4, SettleStep
<1> QED BY <1>4, <1>5

(* A step of a server: it reads at most one request, and one that is not    *)
(* the first only of a connection that has seen initialize.                 *)
LEMMA ServerStep ==
    ASSUME IInv,
           UNCHANGED <<client, outcome, refused, answeredBy>>,
           toClient' \in Seq(Message),
           \A n \in 1..Len(toClient') : toClient'[n].of = <<conn, toClient'[n].id>>,
           handler' \in [Key -> {"none", "running", "done", "failed"}],
           done' \in [Key -> Nat],
           initialized \subseteq initialized', initialized' \subseteq Conn,
           toServer' \in [Conn -> Seq(Id)],
           \A c \in Conn :
                \/ toServer'[c] = toServer[c]
                \/ /\ c \in JetBrains \cup initialized'
                   /\ toServer[c] # <<>>
    PROVE  IInv'
<1>1. TypeOK'
  BY DEF IInv, TypeOK, client
<1>2. RepliesInFlight' /\ NoneLeftPending' /\ AnswerIsOwn' /\ NothingRefused'
  BY DEF IInv, RepliesInFlight, NoneLeftPending, Pending, AnswerIsOwn, NothingRefused, client
<1>3. InitializeIsFirst' /\ InitializeIsRead'
  BY DEF IInv, InitializeIsFirst, InitializeIsRead, client
<1> QED BY <1>1, <1>2, <1>3 DEF IInv

LEMMA ReplyFacts ==
    ASSUME IInv, NEW k \in Key, NEW ok \in BOOLEAN, Reply(k, ok)
    PROVE  /\ toClient' \in Seq(Message)
           /\ \A n \in 1..Len(toClient') : toClient'[n].of = <<conn, toClient'[n].id>>
<1> DEFINE r == [id |-> k[2], of |-> k, ok |-> ok]
<1>1. r \in Message /\ k = <<k[1], k[2]>>
  BY DEF Message
<1>2. toClient \in Seq(Message)
  BY DEF IInv, TypeOK
<1>3. CASE sock /\ k[1] = conn
  <2>1. toClient' = Append(toClient, r)
    BY <1>3 DEF Reply
  <2>2. r.of = <<conn, r.id>>
    BY <1>1, <1>3
  <2> HIDE DEF r
  <2>3. toClient' \in Seq(Message) /\ Len(toClient') = Len(toClient) + 1
    BY <1>1, <1>2, <2>1
  <2>4. ASSUME NEW n \in 1..Len(toClient')
        PROVE  toClient'[n].of = <<conn, toClient'[n].id>>
    <3>1. CASE n = Len(toClient) + 1
      BY <1>1, <1>2, <2>1, <2>2, <3>1
    <3>2. CASE n \in 1..Len(toClient)
      <4>1. toClient'[n] = toClient[n]
        BY <1>1, <1>2, <2>1, <3>2
      <4> QED BY <3>2, <4>1 DEF IInv, RepliesInFlight
    <3> QED BY <1>2, <2>3, <3>1, <3>2
  <2> QED BY <2>3, <2>4
<1>4. CASE ~(sock /\ k[1] = conn)
  BY <1>2, <1>4 DEF Reply, IInv, RepliesInFlight
<1> QED BY <1>3, <1>4

LEMMA NextRequestFacts ==
    ASSUME IInv, NEW c \in Conn, NEW k \in Key, NextRequest(c, k)
    PROVE  /\ k = <<c, Head(toServer[c])>> /\ k[1] = c
           /\ toServer[c] # <<>>
           /\ toServer' \in [Conn -> Seq(Id)]
           /\ \A d \in Conn : d # c => toServer'[d] = toServer[d]
<1>1. toServer \in [Conn -> Seq(Id)]
  BY DEF IInv, TypeOK
<1>2. Tail(toServer[c]) \in Seq(Id)
  BY <1>1 DEF NextRequest
<1> QED BY <1>1, <1>2 DEF NextRequest

(* The client's own calls are never refused. *)
LEMMA NeverRefuses ==
    ASSUME IInv, NEW c \in Conn, NEW k \in Key, c \notin JetBrains, NextRequest(c, k)
    PROVE  ~Refused(k)
<1>1. k = <<c, Head(toServer[c])>> /\ k[1] = c /\ toServer[c] # <<>>
  BY NextRequestFacts
<1>2. c \notin initialized => k = <<c, 1>>
  BY <1>1 DEF IInv, InitializeIsRead
<1>3. method[<<c, 1>>] = "initialize"
  BY <1>1 DEF IInv, InitializeIsRead, InitializeIsFirst
<1> QED BY <1>1, <1>2, <1>3 DEF Refused

LEMMA AnswerStep == ASSUME IInv, NEW c \in Conn, NEW k \in Key, Answer(c, k) PROVE IInv'
<1>1. /\ NextRequest(c, k) /\ Reply(k, TRUE)
      /\ initialized' = initialized \cup {c}
      /\ done' = [done EXCEPT ![k] = @ + 1]
      /\ UNCHANGED <<client, outcome, handler, refused, answeredBy>>
  BY NeverRefuses DEF Answer
<1>2. /\ toClient' \in Seq(Message)
      /\ \A n \in 1..Len(toClient') : toClient'[n].of = <<conn, toClient'[n].id>>
  BY <1>1, ReplyFacts
<1>3. /\ toServer[c] # <<>> /\ toServer' \in [Conn -> Seq(Id)]
      /\ \A d \in Conn : d # c => toServer'[d] = toServer[d]
  BY <1>1, NextRequestFacts
<1>4. done' \in [Key -> Nat]
  BY <1>1 DEF IInv, TypeOK
<1>5. handler' \in [Key -> {"none", "running", "done", "failed"}]
  BY <1>1 DEF IInv, TypeOK
<1>6. initialized' = initialized \cup {c} /\ initialized' \subseteq Conn
  BY <1>1 DEF IInv, TypeOK
<1> QED BY <1>1, <1>2, <1>3, <1>4, <1>5, <1>6, ServerStep

LEMMA BeginStep == ASSUME IInv, NEW c \in Conn, NEW k \in Key, Begin(c, k) PROVE IInv'
<1>1. /\ k[1] = c /\ toServer[c] # <<>> /\ toServer' \in [Conn -> Seq(Id)]
      /\ \A d \in Conn : d # c => toServer'[d] = toServer[d]
  BY NextRequestFacts DEF Begin
<1>2. c \in JetBrains \cup initialized
  BY <1>1 DEF Begin, Refused
<1>3. /\ UNCHANGED <<client, outcome, initialized, done, refused, toClient, answeredBy>>
      /\ handler' = [handler EXCEPT ![k] = "running"]
  BY DEF Begin
<1>4. /\ handler' \in [Key -> {"none", "running", "done", "failed"}]
      /\ done' \in [Key -> Nat] /\ initialized' \subseteq Conn
      /\ toClient' \in Seq(Message)
      /\ \A n \in 1..Len(toClient') : toClient'[n].of = <<conn, toClient'[n].id>>
  BY <1>3 DEF IInv, TypeOK, RepliesInFlight
<1> QED BY <1>1, <1>2, <1>3, <1>4, ServerStep

LEMMA PerformStep == ASSUME IInv, NEW k \in Key, Perform(k) PROVE IInv'
<1>1. /\ handler' \in [Key -> {"none", "running", "done", "failed"}]
      /\ done' \in [Key -> Nat]
  <2>1. /\ handler \in [Key -> {"none", "running", "done", "failed"}]
        /\ done \in [Key -> Nat] /\ done[k] + 1 \in Nat
    BY DEF IInv, TypeOK
  <2>2. CASE handler' = [handler EXCEPT ![k] = "done"] /\ done' = [done EXCEPT ![k] = @ + 1]
    BY <2>1, <2>2
  <2>3. CASE handler' = [handler EXCEPT ![k] = "failed"] /\ UNCHANGED done
    BY <2>1, <2>3
  <2> QED BY <2>2, <2>3 DEF Perform
<1>2. UNCHANGED <<client, outcome, toServer, initialized, refused, toClient, answeredBy>>
  BY DEF Perform
<1>3. /\ initialized' \subseteq Conn /\ toServer' \in [Conn -> Seq(Id)]
      /\ toClient' \in Seq(Message)
      /\ \A n \in 1..Len(toClient') : toClient'[n].of = <<conn, toClient'[n].id>>
  BY <1>2 DEF IInv, TypeOK, RepliesInFlight
<1> QED BY <1>1, <1>2, <1>3, ServerStep

LEMMA SendReplyStep == ASSUME IInv, NEW k \in Key, SendReply(k) PROVE IInv'
<1>1. UNCHANGED <<client, outcome, toServer, initialized, done, refused, answeredBy>>
  BY DEF SendReply
<1>2. /\ toClient' \in Seq(Message)
      /\ \A n \in 1..Len(toClient') : toClient'[n].of = <<conn, toClient'[n].id>>
  BY ReplyFacts, (handler[k] = "done") \in BOOLEAN DEF SendReply
<1>3. /\ handler' \in [Key -> {"none", "running", "done", "failed"}]
      /\ done' \in [Key -> Nat] /\ initialized' \subseteq Conn
      /\ toServer' \in [Conn -> Seq(Id)]
  BY <1>1 DEF SendReply, IInv, TypeOK
<1> QED BY <1>1, <1>2, <1>3, ServerStep

LEMMA NextIInv == ASSUME IInv, [Next]_vars PROVE IInv'
<1>1. CASE UNCHANGED vars
  <2>1. UNCHANGED <<client, outcome, refused, answeredBy, toClient, handler, done,
                    initialized, toServer>>
    BY <1>1 DEF vars, server
  <2> QED BY <2>1, ServerStep DEF IInv, TypeOK, RepliesInFlight
<1>2. CASE Client
  BY <1>2, ConnectStep, DisposeStep, LoseStep, ReceiveStep, CallStep, TimeoutStep DEF Client
<1>3. CASE Server
  <2>1. PICK k \in Key : \/ Answer(k[1], k) \/ Begin(k[1], k)
                         \/ Perform(k) \/ SendReply(k)
    BY <1>3 DEF Server
  <2>2. k[1] \in Conn
    OBVIOUS
  <2> QED BY <2>1, <2>2, AnswerStep, BeginStep, PerformStep, SendReplyStep
<1> QED BY <1>1, <1>2, <1>3 DEF Next

LEMMA IInvHolds == Spec => []IInv
BY InitIInv, NextIInv, PTL DEF Spec

(* Every reachable state is well typed. *)
THEOREM TypeCorrect == Spec => []TypeOK
BY IInvHolds, PTL DEF IInv

(* A call is settled by the answer to that very call, over any number of    *)
(* connections that number their calls from 1 (BridgeClient.pending).       *)
THEOREM AnswerIsOwnHolds == Spec => []AnswerIsOwn
BY IInvHolds, PTL DEF IInv

(* No call waits for a connection that is gone (handleSocketClosed).        *)
THEOREM NoneLeftPendingHolds == Spec => []NoneLeftPending
BY IInvHolds, PTL DEF IInv

(* No call of this client reaches a server that has not seen initialize.    *)
THEOREM NothingRefusedHolds == Spec => []NothingRefused
BY IInvHolds, PTL DEF IInv
=============================================================================
