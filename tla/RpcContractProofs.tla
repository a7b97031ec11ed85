-------------------------- MODULE RpcContractProofs --------------------------
(* RpcChannel implements CallContract, for any number of connections and    *)
(* calls, whatever kind of server each connection leads to.                 *)
EXTENDS RpcChannelProofs

(* Call i of connection c has been sent and not been read.                  *)
Queued(c, i) == \E n \in 1..Len(toServer[c]) : toServer[c][n] = i

(* Where a call is: not made and not begun, sent and not begun, or begun.   *)
(* The numbers from nextId on are still to be given.                        *)
CallOK(c, i) ==
    LET k == <<c, i>> IN
    /\ outcome[k] = "unmade" \/ Queued(c, i) => handler[k] = "none" /\ done[k] = 0
    /\ outcome[k] = "unmade" => ~Queued(c, i)
    /\ handler[k] = "running" => done[k] = 0
    /\ handler[k] = "done" => done[k] = 1
    /\ c > conn \/ (c = conn /\ i >= nextId) => outcome[k] = "unmade"

CallsOK == \A c \in Conn, i \in Id : CallOK(c, i)

(* No request is sent twice.                                                *)
SentOnce ==
    \A c \in Conn : \A i, j \in 1..Len(toServer[c]) :
        i # j => toServer[c][i] # toServer[c][j]

(* A positive reply in flight is to a call that was performed.              *)
RepliesAreTrue ==
    \A n \in 1..Len(toClient) : toClient[n].ok => done[toClient[n].of] = 1

CInv == CallsOK /\ SentOnce /\ RepliesAreTrue

-----------------------------------------------------------------------------
(* Steps of the contract *)

Failed == {"error", "timeout", "dropped"}

LEMMA MakeMaps ==
    ASSUME TypeOK, NEW k \in Key, outcome[k] = "unmade",
           outcome' = [outcome EXCEPT ![k] = "pending"], done' = done
    PROVE  Contract!Make(k)
BY DEF Contract!Make, TypeOK

LEMMA PerformMaps ==
    ASSUME TypeOK, NEW k \in Key, outcome[k] # "unmade", done[k] = 0,
           outcome' = outcome, done' = [done EXCEPT ![k] = @ + 1]
    PROVE  Contract!Perform(k)
BY DEF Contract!Perform, TypeOK

LEMMA SucceedMaps ==
    ASSUME TypeOK, NEW k \in Key, outcome[k] = "pending", done[k] = 1,
           outcome' = [outcome EXCEPT ![k] = "success"], done' = done
    PROVE  Contract!Succeed(k)
BY DEF Contract!Succeed, TypeOK

LEMMA GiveUpMaps ==
    ASSUME TypeOK, NEW K \in SUBSET Key, \A k \in K : outcome[k] = "pending",
           \A k \in K : outcome'[k] \in Failed,
           \A k \in Key \ K : outcome'[k] = outcome[k],
           done' = done
    PROVE  Contract!GiveUp(K)
BY DEF Contract!GiveUp, TypeOK, Failed

(* Letting go of the socket, with the outcomes o so far.                    *)
LEMMA DropMaps ==
    ASSUME TypeOK, NEW o \in [Key -> Outcome], DropCalls(o), done' = done,
           \A k \in Key : o[k] = outcome[k] \/ (outcome[k] = "pending" /\ o[k] \in Failed)
    PROVE  Contract!Next
<1>1. Pending \in SUBSET Key /\ \A k \in Pending : outcome[k] = "pending"
  BY DEF Pending
<1>2. \A k \in Pending : outcome'[k] \in Failed
  BY DEF Pending, DropCalls, Failed
<1>3. \A k \in Key \ Pending : outcome'[k] = outcome[k]
  BY DEF Pending, DropCalls
<1>4. PICK K \in SUBSET Key : K = Pending
  BY <1>1
<1>5. Contract!GiveUp(K)
  BY <1>1, <1>2, <1>3, <1>4, GiveUpMaps
<1> QED BY <1>5 DEF Contract!Next

(* The end of one call: a reply says that it was performed, or it fails.    *)
LEMMA SettleMaps ==
    ASSUME IInv, NEW k \in Key, outcome[k] = "pending", done' = done,
           NEW o \in Failed \cup {"success"}, o = "success" => done[k] = 1,
           NEW rest, Settle(k, o, rest)
    PROVE  Contract!Next
<1>1. TypeOK
  BY DEF IInv
<1>2. CASE method[k] = "initialize" /\ o # "success"
  <2>1. [outcome EXCEPT ![k] = o] \in [Key -> Outcome]
    BY <1>1 DEF TypeOK, Failed, Outcome
  <2>2. DropCalls([outcome EXCEPT ![k] = o])
    BY <1>2 DEF Settle
  <2>3. o \in Failed /\ outcome \in [Key -> Outcome]
    BY <1>1, <1>2 DEF TypeOK
  <2> QED BY <1>1, <2>1, <2>2, <2>3, DropMaps
<1>3. CASE ~(method[k] = "initialize" /\ o # "success")
  <2>1. outcome' = [outcome EXCEPT ![k] = o]
    BY <1>3 DEF Settle
  <2>2. CASE o = "success"
    <3>1. Contract!Succeed(k)
      BY <1>1, <2>1, <2>2, SucceedMaps
    <3> QED BY <3>1 DEF Contract!Next
  <2>3. CASE o # "success"
    <3>1. {k} \in SUBSET Key /\ \A l \in {k} : outcome[l] = "pending"
      OBVIOUS
    <3>2. /\ \A l \in {k} : outcome'[l] \in Failed
          /\ \A l \in Key \ {k} : outcome'[l] = outcome[l]
      BY <1>1, <2>1, <2>3 DEF TypeOK
    <3>3. Contract!GiveUp({k})
      BY <1>1, <3>1, <3>2, GiveUpMaps
    <3> QED BY <3>1, <3>3 DEF Contract!Next
  <2> QED BY <2>2, <2>3
<1> QED BY <1>2, <1>3

-----------------------------------------------------------------------------
(* Steps of the client *)

(* A step that makes no call: it may settle some and lose requests and      *)
(* handlers, and adds nothing to what is in flight to the client.           *)
LEMMA NoCallKeeps ==
    ASSUME IInv, CInv, UNCHANGED <<conn, nextId, done>>,
           \A k \in Key : outcome'[k] = "unmade" <=> outcome[k] = "unmade",
           \A k \in Key : handler'[k] \in {handler[k], "none"},
           \A c \in Conn : toServer'[c] \in {toServer[c], <<>>},
           \/ toClient' = toClient \/ toClient' = <<>>
           \/ toClient # <<>> /\ toClient' = Tail(toClient)
    PROVE  CInv'
<1>1. ASSUME NEW c \in Conn, NEW i \in Id, Queued(c, i)' PROVE Queued(c, i)
  <2>1. toServer'[c] # <<>>
    BY <1>1 DEF Queued
  <2>2. toServer'[c] = toServer[c]
    BY <2>1
  <2> QED BY <1>1, <2>2 DEF Queued
<1>2. ASSUME NEW c \in Conn, NEW i \in Id PROVE CallOK(c, i)'
  <2>1. <<c, i>> \in Key /\ CallOK(c, i)
    BY DEF Key, CInv, CallsOK
  <2> QED BY <1>1, <2>1 DEF CallOK
<1>3. SentOnce'
  <2>1. SentOnce
    BY DEF CInv
  <2> QED BY <2>1 DEF SentOnce
<1>4. RepliesAreTrue'
  <2>1. RepliesAreTrue /\ toClient \in Seq(Message)
    BY DEF CInv, IInv, TypeOK
  <2> QED BY <2>1 DEF RepliesAreTrue
<1> QED BY <1>2, <1>3, <1>4 DEF CInv, CallsOK

(* A call is made: the next number of the connection, or the first of the   *)
(* next connection.                                                         *)
LEMMA MakeKeeps ==
    ASSUME IInv, CInv, NEW c \in Conn, NEW i \in Id,
           outcome[<<c, i>>] = "unmade",
           outcome' = [outcome EXCEPT ![<<c, i>>] = "pending"],
           conn' = c, nextId' = i + 1,
           \/ c = conn /\ i = nextId
           \/ c = conn + 1 /\ i = 1,
           \/ toServer' = [toServer EXCEPT ![c] = Append(@, i)]
           \/ toServer' = [toServer EXCEPT ![c] = <<i>>],
           UNCHANGED <<handler, done>>,
           toClient' = toClient \/ toClient' = <<>>
    PROVE  CInv'
<1>1. TypeOK /\ SentOnce /\ RepliesAreTrue /\ CallOK(c, i) /\ ~Queued(c, i)
  BY DEF IInv, CInv, CallsOK, CallOK
<1>2. toServer[c] \in Seq(Id) /\ \A n \in 1..Len(toServer[c]) : toServer[c][n] # i
  BY <1>1 DEF TypeOK, Queued
<1>3. \A d \in Conn : d # c => toServer'[d] = toServer[d]
  BY <1>1 DEF TypeOK
<1>4. \/ toServer'[c] = Append(toServer[c], i)
      \/ toServer'[c] = <<i>>
  BY <1>1 DEF TypeOK
<1>5. SentOnce'
  <2>1. ASSUME NEW d \in Conn, d # c, NEW a \in 1..Len(toServer'[d]),
               NEW b \in 1..Len(toServer'[d]), a # b
        PROVE  toServer'[d][a] # toServer'[d][b]
    BY <1>1, <1>3, <2>1 DEF SentOnce
  <2>2. ASSUME NEW a \in 1..Len(toServer'[c]), NEW b \in 1..Len(toServer'[c]), a # b
        PROVE  toServer'[c][a] # toServer'[c][b]
    <3>1. CASE toServer'[c] = Append(toServer[c], i)
      <4>1. \A x, y \in 1..Len(toServer[c]) : x # y => toServer[c][x] # toServer[c][y]
        BY <1>1 DEF SentOnce
      <4> QED BY <1>2, <2>2, <3>1, <4>1
    <3>2. CASE toServer'[c] = <<i>>
      BY <2>2, <3>2
    <3> QED BY <1>4, <3>1, <3>2
  <2> QED BY <2>1, <2>2 DEF SentOnce
<1>6. ASSUME NEW d \in Conn, NEW j \in Id, d # c \/ j # i, Queued(d, j)'
      PROVE  Queued(d, j)
  <2>1. CASE d # c
    BY <1>3, <1>6, <2>1 DEF Queued
  <2>2. CASE d = c
    <3>1. PICK n \in 1..Len(toServer'[c]) : toServer'[c][n] = j
      BY <1>6, <2>2 DEF Queued
    <3>2. n \in 1..Len(toServer[c]) /\ toServer[c][n] = j
      <4>1. CASE toServer'[c] = Append(toServer[c], i)
        BY <1>2, <1>6, <2>2, <3>1, <4>1
      <4>2. CASE toServer'[c] = <<i>>
        BY <1>6, <2>2, <3>1, <4>2
      <4> QED BY <1>4, <4>1, <4>2
    <3> QED BY <2>2, <3>2 DEF Queued
  <2> QED BY <2>1, <2>2
<1>7. ASSUME NEW d \in Conn, NEW j \in Id PROVE CallOK(d, j)'
  <2>1. CASE d = c /\ j = i
    <3>1. outcome'[<<c, i>>] = "pending"
      BY <1>1 DEF TypeOK, Key
    <3>2. ~(c > c \/ (c = c /\ i >= i + 1))
      BY ConstantsAssumption DEF Conn, Id
    <3> QED BY <1>1, <2>1, <3>1, <3>2 DEF CallOK
  <2>2. CASE d # c \/ j # i
    <3>1. CallOK(d, j) /\ <<d, j>> # <<c, i>>
      BY <2>2 DEF CInv, CallsOK
    <3>2. outcome'[<<d, j>>] = outcome[<<d, j>>]
      BY <1>1, <3>1 DEF TypeOK, Key
    <3>3. d \in Nat /\ j \in Nat /\ c \in Nat /\ i \in Nat /\ conn \in Nat /\ nextId \in Nat
      BY <1>1, ConstantsAssumption DEF Conn, Id, TypeOK
    <3>4. 1 <= j
      BY ConstantsAssumption DEF Id
    <3>5. d > c \/ (d = c /\ j >= i + 1) => d > conn \/ (d = conn /\ j >= nextId)
      BY <3>3, <3>4
    <3> QED BY <1>6, <2>2, <3>1, <3>2, <3>5 DEF CallOK
  <2> QED BY <2>1, <2>2
<1>8. RepliesAreTrue'
  BY <1>1 DEF RepliesAreTrue
<1> QED BY <1>5, <1>7, <1>8 DEF CInv, CallsOK

LEMMA ConnectContract == ASSUME IInv, CInv, Connect PROVE CInv' /\ Contract!Next
<1>1. TypeOK /\ conn + 1 \in Conn /\ 1 \in Id /\ conn \in Nat
  BY ConstantsAssumption DEF IInv, TypeOK, Connect, Conn, Id
<1>2. PICK c \in Conn : c = conn + 1
  BY <1>1
<1>3. PICK k \in Key : k = <<c, 1>>
  BY <1>1 DEF Key
<1>4. CallOK(c, 1) /\ c > conn
  BY <1>1, <1>2 DEF CInv, CallsOK
<1>5. outcome[k] = "unmade"
  BY <1>3, <1>4 DEF CallOK
<1>6. /\ outcome' = [outcome EXCEPT ![k] = "pending"]
      /\ toServer' = [toServer EXCEPT ![c] = <<1>>]
      /\ conn' = c /\ nextId' = 1 + 1 /\ toClient' = <<>>
      /\ UNCHANGED <<handler, done>>
  BY <1>2, <1>3 DEF Connect, server
<1>7. CInv'
  BY <1>1, <1>2, <1>3, <1>5, <1>6, MakeKeeps
<1>8. Contract!Make(k)
  BY <1>1, <1>5, <1>6, MakeMaps
<1> QED BY <1>7, <1>8 DEF Contract!Next

LEMMA CallContractStep ==
    ASSUME IInv, CInv, NEW m \in Tools, Call(m)
    PROVE  CInv' /\ Contract!Next
<1>1. TypeOK /\ conn \in Conn /\ nextId \in Id
  BY ConstantsAssumption DEF IInv, TypeOK, InitializeIsFirst, Call, Conn, Id
<1>2. PICK c \in Conn, i \in Id : c = conn /\ i = nextId
  BY <1>1
<1>3. PICK k \in Key : k = <<c, i>>
  BY DEF Key
<1>4. CallOK(c, i) /\ i >= nextId
  BY <1>2, ConstantsAssumption DEF CInv, CallsOK, Id
<1>5. outcome[k] = "unmade"
  BY <1>2, <1>3, <1>4 DEF CallOK
<1>6. /\ outcome' = [outcome EXCEPT ![k] = "pending"]
      /\ toServer' = [toServer EXCEPT ![c] = Append(@, i)]
      /\ conn' = c /\ nextId' = i + 1
      /\ UNCHANGED <<handler, done, toClient>>
  BY <1>2, <1>3 DEF Call, server
<1>7. CInv'
  BY <1>2, <1>3, <1>5, <1>6, MakeKeeps
<1>8. Contract!Make(k)
  BY <1>1, <1>5, <1>6, MakeMaps
<1> QED BY <1>7, <1>8 DEF Contract!Next

LEMMA DropKeeps ==
    ASSUME IInv, CInv, DropCalls(outcome), done' = done,
           \A k \in Key : handler'[k] \in {handler[k], "none"},
           \A c \in Conn : toServer'[c] \in {toServer[c], <<>>}
    PROVE  CInv' /\ Contract!Next
<1>1. TypeOK /\ outcome \in [Key -> Outcome]
  BY DEF IInv, TypeOK
<1>2. UNCHANGED <<conn, nextId, done>> /\ toClient' = <<>>
  BY DEF DropCalls
<1>3. \A k \in Key : outcome'[k] = "unmade" <=> outcome[k] = "unmade"
  BY DEF DropCalls
<1>4. CInv'
  BY <1>2, <1>3, NoCallKeeps
<1>5. Contract!Next
  BY <1>1, DropMaps
<1> QED BY <1>4, <1>5

LEMMA DisposeContract == ASSUME IInv, CInv, Dispose PROVE CInv' /\ Contract!Next
<1>1. DropCalls(outcome) /\ toServer' = toServer /\ handler' = handler /\ done' = done
  BY DEF Dispose, server
<1> QED BY <1>1, DropKeeps

LEMMA LoseContract == ASSUME IInv, CInv, Lose PROVE CInv' /\ Contract!Next
<1>1. DropCalls(outcome) /\ done' = done
  BY DEF Lose
<1>2. \A c \in Conn : toServer'[c] \in {toServer[c], <<>>}
  BY DEF Lose, IInv, TypeOK
<1>3. \A k \in Key : handler'[k] \in {handler[k], "none"}
  BY DEF Lose
<1> QED BY <1>1, <1>2, <1>3, DropKeeps

LEMMA SettleKeeps ==
    ASSUME IInv, CInv, NEW k \in Key, outcome[k] = "pending",
           NEW o \in Failed \cup {"success"}, NEW rest, Settle(k, o, rest),
           rest = toClient \/ (toClient # <<>> /\ rest = Tail(toClient)),
           toServer' = toServer, handler' = handler, done' = done
    PROVE  CInv'
<1>1. outcome \in [Key -> Outcome]
  BY DEF IInv, TypeOK
<1>2. o # "unmade"
  BY DEF Failed
<1>3. /\ UNCHANGED <<conn, nextId>>
      /\ toClient' = rest \/ toClient' = <<>>
  BY DEF Settle, DropCalls
<1>4. ASSUME NEW l \in Key PROVE outcome'[l] = "unmade" <=> outcome[l] = "unmade"
  <2>1. CASE l = k
    BY <1>1, <1>2, <2>1 DEF Settle, DropCalls
  <2>2. CASE l # k
    BY <1>1, <2>2 DEF Settle, DropCalls
  <2> QED BY <2>1, <2>2
<1>5. \A c \in Conn : toServer'[c] \in {toServer[c], <<>>}
  OBVIOUS
<1>6. \A l \in Key : handler'[l] \in {handler[l], "none"}
  OBVIOUS
<1>7. \/ toClient' = toClient \/ toClient' = <<>>
      \/ toClient # <<>> /\ toClient' = Tail(toClient)
  BY <1>3
<1> QED BY <1>3, <1>4, <1>5, <1>6, <1>7, NoCallKeeps

LEMMA TimeoutContract == ASSUME IInv, CInv, NEW i \in Id, Timeout(i) PROVE CInv' /\ Contract!Next
<1>1. conn \in Conn
  BY ConstantsAssumption DEF IInv, TypeOK, InitializeIsFirst, Conn, Timeout
<1>2. PICK k \in Key : k = <<conn, i>>
  BY <1>1 DEF Key
<1>3. /\ outcome[k] = "pending" /\ Settle(k, "timeout", toClient)
      /\ toServer' = toServer /\ handler' = handler /\ done' = done
  BY <1>2 DEF Timeout, server
<1>4. "timeout" \in Failed
  BY DEF Failed
<1>5. CInv'
  BY <1>3, <1>4, SettleKeeps
<1>6. Contract!Next
  BY <1>3, <1>4, SettleMaps
<1> QED BY <1>5, <1>6

LEMMA ReceiveContract ==
    ASSUME IInv, CInv, Receive
    PROVE  CInv' /\ [Contract!Next]_Contract!vars
<1> DEFINE m == Head(toClient)
<1>1. /\ toClient # <<>> /\ toClient \in Seq(Message) /\ 1 \in 1..Len(toClient)
      /\ m = toClient[1] /\ m \in Message
  BY DEF Receive, IInv, TypeOK
<1>2. m.of = <<conn, m.id>> /\ m.of \in Key /\ m.ok \in BOOLEAN
  BY <1>1 DEF IInv, RepliesInFlight, Message
<1>3. m.ok => done[m.of] = 1
  BY <1>1 DEF CInv, RepliesAreTrue
<1>4. PICK k \in Key : k = m.of
  BY <1>2
<1>5. toServer' = toServer /\ handler' = handler /\ done' = done
  BY DEF Receive, server
<1>6. CASE outcome[k] # "pending"
  <2>1. toClient' = Tail(toClient) /\ UNCHANGED <<client, outcome>>
    BY <1>2, <1>4, <1>6 DEF Receive
  <2>2. CInv'
    BY <1>1, <1>5, <2>1, NoCallKeeps DEF client
  <2> QED BY <1>5, <2>1, <2>2 DEF Contract!vars
<1>7. CASE outcome[k] = "pending"
  <2>1. PICK o \in OutcomesOf(m) : Settle(k, o, Tail(toClient))
    BY <1>2, <1>4, <1>7 DEF Receive
  <2>2. o \in Failed \cup {"success"} /\ (o = "success" => m.ok)
    BY <1>2 DEF OutcomesOf, Failed
  <2>3. CInv'
    BY <1>1, <1>5, <1>7, <2>1, <2>2, SettleKeeps
  <2>4. Contract!Next
    BY <1>3, <1>4, <1>5, <1>7, <2>1, <2>2, SettleMaps
  <2> QED BY <2>3, <2>4
<1> QED BY <1>6, <1>7

-----------------------------------------------------------------------------
(* Steps of a server *)

(* Reading a request takes it out of its queue, where it was once.          *)
LEMMA ReadFacts ==
    ASSUME IInv, CInv, NEW c \in Conn, NEW i \in Id, NextRequest(c, <<c, i>>)
    PROVE  /\ Queued(c, i) /\ ~Queued(c, i)'
           /\ \A d \in Conn, j \in Id : Queued(d, j)' => Queued(d, j)
           /\ SentOnce'
<1>1. toServer \in [Conn -> Seq(Id)] /\ SentOnce
  BY DEF IInv, TypeOK, CInv
<1>2. PICK s \in Seq(Id) : s = toServer[c]
  BY <1>1
<1>3. s # <<>> /\ i = Head(s) /\ toServer' = [toServer EXCEPT ![c] = Tail(s)]
  BY <1>1, <1>2 DEF NextRequest
<1>4. toServer'[c] = Tail(s) /\ \A d \in Conn : d # c => toServer'[d] = toServer[d]
  BY <1>1, <1>3
<1>5. /\ Len(s) \in Nat \ {0} /\ s[1] = i /\ Len(Tail(s)) = Len(s) - 1
      /\ \A n \in 1..Len(Tail(s)) : n + 1 \in 1..Len(s) /\ Tail(s)[n] = s[n + 1]
  BY <1>3
<1>6. \A a, b \in 1..Len(s) : a # b => s[a] # s[b]
  BY <1>1, <1>2 DEF SentOnce
<1>7. Queued(c, i)
  BY <1>2, <1>5 DEF Queued
<1>8. ~Queued(c, i)'
  <2> SUFFICES ASSUME NEW n \in 1..Len(Tail(s)), Tail(s)[n] = i PROVE FALSE
    BY <1>4 DEF Queued
  <2>1. n + 1 \in 1..Len(s) /\ s[n + 1] = i /\ n + 1 # 1 /\ 1 \in 1..Len(s)
    BY <1>5
  <2> QED BY <1>5, <1>6, <2>1
<1>9. ASSUME NEW d \in Conn, NEW j \in Id, Queued(d, j)' PROVE Queued(d, j)
  <2>1. CASE d = c
    <3>1. PICK n \in 1..Len(Tail(s)) : Tail(s)[n] = j
      BY <1>4, <1>9, <2>1 DEF Queued
    <3>2. n + 1 \in 1..Len(s) /\ s[n + 1] = j
      BY <1>5, <3>1
    <3> QED BY <1>2, <2>1, <3>2 DEF Queued
  <2>2. CASE d # c
    BY <1>4, <1>9, <2>2 DEF Queued
  <2> QED BY <2>1, <2>2
<1>10. ASSUME NEW d \in Conn, NEW a \in 1..Len(toServer'[d]),
              NEW b \in 1..Len(toServer'[d]), a # b
       PROVE  toServer'[d][a] # toServer'[d][b]
  <2>1. CASE d = c
    <3>1. a + 1 \in 1..Len(s) /\ b + 1 \in 1..Len(s) /\ a + 1 # b + 1
      BY <1>4, <1>5, <1>10, <2>1
    <3>2. Tail(s)[a] = s[a + 1] /\ Tail(s)[b] = s[b + 1]
      BY <1>4, <1>5, <2>1
    <3> QED BY <1>4, <1>6, <2>1, <3>1, <3>2
  <2>2. CASE d # c
    BY <1>1, <1>4, <1>10, <2>2 DEF SentOnce
  <2> QED BY <2>1, <2>2
<1> QED BY <1>7, <1>8, <1>9, <1>10 DEF SentOnce

(* A reply that says that its call was performed, if it was.                *)
LEMMA ReplyKeepsTrue ==
    ASSUME IInv, NEW k \in Key, NEW ok \in BOOLEAN, Reply(k, ok),
           \A n \in 1..Len(toClient) : toClient[n].ok => done'[toClient[n].of] = 1,
           ok => done'[k] = 1
    PROVE  RepliesAreTrue'
<1> DEFINE r == [id |-> k[2], of |-> k, ok |-> ok]
<1>1. toClient \in Seq(Message) /\ r \in Message
  BY DEF IInv, TypeOK, Message, Key
<1>2. r.of = k /\ r.ok = ok
  OBVIOUS
<1>3. toClient' = Append(toClient, r) \/ toClient' = toClient
  BY DEF Reply
<1> HIDE DEF r
<1>4. CASE toClient' = toClient
  BY <1>4 DEF RepliesAreTrue
<1>5. CASE toClient' = Append(toClient, r)
  <2> SUFFICES ASSUME NEW n \in 1..Len(toClient'), toClient'[n].ok
               PROVE  done'[toClient'[n].of] = 1
    BY DEF RepliesAreTrue
  <2>1. CASE n = Len(toClient) + 1
    <3>1. toClient'[n] = r
      BY <1>1, <1>5, <2>1
    <3> QED BY <1>2, <3>1
  <2>2. CASE n # Len(toClient) + 1
    <3>1. n \in 1..Len(toClient) /\ toClient'[n] = toClient[n]
      BY <1>1, <1>5, <2>2
    <3> QED BY <3>1
  <2> QED BY <2>1, <2>2
<1> QED BY <1>3, <1>4, <1>5

(* What becomes of call i of connection c while the others stay as they are.*)
LEMMA OneCallKeeps ==
    ASSUME IInv, CInv, NEW c \in Conn, NEW i \in Id,
           UNCHANGED <<conn, nextId, outcome>>,
           \A l \in Key : l # <<c, i>> => handler'[l] = handler[l] /\ done'[l] = done[l],
           \A d \in Conn, j \in Id : Queued(d, j)' => Queued(d, j),
           CallOK(c, i)'
    PROVE  CallsOK'
<1> SUFFICES ASSUME NEW d \in Conn, NEW j \in Id PROVE CallOK(d, j)'
  BY DEF CallsOK
<1>1. CASE d = c /\ j = i
  BY <1>1
<1>2. CASE d # c \/ j # i
  <2>1. CallOK(d, j) /\ <<d, j>> \in Key /\ <<d, j>> # <<c, i>>
    BY <1>2 DEF CInv, CallsOK, Key
  <2> QED BY <2>1 DEF CallOK
<1> QED BY <1>1, <1>2

LEMMA PairFacts ==
    ASSUME NEW k \in Key
    PROVE  \E c \in Conn, i \in Id : k = <<c, i>> /\ k[1] = c
BY DEF Key

LEMMA ReplyOf ==
    ASSUME NEW s \in Seq(Message), NEW n \in 1..Len(s)
    PROVE  s[n].of \in Key
<1>1. s[n] \in Message
  OBVIOUS
<1> QED BY <1>1 DEF Message

LEMMA AnswerContract ==
    ASSUME IInv, CInv, NEW k \in Key, Answer(k[1], k)
    PROVE  CInv' /\ Contract!Next
<1>1. PICK c \in Conn, i \in Id : k = <<c, i>> /\ k[1] = c
  BY PairFacts
<1>2. TypeOK /\ CallOK(c, i) /\ RepliesAreTrue
  BY DEF IInv, CInv, CallsOK
<1>3. /\ NextRequest(c, <<c, i>>) /\ Reply(k, TRUE)
      /\ done' = [done EXCEPT ![k] = @ + 1]
      /\ UNCHANGED <<conn, nextId, outcome, handler>>
  BY <1>1, NeverRefuses DEF Answer, client
<1>4. /\ Queued(c, i) /\ ~Queued(c, i)' /\ SentOnce'
      /\ \A d \in Conn, j \in Id : Queued(d, j)' => Queued(d, j)
  BY <1>3, ReadFacts
<1>5. outcome[k] # "unmade" /\ handler[k] = "none" /\ done[k] = 0
  BY <1>1, <1>2, <1>4 DEF CallOK
<1>6. done'[k] = 1 /\ \A l \in Key : l # k => done'[l] = done[l]
  BY <1>2, <1>3, <1>5 DEF TypeOK
<1>7. CallOK(c, i)'
  BY <1>1, <1>2, <1>3, <1>4, <1>5 DEF CallOK
<1>8. CallsOK'
  BY <1>1, <1>3, <1>4, <1>6, <1>7, OneCallKeeps
<1>9. RepliesAreTrue'
  <2>1. ASSUME NEW n \in 1..Len(toClient), toClient[n].ok
        PROVE  done'[toClient[n].of] = 1
    <3>1. done[toClient[n].of] = 1 /\ toClient[n].of \in Key
      BY <1>2, <2>1, ReplyOf DEF RepliesAreTrue, TypeOK
    <3> QED BY <1>5, <1>6, <3>1
  <2> QED BY <1>3, <1>6, <2>1, ReplyKeepsTrue
<1>10. Contract!Perform(k)
  BY <1>2, <1>3, <1>5, PerformMaps
<1> QED BY <1>4, <1>8, <1>9, <1>10 DEF CInv, Contract!Next

LEMMA BeginContract ==
    ASSUME IInv, CInv, NEW k \in Key, Begin(k[1], k)
    PROVE  CInv' /\ UNCHANGED Contract!vars
<1>1. PICK c \in Conn, i \in Id : k = <<c, i>> /\ k[1] = c
  BY PairFacts
<1>2. TypeOK /\ CallOK(c, i) /\ RepliesAreTrue
  BY DEF IInv, CInv, CallsOK
<1>3. /\ NextRequest(c, <<c, i>>)
      /\ handler' = [handler EXCEPT ![k] = "running"]
      /\ UNCHANGED <<conn, nextId, outcome, done, toClient>>
  BY <1>1 DEF Begin, client
<1>4. /\ Queued(c, i) /\ ~Queued(c, i)' /\ SentOnce'
      /\ \A d \in Conn, j \in Id : Queued(d, j)' => Queued(d, j)
  BY <1>3, ReadFacts
<1>5. outcome[k] # "unmade" /\ done[k] = 0
  BY <1>1, <1>2, <1>4 DEF CallOK
<1>6. handler'[k] = "running" /\ \A l \in Key : l # k => handler'[l] = handler[l]
  BY <1>2, <1>3 DEF TypeOK
<1>7. CallOK(c, i)'
  BY <1>1, <1>2, <1>3, <1>4, <1>5, <1>6 DEF CallOK
<1>8. CallsOK'
  BY <1>1, <1>3, <1>4, <1>6, <1>7, OneCallKeeps
<1>9. RepliesAreTrue' /\ UNCHANGED Contract!vars
  BY <1>2, <1>3 DEF RepliesAreTrue, Contract!vars
<1> QED BY <1>4, <1>8, <1>9 DEF CInv

(* The queues are left alone.                                               *)
LEMMA QueuesStay ==
    ASSUME CInv, toServer' = toServer
    PROVE  /\ SentOnce'
           /\ \A d \in Conn, j \in Id : Queued(d, j)' <=> Queued(d, j)
BY DEF CInv, SentOnce, Queued

LEMMA PerformContract ==
    ASSUME IInv, CInv, NEW k \in Key, Perform(k)
    PROVE  CInv' /\ [Contract!Next]_Contract!vars
<1>1. PICK c \in Conn, i \in Id : k = <<c, i>> /\ k[1] = c
  BY PairFacts
<1>2. TypeOK /\ CallOK(c, i) /\ RepliesAreTrue
  BY DEF IInv, CInv, CallsOK
<1>3. handler[k] = "running" /\ UNCHANGED <<conn, nextId, outcome, toServer, toClient>>
  BY DEF Perform, client
<1>4. outcome[k] # "unmade" /\ done[k] = 0 /\ ~Queued(c, i)
  BY <1>1, <1>2, <1>3 DEF CallOK
<1>5. SentOnce' /\ \A d \in Conn, j \in Id : Queued(d, j)' <=> Queued(d, j)
  BY <1>3, QueuesStay
<1>6. CASE handler' = [handler EXCEPT ![k] = "done"] /\ done' = [done EXCEPT ![k] = @ + 1]
  <2>1. /\ handler'[k] = "done" /\ done'[k] = 1
        /\ \A l \in Key : l # k => handler'[l] = handler[l] /\ done'[l] = done[l]
    BY <1>2, <1>4, <1>6 DEF TypeOK
  <2>2. CallOK(c, i)'
    BY <1>1, <1>2, <1>3, <1>4, <1>5, <2>1 DEF CallOK
  <2>3. CallsOK'
    BY <1>1, <1>3, <1>5, <2>1, <2>2, OneCallKeeps
  <2>4. ASSUME NEW n \in 1..Len(toClient'), toClient'[n].ok
        PROVE  done'[toClient'[n].of] = 1
    <3>1. done[toClient[n].of] = 1 /\ toClient[n].of \in Key
      BY <1>2, <1>3, <2>4, ReplyOf DEF RepliesAreTrue, TypeOK
    <3> QED BY <1>3, <1>4, <2>1, <3>1
  <2>5. Contract!Perform(k)
    BY <1>2, <1>3, <1>4, <1>6, PerformMaps
  <2> QED BY <1>5, <2>3, <2>4, <2>5 DEF CInv, RepliesAreTrue, Contract!Next
<1>7. CASE handler' = [handler EXCEPT ![k] = "failed"] /\ UNCHANGED done
  <2>1. handler'[k] = "failed" /\ \A l \in Key : l # k => handler'[l] = handler[l]
    BY <1>2, <1>7 DEF TypeOK
  <2>2. CallOK(c, i)'
    BY <1>1, <1>2, <1>3, <1>4, <1>5, <1>7, <2>1 DEF CallOK
  <2>3. CallsOK'
    BY <1>1, <1>3, <1>5, <1>7, <2>1, <2>2, OneCallKeeps
  <2>4. RepliesAreTrue' /\ UNCHANGED Contract!vars
    BY <1>2, <1>3, <1>7 DEF RepliesAreTrue, Contract!vars
  <2> QED BY <1>5, <2>3, <2>4 DEF CInv
<1> QED BY <1>6, <1>7 DEF Perform

LEMMA SendReplyContract ==
    ASSUME IInv, CInv, NEW k \in Key, SendReply(k)
    PROVE  CInv' /\ UNCHANGED Contract!vars
<1>1. PICK c \in Conn, i \in Id : k = <<c, i>> /\ k[1] = c
  BY PairFacts
<1>2. TypeOK /\ CallOK(c, i) /\ RepliesAreTrue
  BY DEF IInv, CInv, CallsOK
<1>3. /\ handler[k] \in {"done", "failed"} /\ handler' = [handler EXCEPT ![k] = "none"]
      /\ Reply(k, handler[k] = "done")
      /\ UNCHANGED <<conn, nextId, outcome, toServer, done>>
  BY DEF SendReply, client
<1>4. outcome[k] # "unmade" /\ ~Queued(c, i) /\ (handler[k] = "done" => done[k] = 1)
  BY <1>1, <1>2, <1>3 DEF CallOK
<1>5. SentOnce' /\ \A d \in Conn, j \in Id : Queued(d, j)' <=> Queued(d, j)
  BY <1>3, QueuesStay
<1>6. handler'[k] = "none" /\ \A l \in Key : l # k => handler'[l] = handler[l]
  BY <1>2, <1>3 DEF TypeOK
<1>7. CallOK(c, i)'
  BY <1>1, <1>2, <1>3, <1>4, <1>5, <1>6 DEF CallOK
<1>8. CallsOK'
  BY <1>1, <1>3, <1>5, <1>6, <1>7, OneCallKeeps
<1>9. RepliesAreTrue'
  <2>1. (handler[k] = "done") \in BOOLEAN
    OBVIOUS
  <2>2. \A n \in 1..Len(toClient) : toClient[n].ok => done'[toClient[n].of] = 1
    BY <1>2, <1>3 DEF RepliesAreTrue
  <2> QED BY <1>3, <1>4, <2>1, <2>2, ReplyKeepsTrue
<1> QED BY <1>3, <1>5, <1>8, <1>9 DEF CInv, Contract!vars

-----------------------------------------------------------------------------
(* The refinement *)

LEMMA InitContract == ASSUME Init PROVE CInv /\ Contract!Init
<1>1. \A c \in Conn, i \in Id : ~Queued(c, i) /\ <<c, i>> \in Key
  BY DEF Init, Queued, Key
<1>2. CallsOK
  BY <1>1 DEF Init, CallsOK, CallOK
<1>3. SentOnce /\ RepliesAreTrue
  BY DEF Init, SentOnce, RepliesAreTrue
<1>4. Contract!Init
  BY DEF Init, Contract!Init
<1> QED BY <1>2, <1>3, <1>4 DEF CInv

LEMMA StepContract ==
    ASSUME IInv, CInv, [Next]_vars
    PROVE  CInv' /\ [Contract!Next]_Contract!vars
<1>1. CASE Client
  BY <1>1, ConnectContract, DisposeContract, LoseContract, ReceiveContract,
     CallContractStep, TimeoutContract DEF Client
<1>2. CASE Server
  BY <1>2, AnswerContract, BeginContract, PerformContract, SendReplyContract DEF Server
<1>3. CASE UNCHANGED vars
  BY <1>3, NoCallKeeps DEF vars, client, server, Contract!vars
<1> QED BY <1>1, <1>2, <1>3 DEF Next

(* Over any number of connections, a call is performed at most once and not *)
(* before it is made, succeeds only after it was performed, and ends once:  *)
(* BridgeClient's pending table and timers and both servers implement       *)
(* CallContract.                                                            *)
THEOREM ImplementsContractHolds == Spec => ImplementsContract
<1>1. Spec => [](IInv /\ CInv)
  BY InitIInv, InitContract, NextIInv, StepContract, PTL DEF Spec
<1>2. Init => Contract!Init
  BY InitContract
<1> QED BY <1>1, <1>2, StepContract, PTL DEF Spec, ImplementsContract, Contract!Spec
=============================================================================
