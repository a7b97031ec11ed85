-------------------------- MODULE ContextSyncProofs --------------------------
(* Safety of ContextSync for any set of windows and any number of messages  *)
(* in flight.                                                               *)
EXTENDS ContextSync, TLAPS

-----------------------------------------------------------------------------
(* Messages in flight *)

Calls   == Pulls \cup {"init"}
Replies == {"init", "editorsReply", "selectionReply", "diagsReply"}
Lists   == {"editorsReply", "editors_changed"}
Events  == {"editors_changed"}
Notices == {"selection_changed"}

NoneOf(s, K) == \A i \in 1..Len(s) : s[i].kind \notin K

(* The last message of these kinds carries v.                               *)
LastOf(s, K, v) ==
    \E i \in 1..Len(s) :
        /\ s[i].kind \in K /\ s[i].value = v
        /\ \A j \in 1..Len(s) : j > i => s[j].kind \notin K

(* The call is neither among the requests q nor answered in s,              *)
Nowhere(call, q, s) ==
    /\ \A i \in 1..Len(q) : q[i] # call
    /\ NoneOf(s, {ReplyTo(call)})

(* or it is at one place there at most.                                     *)
Once(call, q, s) ==
    /\ \A i, j \in 1..Len(q) : q[i] = call /\ q[j] = call => i = j
    /\ \A i, j \in 1..Len(s) :
        s[i].kind = ReplyTo(call) /\ s[j].kind = ReplyTo(call) => i = j
    /\ \A i \in 1..Len(q), j \in 1..Len(s) :
        ~(q[i] = call /\ s[j].kind = ReplyTo(call))

LEMMA AppendFacts ==
    ASSUME NEW s \in Seq(Message), NEW m \in Message
    PROVE  /\ Append(s, m) \in Seq(Message)
           /\ Len(s) \in Nat /\ Len(Append(s, m)) = Len(s) + 1
           /\ \A i \in 1..Len(s) : Append(s, m)[i] = s[i]
           /\ Append(s, m)[Len(s) + 1] = m
OBVIOUS

LEMMA AppendNone ==
    ASSUME NEW s \in Seq(Message), NEW m \in Message, NEW K, m.kind \notin K
    PROVE  NoneOf(s, K) => NoneOf(Append(s, m), K)
BY AppendFacts DEF NoneOf

LEMMA AppendKeepsLast ==
    ASSUME NEW s \in Seq(Message), NEW m \in Message, NEW K, NEW v, m.kind \notin K
    PROVE  LastOf(s, K, v) => LastOf(Append(s, m), K, v)
BY AppendFacts DEF LastOf

LEMMA AppendIsLast ==
    ASSUME NEW s \in Seq(Message), NEW m \in Message, NEW K, m.kind \in K
    PROVE  LastOf(Append(s, m), K, m.value)
BY AppendFacts DEF LastOf

LEMMA TailFacts ==
    ASSUME NEW s \in Seq(Message), s # <<>>
    PROVE  /\ Tail(s) \in Seq(Message) /\ Len(s) \in Nat \ {0}
           /\ Len(Tail(s)) = Len(s) - 1
           /\ \A i \in 1..Len(Tail(s)) : Tail(s)[i] = s[i + 1]
           /\ Head(s) = s[1] /\ s[1] \in Message
OBVIOUS

LEMMA TailNone ==
    ASSUME NEW s \in Seq(Message), s # <<>>, NEW K
    PROVE  NoneOf(s, K) => NoneOf(Tail(s), K) /\ Head(s).kind \notin K
BY TailFacts DEF NoneOf

(* Reading a message: the last one of these kinds is still to come, or it   *)
(* is the one that is read.                                                 *)
LEMMA TailLast ==
    ASSUME NEW s \in Seq(Message), s # <<>>, NEW K, NEW v, LastOf(s, K, v)
    PROVE  \/ LastOf(Tail(s), K, v)
           \/ Head(s).kind \in K /\ Head(s).value = v /\ NoneOf(Tail(s), K)
<1>1. PICK i \in 1..Len(s) : /\ s[i].kind \in K /\ s[i].value = v
                             /\ \A j \in 1..Len(s) : j > i => s[j].kind \notin K
  BY DEF LastOf
<1>2. \A j \in 1..Len(Tail(s)) : j > i - 1 => Tail(s)[j].kind \notin K
  BY <1>1, TailFacts
<1>3. CASE i = 1
  BY <1>1, <1>2, <1>3, TailFacts DEF NoneOf
<1>4. CASE i # 1
  <2>1. i - 1 \in 1..Len(Tail(s)) /\ Tail(s)[i - 1] = s[i]
    BY <1>4, TailFacts
  <2> QED BY <1>1, <1>2, <2>1 DEF LastOf
<1> QED BY <1>3, <1>4

-----------------------------------------------------------------------------
(* Calls in flight *)

LEMMA CallFacts ==
    /\ \A c \in Calls : ReplyTo(c) \in Replies
    /\ \A c, d \in Calls : ReplyTo(c) = ReplyTo(d) => c = d
    /\ ReplyTo("init") = "init" /\ ReplyTo("editors") = "editorsReply"
    /\ "init" \in Calls /\ "editors" \in Calls
<1>1. /\ ReplyTo("init") = "init" /\ ReplyTo("editors") = "editorsReply"
      /\ ReplyTo("selection") = "selectionReply" /\ ReplyTo("diags") = "diagsReply"
  BY DEF ReplyTo
<1>2. Calls = {"init", "editors", "selection", "diags"}
  BY DEF Calls, Pulls
<1> QED BY <1>1, <1>2 DEF Replies

LEMMA QueueFacts ==
    ASSUME NEW q \in Seq(Calls), NEW d \in Calls
    PROVE  /\ Len(q) \in Nat
           /\ Append(q, d) \in Seq(Calls) /\ Len(Append(q, d)) = Len(q) + 1
           /\ \A i \in 1..Len(q) : Append(q, d)[i] = q[i]
           /\ Append(q, d)[Len(q) + 1] = d
           /\ q # <<>> => /\ Tail(q) \in Seq(Calls) /\ Len(Tail(q)) = Len(q) - 1
                          /\ \A i \in 1..Len(Tail(q)) : Tail(q)[i] = q[i + 1]
                          /\ Head(q) = q[1] /\ q[1] \in Calls /\ Len(q) > 0
OBVIOUS

LEMMA Asked ==
    ASSUME NEW q \in Seq(Calls), NEW s \in Seq(Message), NEW c \in Calls, NEW d \in Calls
    PROVE  /\ Nowhere(c, q, s) => Once(c, q, s) /\ Once(c, Append(q, c), s)
           /\ c # d /\ Nowhere(c, q, s) => Nowhere(c, Append(q, d), s)
           /\ c # d /\ Once(c, q, s) => Once(c, Append(q, d), s)
<1>1. Nowhere(c, q, s) => Once(c, q, s) /\ Once(c, Append(q, c), s)
  BY QueueFacts DEF Nowhere, Once, NoneOf
<1>2. c # d /\ Nowhere(c, q, s) => Nowhere(c, Append(q, d), s)
  BY QueueFacts DEF Nowhere
<1>3. ASSUME c # d, Once(c, q, s) PROVE Once(c, Append(q, d), s)
  <2>1. \A i \in 1..Len(Append(q, d)) :
            Append(q, d)[i] = c => i \in 1..Len(q) /\ q[i] = c
    BY <1>3, QueueFacts
  <2> QED BY <1>3, <2>1 DEF Once
<1> QED BY <1>1, <1>2, <1>3

LEMMA Noticed ==
    ASSUME NEW q \in Seq(Calls), NEW s \in Seq(Message), NEW c \in Calls,
           NEW m \in Message, m.kind \notin Replies
    PROVE  /\ Nowhere(c, q, s) => Nowhere(c, q, Append(s, m))
           /\ Once(c, q, s) => Once(c, q, Append(s, m))
<1>1. m.kind # ReplyTo(c)
  BY CallFacts
<1>2. Nowhere(c, q, s) => Nowhere(c, q, Append(s, m))
  BY <1>1, AppendNone DEF Nowhere
<1>3. Once(c, q, s) => Once(c, q, Append(s, m))
  BY <1>1, AppendFacts DEF Once
<1> QED BY <1>2, <1>3

(* The oldest request is answered.                                          *)
LEMMA Answered ==
    ASSUME NEW q \in Seq(Calls), q # <<>>, NEW s \in Seq(Message), NEW c \in Calls,
           NEW m \in Message, m.kind = ReplyTo(Head(q))
    PROVE  /\ Nowhere(c, q, s) => Nowhere(c, Tail(q), Append(s, m))
           /\ Once(c, q, s) => Once(c, Tail(q), Append(s, m))
<1>1. m.kind = ReplyTo(c) => q[1] = c
  BY CallFacts, QueueFacts
<1>2. ASSUME Nowhere(c, q, s) PROVE Nowhere(c, Tail(q), Append(s, m))
  <2>1. m.kind # ReplyTo(c)
    BY <1>1, <1>2, QueueFacts DEF Nowhere
  <2>2. NoneOf(Append(s, m), {ReplyTo(c)})
    BY <1>2, <2>1, AppendNone DEF Nowhere
  <2>3. \A i \in 1..Len(Tail(q)) : Tail(q)[i] # c
    BY <1>2, QueueFacts DEF Nowhere
  <2> QED BY <2>2, <2>3 DEF Nowhere
<1>3. ASSUME Once(c, q, s) PROVE Once(c, Tail(q), Append(s, m))
  <2>1. \A i, j \in 1..Len(Tail(q)) : Tail(q)[i] = c /\ Tail(q)[j] = c => i = j
    BY <1>3, QueueFacts DEF Once
  <2>2. CASE m.kind # ReplyTo(c)
    <3>1. \A i \in 1..Len(Append(s, m)) : Append(s, m)[i].kind = ReplyTo(c)
                => i \in 1..Len(s) /\ s[i].kind = ReplyTo(c)
      BY <2>2, AppendFacts
    <3>2. \A i \in 1..Len(Tail(q)) :
            Tail(q)[i] = c => i + 1 \in 1..Len(q) /\ q[i + 1] = c
      BY QueueFacts
    <3> QED BY <1>3, <2>1, <3>1, <3>2 DEF Once
  <2>3. CASE m.kind = ReplyTo(c)
    <3>1. q[1] = c /\ 1 \in 1..Len(q)
      BY <1>1, <2>3, QueueFacts
    <3>2. \A i \in 1..Len(Tail(q)) : Tail(q)[i] # c
      BY <1>3, <3>1, QueueFacts DEF Once
    <3>3. \A j \in 1..Len(s) : s[j].kind # ReplyTo(c)
      BY <1>3, <3>1 DEF Once
    <3>4. \A j \in 1..Len(Append(s, m)) :
            Append(s, m)[j].kind = ReplyTo(c) => j = Len(s) + 1
      BY <3>3, AppendFacts
    <3> QED BY <3>2, <3>4 DEF Once
  <2> QED BY <2>2, <2>3
<1> QED BY <1>2, <1>3

(* A message is read: the reply to c, if it is that, was the only trace.    *)
LEMMA Taken ==
    ASSUME NEW q \in Seq(Calls), NEW s \in Seq(Message), s # <<>>, NEW c \in Calls
    PROVE  /\ Nowhere(c, q, s) => Nowhere(c, q, Tail(s)) /\ Head(s).kind # ReplyTo(c)
           /\ Once(c, q, s) => Once(c, q, Tail(s))
           /\ Once(c, q, s) /\ Head(s).kind = ReplyTo(c) => Nowhere(c, q, Tail(s))
<1>1. Nowhere(c, q, s) => Nowhere(c, q, Tail(s)) /\ Head(s).kind # ReplyTo(c)
  BY TailNone DEF Nowhere
<1>2. Once(c, q, s) => Once(c, q, Tail(s))
  BY TailFacts DEF Once
<1>3. ASSUME Once(c, q, s), Head(s).kind = ReplyTo(c) PROVE Nowhere(c, q, Tail(s))
  <2>1. s[1].kind = ReplyTo(c) /\ 1 \in 1..Len(s)
    BY <1>3, TailFacts
  <2>2. \A i \in 1..Len(q) : q[i] # c
    BY <1>3, <2>1 DEF Once
  <2>3. \A i \in 1..Len(Tail(s)) : Tail(s)[i].kind # ReplyTo(c)
    BY <1>3, <2>1, TailFacts DEF Once
  <2> QED BY <2>2, <2>3 DEF Nowhere, NoneOf
<1> QED BY <1>1, <1>2, <1>3

-----------------------------------------------------------------------------
(* The invariant *)

(* Without a window there is nothing in flight, and with one no pull of an  *)
(* earlier connection is left to end.                                       *)
WindowOK ==
    /\ win = None => /\ ~ready /\ ~selTimer /\ ~initialized
                     /\ reqs = <<>> /\ reply = None /\ chan = <<>>
    /\ win # None => task # "aborted"
    /\ ~ready => task \notin Pulls
    /\ reply # None => reply.kind \in Replies

(* The last selection_changed is current unless another one is scheduled.   *)
NoticeOK ==
    /\ ~initialized => NoneOf(chan, Notices)
    /\ ~selTimer => NoneOf(chan, Notices) \/ LastOf(chan, Notices, ideCurrent)

(* The last editors_changed carries the window's list, as the cache does    *)
(* that was written from one.                                               *)
EventsOK ==
    win # None =>
        /\ ~initialized => NoneOf(chan, Events) /\ source # "event"
        /\ \/ LastOf(chan, Events, ideEditors)
           \/ NoneOf(chan, Events) /\ (source = "event" => editors = ideEditors)

(* VS Code: initialize comes first, and getOpenEditors is called once on a  *)
(* connection, after it.                                                    *)
CallsOK ==
    /\ ~initialized => reqs = <<"init">> /\ chan = <<>> /\ ~ready /\ source = "earlier"
    /\ Once("init", reqs, chan) /\ Once("editors", reqs, chan)
    /\ ready => Nowhere("init", reqs, chan)
    /\ ~ready => source # "reply"
    /\ ~ready \/ source = "reply" => Nowhere("editors", reqs, chan)

(* The last list of either kind is the window's, as the cached one is that  *)
(* this connection has written.                                             *)
ListOK ==
    \/ LastOf(chan, Lists, ideEditors)
    \/ NoneOf(chan, Lists) /\ (source # "earlier" => editors = ideEditors)

VscodeOK ==
    win # None /\ ~InJetBrains => reply = None /\ CallsOK /\ ListOK

IInv ==
    /\ TypeOK /\ WindowOK /\ NoticeOK /\ EventsOK /\ VscodeOK
    /\ ToldHere /\ NothingShownWithoutEditors

-----------------------------------------------------------------------------
(* Types *)

LEMMA DataFacts ==
    /\ None \in AllEditors /\ None \in AllSelections
    /\ \A w \in Window : /\ Editors(w) \subseteq AllEditors
                         /\ Selections(w) \subseteq AllSelections
                         /\ TextIn(w) \in AllSelections
BY DEF AllEditors, AllSelections, Editors, Selections, TextIn, CaretIn

(* What a message of each kind carries.                                     *)
LEMMA MessageFacts ==
    /\ \A m \in Message : m.kind \in Replies \cup Lists \cup Notices
    /\ \A m \in Message : m.kind \in Lists => m.value \in AllEditors
    /\ \A m \in Message : m.kind \in {"selectionReply", "selection_changed"}
                            => m.value \in AllSelections
    /\ \A k \in {"init", "diagsReply"} : [kind |-> k, value |-> None] \in Message
    /\ \A k \in Lists, v \in AllEditors : [kind |-> k, value |-> v] \in Message
    /\ \A k \in {"selectionReply", "selection_changed"}, v \in AllSelections :
            [kind |-> k, value |-> v] \in Message
BY DEF Message, Replies, Lists, Notices

LEMMA AnswerFacts ==
    ASSUME TypeOK, NEW req \in Pulls \cup {"init"}
    PROVE  /\ Answer(req) \in Message
           /\ Answer(req).kind = ReplyTo(req)
           /\ Answer(req).kind \in Replies
           /\ Answer(req).kind = "editorsReply" => Answer(req).value = ideEditors
<1>1. LatestSelection \in AllSelections
  BY DEF LatestSelection, TypeOK
<1>2. CASE req = "init"
  BY <1>2, MessageFacts DEF Answer, ReplyTo, Replies
<1>3. CASE req = "editors"
  BY <1>3, MessageFacts DEF Answer, ReplyTo, Replies, Lists, TypeOK
<1>4. CASE req = "selection"
  BY <1>1, <1>4, MessageFacts DEF Answer, ReplyTo, Replies
<1>5. CASE req = "diags"
  BY <1>5, MessageFacts DEF Answer, ReplyTo, Replies
<1> QED BY <1>2, <1>3, <1>4, <1>5 DEF Pulls

LEMMA BroadcastType ==
    ASSUME TypeOK, NEW k \in Lists \cup Notices, NEW v, [kind |-> k, value |-> v] \in Message,
           Broadcast(k, v)
    PROVE  chan' \in Seq(Message)
BY AppendFacts DEF Broadcast, TypeOK

(* What is read from the socket.                                            *)
LEMMA ReceiveFacts ==
    ASSUME TypeOK, NEW k, Receive(k)
    PROVE  /\ Head(chan) \in Message /\ Head(chan).kind = k
           /\ chan # <<>> /\ chan' = Tail(chan) /\ chan' \in Seq(Message)
BY TailFacts DEF Receive, TypeOK

LEMMA PullType ==
    ASSUME TypeOK, NEW call \in Pulls \cup {"none"}, Pull(call)
    PROVE  task' \in Pulls \cup {"none", "aborted"} /\ reqs' \in Seq(Pulls \cup {"init"})
BY DEF Pull, TypeOK, Pulls

LEMMA NextPullFacts ==
    \A call \in Pulls : /\ NextPull(call) \in {"selection", "diags", "none"}
                        /\ NextPull(call) \in Pulls \cup {"none"}
BY DEF NextPull, Pulls

LEMMA TypeStep == TypeOK /\ [Next]_vars => TypeOK'
<1> SUFFICES ASSUME TypeOK, [Next]_vars PROVE TypeOK'
  OBVIOUS
<1>1. ASSUME NEW w \in Window, Connect(w) PROVE TypeOK'
  <2>1. <<"init">> \in Seq(Pulls \cup {"init"}) /\ <<>> \in Seq(Message)
    OBVIOUS
  <2>2. ideEditors' \in AllEditors /\ ideCurrent' \in AllSelections /\ ideLatest' \in AllSelections
    BY <1>1, DataFacts DEF Connect
  <2>3. initialized' \in BOOLEAN
    BY <1>1 DEF Connect
  <2> QED BY <1>1, <2>1, <2>2, <2>3 DEF Connect, Sources, turn, TypeOK
<1>2. CASE Drop
  <2>1. <<>> \in Seq(Pulls \cup {"init"}) /\ <<>> \in Seq(Message)
    OBVIOUS
  <2> QED BY <1>2, <2>1, DataFacts DEF Drop, Disconnected, cache, TypeOK, Pulls
<1>3. CASE CloseByHost
  <2>1. <<>> \in Seq(Pulls \cup {"init"}) /\ <<>> \in Seq(Message)
    OBVIOUS
  <2> QED BY <1>3, <2>1, DataFacts DEF CloseByHost, Disconnected, cache, turn, TypeOK, Pulls
<1>4. CASE EditorsEvent
  <2>1. ideEditors' \in AllEditors /\ ideCurrent' \in AllSelections
    BY <1>4, DataFacts DEF EditorsEvent, TypeOK
  <2>2. chan' \in Seq(Message)
    BY <1>4, <2>1, MessageFacts, BroadcastType DEF EditorsEvent, Lists
  <2>3. selTimer' \in BOOLEAN
    BY <1>4 DEF EditorsEvent, TypeOK, InJetBrains
  <2> QED BY <1>4, <2>1, <2>2, <2>3 DEF EditorsEvent, cache, turn, TypeOK
<1>5. CASE SelectionEvent
  <2>1. ideCurrent' \in AllSelections /\ ideLatest' \in AllSelections
    BY <1>5, DataFacts DEF SelectionEvent, TypeOK
  <2> QED BY <1>5, <2>1 DEF SelectionEvent, wire, cache, turn, TypeOK
<1>6. CASE SelectionTimer
  <2>1. ideLatest' \in AllSelections
    BY <1>6 DEF SelectionTimer, TypeOK
  <2>2. chan' \in Seq(Message)
    BY <1>6, MessageFacts, BroadcastType DEF SelectionTimer, Notices, TypeOK
  <2> QED BY <1>6, <2>1, <2>2 DEF SelectionTimer, cache, turn, TypeOK
<1>7. CASE ServeRequest
  <2>1. /\ Head(reqs) \in Pulls \cup {"init"} /\ Tail(reqs) \in Seq(Pulls \cup {"init"})
    BY <1>7 DEF ServeRequest, TypeOK
  <2>2. Answer(Head(reqs)) \in Message
    BY <2>1, AnswerFacts
  <2>3. chan' \in Seq(Message) /\ reply' \in Message \cup {None}
    BY <1>7, <2>2, AppendFacts DEF ServeRequest, TypeOK
  <2>4. initialized' \in BOOLEAN
    BY <1>7 DEF ServeRequest, TypeOK
  <2> QED BY <1>7, <2>1, <2>3, <2>4 DEF ServeRequest, ide, cache, turn, TypeOK
<1>8. CASE SendReply
  <2>1. chan' \in Seq(Message)
    BY <1>8, AppendFacts DEF SendReply, TypeOK
  <2> QED BY <1>8, <2>1 DEF SendReply, ide, cache, turn, TypeOK
<1>9. CASE Reception
  <2>1. CASE RecvInit
    BY <2>1, ReceiveFacts, PullType
    DEF RecvInit, Receive, ide, cache, TypeOK, Pulls
  <2>2. CASE RecvEditorsReply
    <3>1. editors' \in AllEditors
      BY <2>2, ReceiveFacts, MessageFacts DEF RecvEditorsReply, Lists
    <3> QED BY <2>2, <3>1, ReceiveFacts, PullType
            DEF RecvEditorsReply, Receive, ide, turn, TypeOK, Pulls, Sources
  <2>3. CASE RecvSelectionReply
    <3>1. currentSelection' \in AllSelections /\ latestSelection' \in AllSelections
      BY <2>3, ReceiveFacts, MessageFacts DEF RecvSelectionReply, TypeOK
    <3> QED BY <2>3, <3>1, ReceiveFacts, PullType
            DEF RecvSelectionReply, Receive, ide, turn, TypeOK, Pulls
  <2>4. CASE RecvDiagsReply
    <3>1. status' \in AllSelections
      BY <2>4, DataFacts DEF RecvDiagsReply, Effective, TypeOK
    <3> QED BY <2>4, <3>1, ReceiveFacts, PullType
            DEF RecvDiagsReply, Receive, ide, cache, turn, TypeOK, Pulls
  <2>5. CASE RecvEditorsChanged
    <3>1. editors' \in AllEditors
      BY <2>5, ReceiveFacts, MessageFacts DEF RecvEditorsChanged, Lists
    <3>2. currentSelection' \in AllSelections /\ status' \in AllSelections
      BY <2>5, DataFacts DEF RecvEditorsChanged, TypeOK
    <3> QED BY <2>5, <3>1, <3>2, ReceiveFacts
            DEF RecvEditorsChanged, Receive, ide, turn, TypeOK, Sources
  <2>6. CASE RecvSelectionChanged
    <3>1. currentSelection' \in AllSelections /\ latestSelection' \in AllSelections
      BY <2>6, ReceiveFacts, MessageFacts DEF RecvSelectionChanged, TypeOK
    <3>2. status' \in AllSelections
      BY <2>6, <3>1, DataFacts DEF RecvSelectionChanged, Effective
    <3> QED BY <2>6, <3>1, <3>2, ReceiveFacts
            DEF RecvSelectionChanged, Receive, ide, turn, TypeOK
  <2>7. CASE LateReply
    <3>1. chan' \in Seq(Message) /\ UNCHANGED <<win, ide, initialized, reply>>
      BY <2>7, ReceiveFacts DEF LateReply, Receive
    <3> QED BY <2>7, <3>1 DEF LateReply, ide, cache, turn, TypeOK
  <2> QED BY <1>9, <2>1, <2>2, <2>3, <2>4, <2>5, <2>6, <2>7 DEF Reception
<1>10. CASE Aborted
  <2>1. status' \in AllSelections
    BY <1>10, DataFacts DEF Aborted, Effective, TypeOK
  <2> QED BY <1>10, <2>1 DEF Aborted, ide, wire, cache, turn, TypeOK
<1>11. CASE AgentTurn
  <2>1. Effective(editors, currentSelection, latestSelection) \in AllSelections
    BY DataFacts DEF Effective, TypeOK
  <2>2. Context \in Payload
    BY <2>1 DEF Context, Payload, TypeOK
  <2> QED BY <1>11, <2>2 DEF AgentTurn, ide, wire, cache, TypeOK
<1>12. CASE PullFails
  <2>1. /\ task' \in Pulls \cup {"none", "aborted"}
        /\ reqs' \in Seq(Pulls \cup {"init"})
    BY <1>12, PullType, NextPullFacts DEF PullFails
  <2>2. chan' \in Seq(Message)
    BY <1>12, TailFacts DEF PullFails, TypeOK
  <2>3. status' \in AllSelections
    BY <1>12, DataFacts DEF PullFails, Effective, TypeOK
  <2> QED BY <1>12, <2>1, <2>2, <2>3 DEF PullFails, ide, cache, turn, TypeOK
<1>13. CASE UNCHANGED vars
  BY <1>13 DEF vars, ide, wire, cache, turn, TypeOK
<1> QED BY <1>1, <1>2, <1>3, <1>4, <1>5, <1>6, <1>7, <1>8, <1>9, <1>10, <1>11, <1>12, <1>13
        DEF Next, Connection, IdeEvent, Server

-----------------------------------------------------------------------------
(* Steps *)

LEMMA EmptyFacts ==
    /\ \A K : NoneOf(<<>>, K)
    /\ \A K, v : ~LastOf(<<>>, K, v)
BY DEF NoneOf, LastOf

LEMMA KindFacts ==
    /\ \A k \in Replies : k \notin Notices /\ k \notin Events
    /\ \A k \in Replies : k \in Lists => k = "editorsReply"
    /\ "editors_changed" \notin Replies \cup Notices
    /\ "editors_changed" \in Lists \cap Events
    /\ "selection_changed" \notin Replies \cup Lists \cup Events
    /\ "selection_changed" \in Notices
    /\ "editorsReply" \in Replies \cap Lists
BY DEF Replies, Lists, Events, Notices

(* The client reads a message: that is all it does to the wire, except that *)
(* it may make the next call of its pull.                                   *)
LEMMA ClientStep ==
    ASSUME TypeOK, WindowOK, Reception \/ PullFails
    PROVE  /\ win # None /\ win \in Window
           /\ UNCHANGED <<win, initialized, reply, ideEditors, ideCurrent, selTimer>>
           /\ ready' = (ready \/ RecvInit)
           /\ task' # "aborted" /\ (~ready' => task' \notin Pulls)
           /\ \/ chan' = chan /\ ready
              \/ /\ chan # <<>> /\ chan' = Tail(chan)
                 /\ Head(chan) \in Message /\ chan \in Seq(Message)
           /\ RecvInit => Head(chan).kind = "init" /\ chan' = Tail(chan) /\ chan # <<>>
                          /\ reqs' = Append(reqs, "editors")
           /\ ~RecvInit => \/ reqs' = reqs
                           \/ reqs' = Append(reqs, "selection")
                           \/ reqs' = Append(reqs, "diags")
<1>1. /\ chan \in Seq(Message) /\ task \in Pulls \cup {"none", "aborted"}
      /\ ready \in BOOLEAN
  BY DEF TypeOK
<1>2. ASSUME NEW k, Receive(k)
      PROVE  /\ chan # <<>> /\ chan' = Tail(chan) /\ Head(chan) \in Message
             /\ Head(chan).kind = k
             /\ UNCHANGED <<win, initialized, reply, ideEditors, ideCurrent, selTimer>>
             /\ win # None /\ win \in Window /\ task # "aborted"
  BY <1>2, ReceiveFacts DEF Receive, ide, WindowOK, TypeOK
<1>3. CASE RecvInit
  BY <1>1, <1>2, <1>3 DEF RecvInit, Pull
<1>4. CASE ~RecvInit /\ RecvEditorsReply
  BY <1>1, <1>2, <1>4 DEF RecvEditorsReply, Pull, WindowOK, Pulls
<1>5. CASE ~RecvInit /\ RecvSelectionReply
  BY <1>1, <1>2, <1>5 DEF RecvSelectionReply, Pull, WindowOK, Pulls
<1>6. CASE ~RecvInit /\ RecvDiagsReply
  BY <1>1, <1>2, <1>6 DEF RecvDiagsReply, Pull, WindowOK, Pulls
<1>7. CASE ~RecvInit /\ RecvEditorsChanged
  BY <1>1, <1>2, <1>7 DEF RecvEditorsChanged, WindowOK
<1>8. CASE ~RecvInit /\ RecvSelectionChanged
  BY <1>1, <1>2, <1>8 DEF RecvSelectionChanged, WindowOK
<1>9. CASE ~RecvInit /\ LateReply
  BY <1>1, <1>2, <1>9 DEF LateReply, WindowOK
<1>10. CASE ~RecvInit /\ PullFails
  <2>1. /\ task \in Pulls /\ Pull(NextPull(task))
        /\ UNCHANGED <<win, initialized, reply, ideEditors, ideCurrent, selTimer, ready>>
    BY <1>10 DEF PullFails, ide
  <2>2. ready /\ win # None /\ win \in Window
    BY <2>1 DEF WindowOK, TypeOK
  <2>3. task' \in {"selection", "diags", "none"}
        /\ reqs' = IF task' = "none" THEN reqs ELSE Append(reqs, task')
    BY <2>1, NextPullFacts DEF Pull
  <2>4. \/ chan' = chan
        \/ chan # <<>> /\ chan' = Tail(chan) /\ Head(chan) \in Message
    BY <1>1, <1>10, TailFacts DEF PullFails
  <2> QED BY <1>1, <1>10, <2>1, <2>2, <2>3, <2>4
<1> QED BY <1>3, <1>4, <1>5, <1>6, <1>7, <1>8, <1>9, <1>10 DEF Reception

(* What that does to the cached list: it takes over the one that is read,   *)
(* or an answer that is too late is thrown away.                            *)
LEMMA ClientLists ==
    ASSUME TypeOK, Reception \/ PullFails
    PROVE  \/ UNCHANGED <<editors, source>> /\ chan' = chan
           \/ /\ UNCHANGED <<editors, source>> /\ chan # <<>> /\ chan' = Tail(chan)
              /\ Head(chan).kind \notin Events
           \/ /\ editors' = Head(chan).value /\ chan # <<>> /\ chan' = Tail(chan)
              /\ \/ Head(chan).kind = "editorsReply" /\ source' = "reply" /\ task = "editors"
                 \/ Head(chan).kind = "editors_changed" /\ source' = "event"
<1>1. CASE RecvInit
  BY <1>1 DEF RecvInit, Receive, cache, Events
<1>2. CASE RecvEditorsReply
  BY <1>2 DEF RecvEditorsReply, Receive
<1>3. CASE RecvSelectionReply \/ RecvDiagsReply \/ RecvSelectionChanged
  BY <1>3 DEF RecvSelectionReply, RecvDiagsReply, RecvSelectionChanged, Receive, cache, Events
<1>4. CASE RecvEditorsChanged
  BY <1>4 DEF RecvEditorsChanged, Receive
<1>5. CASE LateReply
  BY <1>5, KindFacts, CallFacts DEF LateReply, Receive, cache, Calls
<1>6. CASE PullFails
  BY <1>6, KindFacts, CallFacts DEF PullFails, cache, Calls
<1> QED BY <1>1, <1>2, <1>3, <1>4, <1>5, <1>6 DEF Reception

(* Whatever is read, the last selection_changed stays the current one.      *)
LEMMA ReadKeepsNotices ==
    ASSUME TypeOK, NoticeOK, NEW k, Receive(k)
    PROVE  NoticeOK'
<1>1. chan # <<>> /\ chan \in Seq(Message) /\ chan' = Tail(chan)
  BY ReceiveFacts DEF TypeOK
<1>2. UNCHANGED <<initialized, selTimer, ideCurrent>>
  BY DEF Receive, ide
<1>3. NoneOf(chan, Notices) => NoneOf(Tail(chan), Notices)
  BY <1>1, TailNone
<1>4. LastOf(chan, Notices, ideCurrent)
        => LastOf(Tail(chan), Notices, ideCurrent) \/ NoneOf(Tail(chan), Notices)
  BY <1>1, TailLast
<1> QED BY <1>1, <1>2, <1>3, <1>4 DEF NoticeOK

LEMMA WindowStep ==
    ASSUME TypeOK, WindowOK, NoticeOK, [Next]_vars
    PROVE  WindowOK' /\ NoticeOK'
<1>1. ASSUME NEW w \in Window, Connect(w) PROVE WindowOK' /\ NoticeOK'
  <2>1. WindowOK'
    BY <1>1, ConstantsAssumption DEF Connect, WindowOK
  <2> QED BY <1>1, <2>1, EmptyFacts DEF Connect, NoticeOK
<1>2. CASE Drop \/ CloseByHost
  <2>1. Disconnected
    BY <1>2 DEF Drop, CloseByHost
  <2> QED BY <2>1, EmptyFacts DEF Disconnected, WindowOK, NoticeOK, Pulls
<1>3. CASE EditorsEvent
  <2> DEFINE m == [kind |-> "editors_changed", value |-> ideEditors']
  <2>1. /\ win # None /\ win' = win /\ initialized' = initialized
        /\ UNCHANGED <<reqs, reply, ready, task>> /\ chan \in Seq(Message)
        /\ chan' = IF initialized THEN Append(chan, m) ELSE chan
        /\ ~selTimer' => ~selTimer /\ ideCurrent' = ideCurrent
    BY <1>3 DEF EditorsEvent, TypeOK, Broadcast
  <2>2. m \in Message /\ m.kind \notin Notices
    BY <1>3, MessageFacts, DataFacts, KindFacts DEF EditorsEvent, TypeOK, Lists
  <2> HIDE DEF m
  <2>3. WindowOK'
    BY <2>1 DEF WindowOK
  <2> QED BY <2>1, <2>2, <2>3, AppendNone, AppendKeepsLast DEF NoticeOK
<1>4. CASE SelectionEvent
  BY <1>4 DEF SelectionEvent, wire, WindowOK, NoticeOK
<1>5. CASE SelectionTimer
  <2> DEFINE m == [kind |-> "selection_changed", value |-> ideCurrent]
  <2>1. /\ win # None /\ win' = win /\ initialized' = initialized
        /\ UNCHANGED <<reqs, reply, ready, task, ideCurrent>> /\ chan \in Seq(Message)
        /\ chan' = IF initialized THEN Append(chan, m) ELSE chan
        /\ ~selTimer'
    BY <1>5 DEF SelectionTimer, TypeOK, WindowOK, Broadcast
  <2>2. m \in Message /\ m.kind \in Notices /\ m.value = ideCurrent
    BY MessageFacts, KindFacts DEF TypeOK
  <2> HIDE DEF m
  <2>3. WindowOK'
    BY <2>1 DEF WindowOK
  <2> QED BY <2>1, <2>2, <2>3, AppendIsLast DEF NoticeOK
<1>6. CASE ServeRequest
  <2> DEFINE m == Answer(Head(reqs))
  <2>1. /\ win # None /\ win' = win /\ chan \in Seq(Message)
        /\ Head(reqs) \in Pulls \cup {"init"}
        /\ initialized' = (initialized \/ Head(reqs) = "init")
        /\ UNCHANGED <<ready, task, ideCurrent, selTimer>>
    BY <1>6 DEF ServeRequest, TypeOK, WindowOK, ide
  <2>2. m \in Message /\ m.kind \in Replies /\ m.kind \notin Notices
    BY <2>1, AnswerFacts, KindFacts
  <2>3. \/ reply' = m /\ chan' = chan
        \/ reply' = reply /\ chan' = Append(chan, m)
    BY <1>6 DEF ServeRequest
  <2> HIDE DEF m
  <2>4. WindowOK'
    BY <2>1, <2>2, <2>3 DEF WindowOK
  <2> QED BY <2>1, <2>2, <2>3, <2>4, AppendNone, AppendKeepsLast DEF NoticeOK
<1>7. CASE SendReply
  <2>1. /\ win # None /\ win' = win
        /\ reply' = None /\ chan' = Append(chan, reply)
        /\ reply \in Message /\ reply.kind \in Replies /\ chan \in Seq(Message)
        /\ UNCHANGED <<initialized, reqs, ready, task, ideCurrent, selTimer>>
    BY <1>7 DEF SendReply, TypeOK, WindowOK, ide
  <2>2. WindowOK'
    BY <2>1 DEF WindowOK
  <2> QED BY <2>1, <2>2, KindFacts, AppendNone, AppendKeepsLast DEF NoticeOK
<1>8. CASE Reception \/ PullFails
  <2>1. WindowOK'
    BY <1>8, ClientStep DEF WindowOK
  <2>2. /\ UNCHANGED <<initialized, selTimer, ideCurrent>> /\ chan \in Seq(Message)
        /\ chan' = chan \/ (chan # <<>> /\ chan' = Tail(chan))
    BY <1>8, ClientStep DEF TypeOK
  <2>3. CASE chan' = chan
    BY <2>1, <2>2, <2>3 DEF NoticeOK
  <2>4. CASE chan # <<>> /\ chan' = Tail(chan)
    <3>1. NoneOf(chan, Notices) => NoneOf(Tail(chan), Notices)
      BY <2>2, <2>4, TailNone
    <3>2. LastOf(chan, Notices, ideCurrent)
            => LastOf(Tail(chan), Notices, ideCurrent) \/ NoneOf(Tail(chan), Notices)
      BY <2>2, <2>4, TailLast
    <3> QED BY <2>1, <2>2, <2>4, <3>1, <3>2 DEF NoticeOK
  <2> QED BY <2>2, <2>3, <2>4
<1>9. CASE Aborted
  BY <1>9 DEF Aborted, ide, wire, WindowOK, NoticeOK, Pulls
<1>10. CASE AgentTurn
  BY <1>10 DEF AgentTurn, ide, wire, WindowOK, NoticeOK
<1>11. CASE UNCHANGED vars
  BY <1>11 DEF vars, ide, wire, WindowOK, NoticeOK
<1> QED BY <1>1, <1>2, <1>3, <1>4, <1>5, <1>6, <1>7, <1>8, <1>9, <1>10, <1>11
        DEF Next, Connection, IdeEvent, Server

LEMMA EventsStep ==
    ASSUME TypeOK, WindowOK, EventsOK, [Next]_vars
    PROVE  EventsOK'
<1>1. ASSUME NEW w \in Window, Connect(w) PROVE EventsOK'
  BY <1>1, EmptyFacts DEF Connect, EventsOK
<1>2. CASE Drop \/ CloseByHost
  BY <1>2 DEF Drop, CloseByHost, Disconnected, EventsOK
<1>3. CASE EditorsEvent
  <2> DEFINE m == [kind |-> "editors_changed", value |-> ideEditors']
  <2>1. /\ win # None /\ UNCHANGED <<win, initialized, editors, source>>
        /\ chan \in Seq(Message)
        /\ chan' = IF initialized THEN Append(chan, m) ELSE chan
    BY <1>3 DEF EditorsEvent, TypeOK, Broadcast, cache
  <2>2. m \in Message /\ m.kind \in Events /\ m.value = ideEditors'
    BY <1>3, MessageFacts, DataFacts, KindFacts DEF EditorsEvent, TypeOK
  <2> HIDE DEF m
  <2> QED BY <2>1, <2>2, AppendIsLast DEF EventsOK
<1>4. CASE SelectionEvent
  BY <1>4 DEF SelectionEvent, wire, cache, EventsOK
<1>5. CASE SelectionTimer
  <2> DEFINE m == [kind |-> "selection_changed", value |-> ideCurrent]
  <2>1. /\ UNCHANGED <<win, initialized, editors, source, ideEditors>>
        /\ chan \in Seq(Message)
        /\ chan' = IF initialized THEN Append(chan, m) ELSE chan
    BY <1>5 DEF SelectionTimer, TypeOK, Broadcast, cache
  <2>2. m \in Message /\ m.kind \notin Events
    BY MessageFacts, KindFacts DEF TypeOK
  <2> HIDE DEF m
  <2> QED BY <2>1, <2>2, AppendNone, AppendKeepsLast DEF EventsOK
<1>6. CASE ServeRequest
  <2> DEFINE m == Answer(Head(reqs))
  <2>1. /\ UNCHANGED <<win, editors, source, ideEditors>> /\ chan \in Seq(Message)
        /\ initialized => initialized'
        /\ Head(reqs) \in Pulls \cup {"init"}
        /\ chan' = chan \/ chan' = Append(chan, m)
    BY <1>6 DEF ServeRequest, TypeOK, ide, cache
  <2>2. m \in Message /\ m.kind \notin Events
    BY <2>1, AnswerFacts, KindFacts
  <2> HIDE DEF m
  <2> QED BY <2>1, <2>2, AppendNone, AppendKeepsLast DEF EventsOK
<1>7. CASE SendReply
  <2>1. /\ UNCHANGED <<win, initialized, editors, source, ideEditors>>
        /\ chan' = Append(chan, reply) /\ chan \in Seq(Message)
        /\ reply \in Message /\ reply.kind \notin Events
    BY <1>7, KindFacts DEF SendReply, TypeOK, WindowOK, ide, cache
  <2> QED BY <2>1, AppendNone, AppendKeepsLast DEF EventsOK
<1>8. CASE Reception \/ PullFails
  <2>1. win # None /\ UNCHANGED <<win, initialized, ideEditors>> /\ chan \in Seq(Message)
    BY <1>8, ClientStep DEF TypeOK
  <2>2. CASE chan' = chan /\ UNCHANGED <<editors, source>>
    BY <2>1, <2>2 DEF EventsOK
  <2>3. CASE /\ UNCHANGED <<editors, source>> /\ chan # <<>> /\ chan' = Tail(chan)
             /\ Head(chan).kind \notin Events
    BY <2>1, <2>3, TailNone, TailLast DEF EventsOK
  <2>4. CASE /\ editors' = Head(chan).value /\ chan # <<>> /\ chan' = Tail(chan)
             /\ \/ Head(chan).kind = "editorsReply" /\ source' = "reply"
                \/ Head(chan).kind = "editors_changed" /\ source' = "event"
    BY <2>1, <2>4, KindFacts, TailNone, TailLast DEF EventsOK
  <2> QED BY <1>8, <2>2, <2>3, <2>4, ClientLists
<1>9. CASE Aborted \/ AgentTurn
  BY <1>9 DEF Aborted, AgentTurn, ide, wire, cache, EventsOK
<1>10. CASE UNCHANGED vars
  BY <1>10 DEF vars, ide, wire, cache, EventsOK
<1> QED BY <1>1, <1>2, <1>3, <1>4, <1>5, <1>6, <1>7, <1>8, <1>9, <1>10
        DEF Next, Connection, IdeEvent, Server

LEMMA VscodeStep ==
    ASSUME TypeOK, WindowOK, EventsOK, VscodeOK, [Next]_vars
    PROVE  VscodeOK'
<1>0. reqs \in Seq(Calls) /\ chan \in Seq(Message)
  BY DEF TypeOK, Calls
<1>1. ASSUME NEW w \in Window, Connect(w) PROVE VscodeOK'
  <2>1. ASSUME ~InJetBrains'
        PROVE  /\ ~initialized' /\ reqs' = <<"init">> /\ chan' = <<>> /\ reply' = None
               /\ ~ready' /\ source' = "earlier"
    BY <1>1, <2>1 DEF Connect, WindowOK, InJetBrains
  <2>2. /\ Once("init", <<"init">>, <<>>) /\ Once("editors", <<"init">>, <<>>)
        /\ Nowhere("editors", <<"init">>, <<>>)
    BY EmptyFacts DEF Once, Nowhere
  <2> QED BY <2>1, <2>2, EmptyFacts DEF VscodeOK, CallsOK, ListOK
<1>2. CASE Drop \/ CloseByHost
  BY <1>2 DEF Drop, CloseByHost, Disconnected, VscodeOK
<1>3. CASE EditorsEvent
  <2> SUFFICES ASSUME win # None, ~InJetBrains PROVE VscodeOK'
    BY <1>3 DEF EditorsEvent, VscodeOK, InJetBrains
  <2> DEFINE m == [kind |-> "editors_changed", value |-> ideEditors']
  <2>1. /\ UNCHANGED <<initialized, reqs, reply, ready, editors, source>>
        /\ chan' = IF initialized THEN Append(chan, m) ELSE chan
    BY <1>3 DEF EditorsEvent, Broadcast, cache
  <2>2. m \in Message /\ m.kind \notin Replies /\ m.kind \in Lists /\ m.value = ideEditors'
    BY <1>3, MessageFacts, DataFacts, KindFacts DEF EditorsEvent, TypeOK
  <2> HIDE DEF m
  <2>3. reply = None /\ CallsOK /\ ListOK
    BY DEF VscodeOK
  <2>4. CallsOK'
    BY <1>0, <2>1, <2>2, <2>3, Noticed, CallFacts DEF CallsOK
  <2>5. ListOK'
    <3>1. CASE initialized
      BY <1>0, <2>1, <2>2, <3>1, AppendIsLast DEF ListOK
    <3>2. CASE ~initialized
      BY <2>1, <2>3, <3>2, EmptyFacts DEF ListOK, CallsOK
    <3> QED BY <3>1, <3>2
  <2> QED BY <2>1, <2>3, <2>4, <2>5 DEF VscodeOK
<1>4. CASE SelectionEvent
  BY <1>4 DEF SelectionEvent, wire, cache, VscodeOK, CallsOK, ListOK, InJetBrains
<1>5. CASE SelectionTimer
  <2> SUFFICES ASSUME win # None, ~InJetBrains PROVE VscodeOK'
    BY <1>5 DEF SelectionTimer, VscodeOK, InJetBrains
  <2> DEFINE m == [kind |-> "selection_changed", value |-> ideCurrent]
  <2>1. /\ UNCHANGED <<initialized, reqs, reply, ready, editors, source, ideEditors>>
        /\ chan' = IF initialized THEN Append(chan, m) ELSE chan
    BY <1>5 DEF SelectionTimer, Broadcast, cache
  <2>2. m \in Message /\ m.kind \notin Replies /\ m.kind \notin Lists
    BY MessageFacts, KindFacts DEF TypeOK
  <2> HIDE DEF m
  <2>3. reply = None /\ CallsOK /\ ListOK
    BY DEF VscodeOK
  <2>4. CallsOK'
    BY <1>0, <2>1, <2>2, <2>3, Noticed, CallFacts DEF CallsOK
  <2>5. ListOK'
    BY <1>0, <2>1, <2>2, <2>3, AppendNone, AppendKeepsLast DEF ListOK
  <2> QED BY <2>1, <2>3, <2>4, <2>5 DEF VscodeOK
<1>6. CASE ServeRequest
  <2> SUFFICES ASSUME win # None, ~InJetBrains PROVE VscodeOK'
    BY <1>6 DEF ServeRequest, VscodeOK, InJetBrains
  <2> DEFINE m == Answer(Head(reqs))
  <2>1. /\ reqs # <<>> /\ reqs' = Tail(reqs) /\ chan' = Append(chan, m)
        /\ initialized' = (initialized \/ Head(reqs) = "init")
        /\ UNCHANGED <<reply, ready, editors, source, ideEditors>>
    BY <1>6 DEF ServeRequest, ide, cache
  <2>2. /\ m \in Message /\ m.kind = ReplyTo(Head(reqs))
        /\ m.kind \in Lists => m.value = ideEditors
    <3>1. Head(reqs) \in Pulls \cup {"init"}
      BY <1>0, <2>1 DEF Calls
    <3> QED BY <3>1, AnswerFacts, KindFacts
  <2> HIDE DEF m
  <2>3. reply = None /\ CallsOK /\ ListOK
    BY DEF VscodeOK
  <2>4. initialized'
    <3>1. initialized \/ reqs = <<"init">>
      BY <2>3 DEF CallsOK, TypeOK
    <3>2. reqs = <<"init">> => Head(reqs) = "init"
      OBVIOUS
    <3> QED BY <2>1, <3>1, <3>2 DEF TypeOK
  <2>5. CallsOK'
    BY <1>0, <2>1, <2>2, <2>3, <2>4, Answered, CallFacts DEF CallsOK
  <2>6. ListOK'
    <3>1. CASE m.kind \in Lists
      BY <1>0, <2>1, <2>2, <3>1, AppendIsLast DEF ListOK
    <3>2. CASE m.kind \notin Lists
      BY <1>0, <2>1, <2>2, <2>3, <3>2, AppendNone, AppendKeepsLast DEF ListOK
    <3> QED BY <3>1, <3>2
  <2> QED BY <2>1, <2>3, <2>5, <2>6 DEF VscodeOK
<1>7. CASE SendReply
  BY <1>7 DEF SendReply, VscodeOK, InJetBrains
<1>8. CASE Reception \/ PullFails
  <2>1. /\ UNCHANGED <<win, initialized, reply, ideEditors>>
        /\ InJetBrains' = InJetBrains
    BY <1>8, ClientStep DEF InJetBrains
  <2> SUFFICES ASSUME win # None, ~InJetBrains PROVE VscodeOK'
    BY <2>1 DEF VscodeOK
  <2>2. reply = None /\ CallsOK /\ ListOK
    BY DEF VscodeOK
  <2>3. initialized
    BY <1>8, <2>2, ClientStep DEF CallsOK
  <2>4. source' = "reply" => \/ source = "reply"
                             \/ /\ chan # <<>> /\ chan' = Tail(chan) /\ ready
                                /\ Head(chan).kind = "editorsReply"
    BY <1>8, ClientLists DEF WindowOK, Pulls
  <2>5. CallsOK'
    <3>1. CASE RecvInit
      <4>1. /\ chan # <<>> /\ chan' = Tail(chan) /\ Head(chan).kind = ReplyTo("init")
            /\ reqs' = Append(reqs, "editors") /\ ready'
        BY <3>1, <1>8, ClientStep, CallFacts
      <4>2. ~ready /\ Nowhere("editors", reqs, chan) /\ source # "reply"
        BY <1>0, <2>2, <4>1, Taken, CallFacts DEF CallsOK
      <4>3. Nowhere("init", reqs, chan') /\ Nowhere("editors", reqs, chan')
        BY <1>0, <2>2, <4>1, <4>2, Taken, CallFacts DEF CallsOK
      <4>4. chan' \in Seq(Message)
        BY <1>0, <4>1, TailFacts
      <4>5. /\ Nowhere("init", reqs', chan') /\ Once("init", reqs', chan')
            /\ Once("editors", reqs', chan')
        <5>1. Nowhere("init", reqs', chan') /\ Once("editors", reqs', chan')
          BY <1>0, <4>1, <4>3, <4>4, Asked, CallFacts
        <5>2. reqs' \in Seq(Calls)
          BY <1>0, <4>1, CallFacts
        <5> QED BY <4>4, <5>1, <5>2, Asked, CallFacts
      <4>6. source' # "reply"
        BY <2>4, <4>2
      <4> QED BY <2>1, <2>3, <4>1, <4>5, <4>6 DEF CallsOK
    <3>2. CASE ~RecvInit
      <4>1. /\ ready' = ready
            /\ chan' = chan \/ (chan # <<>> /\ chan' = Tail(chan))
            /\ \/ reqs' = reqs
               \/ reqs' = Append(reqs, "selection")
               \/ reqs' = Append(reqs, "diags")
        BY <3>2, <1>8, ClientStep DEF TypeOK
      <4>2. chan' \in Seq(Message)
        BY <1>0, <4>1, TailFacts
      <4>3. \A c \in Calls : /\ Once(c, reqs, chan) => Once(c, reqs, chan')
                             /\ Nowhere(c, reqs, chan) => Nowhere(c, reqs, chan')
        BY <1>0, <4>1, Taken
      <4>4. \A c \in {"init", "editors"} :
                /\ Once(c, reqs, chan') => Once(c, reqs', chan')
                /\ Nowhere(c, reqs, chan') => Nowhere(c, reqs', chan')
        <5>1. {"init", "editors", "selection", "diags"} = Calls
          BY DEF Calls, Pulls
        <5> QED BY <1>0, <4>1, <4>2, <5>1, Asked
      <4>5. source' = "reply" => Nowhere("editors", reqs, chan')
        <5>1. CASE source = "reply"
          BY <2>2, <4>3, <5>1, CallFacts DEF CallsOK
        <5>2. CASE source' = "reply" /\ source # "reply"
          BY <1>0, <2>2, <2>4, <5>2, Taken, CallFacts DEF CallsOK
        <5> QED BY <5>1, <5>2
      <4>6. ~ready' => source' # "reply"
        BY <2>2, <2>4, <4>1 DEF CallsOK
      <4> QED BY <2>1, <2>2, <2>3, <4>1, <4>3, <4>4, <4>5, <4>6, CallFacts DEF CallsOK
    <3> QED BY <3>1, <3>2
  <2>6. ListOK'
    <3>1. CASE UNCHANGED <<editors, source>> /\ chan' = chan
      BY <2>1, <2>2, <3>1 DEF ListOK
    <3>2. CASE /\ UNCHANGED <<editors, source>> /\ chan # <<>> /\ chan' = Tail(chan)
               /\ Head(chan).kind \notin Events
      <4>1. CASE LastOf(Tail(chan), Lists, ideEditors)
        BY <2>1, <3>2, <4>1 DEF ListOK
      <4>2. CASE NoneOf(chan, Lists)
        BY <1>0, <2>1, <2>2, <3>2, <4>2, TailNone, TailLast DEF ListOK
      <4>3. CASE Head(chan).kind \in Lists /\ NoneOf(Tail(chan), Lists)
        <5>1. Head(chan).kind = "editorsReply"
          BY <3>2, <4>3 DEF Lists, Events
        <5>2. source # "reply"
          BY <1>0, <2>2, <3>2, <5>1, Taken, CallFacts DEF CallsOK
        <5>3. NoneOf(Tail(chan), Events)
          BY <4>3 DEF NoneOf, Lists, Events
        <5>4. ~LastOf(chan, Events, ideEditors)
          <6>1. ~LastOf(Tail(chan), Events, ideEditors)
            BY <5>3 DEF NoneOf, LastOf
          <6> QED BY <1>0, <3>2, <6>1, TailLast
        <5>5. source = "event" => editors = ideEditors
          BY <5>4 DEF EventsOK
        <5> QED BY <2>1, <3>2, <4>3, <5>2, <5>5 DEF ListOK, TypeOK, Sources
      <4> QED BY <1>0, <2>2, <3>2, <4>1, <4>2, <4>3, TailLast DEF ListOK
    <3>3. CASE /\ editors' = Head(chan).value /\ chan # <<>> /\ chan' = Tail(chan)
               /\ Head(chan).kind \in Lists
      BY <1>0, <2>1, <2>2, <3>3, TailNone, TailLast DEF ListOK
    <3> QED BY <1>8, <3>1, <3>2, <3>3, ClientLists, KindFacts
  <2> QED BY <2>1, <2>2, <2>5, <2>6 DEF VscodeOK
<1>9. CASE Aborted \/ AgentTurn
  BY <1>9 DEF Aborted, AgentTurn, ide, wire, cache, VscodeOK, CallsOK, ListOK, InJetBrains
<1>10. CASE UNCHANGED vars
  BY <1>10 DEF vars, ide, wire, cache, VscodeOK, CallsOK, ListOK, InJetBrains
<1> QED BY <1>1, <1>2, <1>3, <1>4, <1>5, <1>6, <1>7, <1>8, <1>9, <1>10
        DEF Next, Connection, IdeEvent, Server

(* What the client remembers and shows.                                     *)
LEMMA CacheStep ==
    ASSUME TypeOK, WindowOK, ToldHere, NothingShownWithoutEditors, [Next]_vars
    PROVE  ToldHere' /\ NothingShownWithoutEditors'
<1>1. ASSUME NEW w \in Window, Connect(w)
      PROVE  ToldHere' /\ NothingShownWithoutEditors'
  BY <1>1 DEF Connect, WindowOK, ToldHere, NothingShownWithoutEditors
<1>2. CASE Drop \/ CloseByHost
  BY <1>2 DEF Drop, CloseByHost, Disconnected, ToldHere, NothingShownWithoutEditors
<1>3. CASE IdeEvent
  BY <1>3 DEF IdeEvent, EditorsEvent, SelectionEvent, SelectionTimer, cache, turn,
              ToldHere, NothingShownWithoutEditors
<1>4. CASE Server
  BY <1>4 DEF Server, ServeRequest, SendReply, cache, turn,
              ToldHere, NothingShownWithoutEditors
<1>5. CASE Reception
  <2>1. CASE RecvInit
    BY <2>1 DEF RecvInit, Pull, ToldHere, NothingShownWithoutEditors
  <2>2. CASE RecvEditorsReply \/ RecvSelectionReply
    BY <2>2 DEF RecvEditorsReply, RecvSelectionReply, Receive, Pull, turn,
                ToldHere, NothingShownWithoutEditors
  <2>3. CASE RecvDiagsReply
    BY <2>3 DEF RecvDiagsReply, Receive, cache, turn, Effective,
                ToldHere, NothingShownWithoutEditors
  <2>4. CASE RecvEditorsChanged \/ RecvSelectionChanged
    BY <2>4 DEF RecvEditorsChanged, RecvSelectionChanged, Receive, turn, Effective,
                ToldHere, NothingShownWithoutEditors
  <2>5. CASE LateReply
    BY <2>5 DEF LateReply, Receive, cache, turn, ToldHere, NothingShownWithoutEditors
  <2> QED BY <1>5, <2>1, <2>2, <2>3, <2>4, <2>5 DEF Reception
<1>6. CASE Aborted
  BY <1>6 DEF Aborted, cache, turn, Effective, ToldHere, NothingShownWithoutEditors
<1>7. CASE AgentTurn
  BY <1>7 DEF AgentTurn, Context, cache, ToldHere, NothingShownWithoutEditors
<1>8. CASE PullFails
  BY <1>8 DEF PullFails, Pull, NextPull, Pulls, cache, turn, Effective,
              ToldHere, NothingShownWithoutEditors
<1>9. CASE UNCHANGED vars
  BY <1>9 DEF vars, cache, turn, ToldHere, NothingShownWithoutEditors
<1> QED BY <1>1, <1>2, <1>3, <1>4, <1>5, <1>6, <1>7, <1>8, <1>9 DEF Next, Connection

-----------------------------------------------------------------------------
(* Theorems *)

LEMMA InitIInv == Init => IInv
<1> SUFFICES ASSUME Init PROVE IInv
  OBVIOUS
<1>1. <<>> \in Seq(Pulls \cup {"init"}) /\ <<>> \in Seq(Message)
  OBVIOUS
<1>2. TypeOK
  BY <1>1, DataFacts DEF Init, TypeOK, Sources
<1>3. WindowOK /\ NoticeOK /\ EventsOK /\ VscodeOK
  BY EmptyFacts DEF Init, WindowOK, NoticeOK, EventsOK, VscodeOK, Pulls
<1>4. ToldHere /\ NothingShownWithoutEditors
  BY DEF Init, ToldHere, NothingShownWithoutEditors
<1> QED BY <1>2, <1>3, <1>4 DEF IInv

LEMMA NextIInv == IInv /\ [Next]_vars => IInv'
BY TypeStep, WindowStep, EventsStep, VscodeStep, CacheStep DEF IInv

LEMMA Inductive == Spec => []IInv
BY InitIInv, NextIInv, PTL DEF Spec

(* Every message, cached value and history variable keeps its type.         *)
THEOREM TypeCorrect == Spec => []TypeOK
<1>1. IInv => TypeOK
  BY DEF IInv
<1> QED BY <1>1, Inductive, PTL

(* Once the initial pull is over and everything that was sent has arrived,  *)
(* a list of editors that an event brought is the window's own, and of VS   *)
(* Code also one that the pull brought: in whatever order tab events,       *)
(* requests and replies entered the socket, and whichever calls failed      *)
(* (server.ts handleRequest and broadcast, core.ts pullInitialState).       *)
THEOREM EditorsInSyncUnlessOvertakenHolds == Spec => []EditorsInSyncUnlessOvertaken
<1>1. ASSUME IInv PROVE EditorsInSyncUnlessOvertaken
  <2> SUFFICES ASSUME source = "event" \/ ~InJetBrains, Settled, source # "earlier"
               PROVE  editors = ideEditors
    BY DEF EditorsInSyncUnlessOvertaken, EditorsInSync
  <2>1. win # None /\ chan = <<>>
    BY <1>1 DEF Settled, IInv, WindowOK
  <2>2. CASE source = "event"
    BY <1>1, <2>1, <2>2, EmptyFacts DEF IInv, EventsOK
  <2>3. CASE ~InJetBrains
    BY <1>1, <2>1, <2>3, EmptyFacts DEF IInv, VscodeOK, ListOK
  <2> QED BY <2>2, <2>3
<1> QED BY <1>1, Inductive, PTL

(* A context counts as said only on the connection that carried it          *)
(* (core.ts open() and onClose clear lastInjection).                        *)
THEOREM ToldHereHolds == Spec => []ToldHere
<1>1. IInv => ToldHere
  BY DEF IInv
<1> QED BY <1>1, Inductive, PTL

(* Once the initial pull is over, the status line shows no selection while  *)
(* the list of editors is empty (core.ts, editors_changed and               *)
(* effectiveSelection).                                                     *)
THEOREM NothingShownHolds == Spec => []NothingShownWithoutEditors
<1>1. IInv => NothingShownWithoutEditors
  BY DEF IInv
<1> QED BY <1>1, Inductive, PTL

(* The selection_changed that leaves nothing behind it in the socket is the *)
(* IDE's current selection, unless the debounce runs (vscode-adapter.ts     *)
(* scheduleSelection, Listeners.kt).                                        *)
THEOREM LastNoticeIsCurrentHolds == Spec => LastNoticeIsCurrent
<1>1. ASSUME IInv, [Next]_vars
      PROVE  [RecvSelectionChanged /\ task = "none" /\ chan' = <<>> /\ ~selTimer
                => currentSelection' = ideCurrent]_vars
  <2> SUFFICES ASSUME RecvSelectionChanged, chan' = <<>>, ~selTimer
               PROVE  currentSelection' = ideCurrent
    OBVIOUS
  <2>1. Receive("selection_changed") /\ currentSelection' = Head(chan).value
    BY DEF RecvSelectionChanged
  <2>2. /\ chan # <<>> /\ chan \in Seq(Message) /\ Tail(chan) = <<>>
        /\ Head(chan).kind \in Notices
    BY <1>1, <2>1, ReceiveFacts, KindFacts DEF IInv, TypeOK
  <2>3. ~NoneOf(chan, Notices)
    BY <2>2, TailNone
  <2>4. LastOf(chan, Notices, ideCurrent)
    BY <1>1, <2>3 DEF IInv, NoticeOK
  <2>5. Head(chan).value = ideCurrent
    BY <2>2, <2>4, TailLast, EmptyFacts
  <2> QED BY <2>1, <2>5
<1> QED BY <1>1, Inductive, PTL DEF Spec, LastNoticeIsCurrent
=============================================================================
