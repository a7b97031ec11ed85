----------------------- MODULE BridgeConnectionProofs -----------------------
(***************************************************************************)
(* Proofs about BridgeConnection, for every set of client objects and of   *)
(* IDEs.                                                                   *)
(***************************************************************************)
EXTENDS BridgeConnection, TLAPS

-----------------------------------------------------------------------------
(* The inductive invariant *)

(* What a client record may combine, whatever the bridge does with it. *)
RecordOK(r) ==
    /\ r.ide => r.sock = "open"
    /\ r.task \in Pulling => r.sock = "open" /\ r.ide
    /\ r.task \in Settled => r.sock = "closed"
    /\ r.task = "connect" => ~r.ide
    /\ r.sock = "connecting" => r.task = "connect"
    /\ r.sock = "open" /\ ~r.ide => r.task = "connect"
    /\ r.sock \in {"connecting", "open"} =>
            r.port # None /\ ~r.byUs /\ ~r.notified

IInv ==
    /\ TypeOK
    /\ \A c \in Client : RecordOK(cl[c])
    /\ OneLiveSocket
    /\ StoppedIsQuiet

(* DisposeSocket keeps records well formed and leaves no live socket. *)
LEMMA DisposeRecord ==
    ASSUME NEW r \in ClientState, RecordOK(r)
    PROVE  /\ DisposeSocket(r) \in ClientState
           /\ RecordOK(DisposeSocket(r))
           /\ DisposeSocket(r).sock = "closed"
           /\ DisposeSocket(r).port = r.port
           /\ DisposeSocket(r).notified = r.notified
<1>1. TaskWithoutSocket(r) \in {"none", "connect", "failed", "aborted"}
  BY DEF TaskWithoutSocket, ClientState, Pulling, Settled
<1> QED
  BY <1>1 DEF DisposeSocket, RecordOK, ClientState, Pulling, Settled

LEMMA CloseRecord ==
    ASSUME NEW r \in ClientState, RecordOK(r)
    PROVE  /\ Close(r) \in ClientState
           /\ RecordOK(Close(r))
           /\ Close(r).sock = "closed"
           /\ Close(r).notified = r.notified
<1> DEFINE s == DisposeSocket(r)
<1>1. /\ s \in ClientState
      /\ RecordOK(s)
      /\ s.sock = "closed"
      /\ s.notified = r.notified
  BY DisposeRecord
<1> HIDE DEF s
<1>2. /\ [s EXCEPT !.byUs = TRUE] \in ClientState
      /\ RecordOK([s EXCEPT !.byUs = TRUE])
      /\ [s EXCEPT !.byUs = TRUE].sock = "closed"
      /\ [s EXCEPT !.byUs = TRUE].notified = r.notified
  BY <1>1 DEF RecordOK, ClientState
<1> QED
  BY <1>2 DEF Close, s

LEMMA RejectedRecord ==
    ASSUME NEW r \in ClientState, RecordOK(r)
    PROVE  /\ Rejected(r) \in ClientState
           /\ RecordOK(Rejected(r))
           /\ Rejected(r).sock = "closed"
           /\ Rejected(r).task = "failed"
           /\ Rejected(r).notified = r.notified
BY DisposeRecord DEF Rejected, RecordOK, ClientState, Pulling, Settled

LEMMA FreshRecord ==
    ASSUME NEW p \in Ide, NEW user \in BOOLEAN
    PROVE  /\ Fresh(p, user) \in ClientState
           /\ RecordOK(Fresh(p, user))
           /\ Fresh(p, user).sock = "connecting"
           /\ Fresh(p, user).port = p
           /\ Fresh(p, user).user = user
           /\ ~Fresh(p, user).ide
           /\ ~Fresh(p, user).notified
BY ConstantsAssumption
   DEF Fresh, Unused, RecordOK, ClientState, Pulling, Settled

-----------------------------------------------------------------------------
(* Steps that several actions share *)

LEMMA PicksAreIdes == TypeOK => Picks \subseteq Ide
BY ConstantsAssumption DEF TypeOK, Picks

(* Replacing the record of one client, without giving it a new socket. *)
LEMMA UpdateStep ==
    ASSUME IInv, NEW c \in Client, NEW r \in ClientState, RecordOK(r),
           r.sock \in {"connecting", "open"} => Live(c),
           cl' = [cl EXCEPT ![c] = r],
           live' = live, stopped' = stopped, current' = current, timer' = timer
    PROVE  IInv'
<1>1. \A d \in Client : cl'[d] = IF d = c THEN r ELSE cl[d]
  BY DEF IInv, TypeOK
<1>2. \A d \in Client : RecordOK(cl'[d])
  BY <1>1 DEF IInv
<1>3. TypeOK'
  BY <1>2 DEF IInv, TypeOK, RecordOK, Live
<1>4. \A d \in Client : Live(d)' => Live(d)
  BY <1>1 DEF Live
<1>5. OneLiveSocket' /\ StoppedIsQuiet'
  BY <1>4 DEF IInv, OneLiveSocket, StoppedIsQuiet
<1> QED
  BY <1>2, <1>3, <1>5 DEF IInv

(* open(): the new client's socket is the only live one. *)
LEMMA OpenStep ==
    ASSUME IInv, NEW p \in Ide, NEW user \in BOOLEAN, Open(p, user),
           live' \subseteq Ide, stopped' = FALSE, timer' \in BOOLEAN
    PROVE  /\ IInv'
           /\ HasLink'
           /\ cl'[current'] = Fresh(p, user)
           /\ \A d \in Client : cl'[d].notified => cl[d].notified
<1>1. PICK c \in Client :
        /\ Free(c)
        /\ cl' = [d \in Client |->
                    IF d = c THEN Fresh(p, user)
                    ELSE IF d = current THEN Close(cl[d]) ELSE cl[d]]
        /\ current' = c
  BY DEF Open
<1>2. \A d \in Client : cl[d] \in ClientState /\ RecordOK(cl[d])
  BY DEF IInv, TypeOK
<1>3. /\ Fresh(p, user) \in ClientState
      /\ RecordOK(Fresh(p, user))
      /\ Fresh(p, user).sock = "connecting"
      /\ ~Fresh(p, user).notified
  BY FreshRecord
<1>4. \A d \in Client : /\ Close(cl[d]) \in ClientState
                        /\ RecordOK(Close(cl[d]))
                        /\ Close(cl[d]).sock = "closed"
                        /\ Close(cl[d]).notified = cl[d].notified
  BY <1>2, CloseRecord
<1>5. \A d \in Client : RecordOK(cl'[d])
  BY <1>1, <1>2, <1>3, <1>4
<1>6. TypeOK'
  BY <1>1, <1>2, <1>3, <1>4, <1>5 DEF TypeOK, RecordOK, Live
<1>7. ASSUME NEW d \in Client, Live(d)' PROVE d = c
  <2>1. CASE d = current
    BY <1>1, <1>4, <1>7, <2>1 DEF Live
  <2>2. CASE d # current /\ d # c
    BY <1>1, <1>7, <2>2 DEF Live, IInv, OneLiveSocket
  <2> QED
    BY <2>1, <2>2
<1>8. HasLink'
  BY <1>1, <1>3, ConstantsAssumption DEF HasLink, Live
<1>9. \A d \in Client : cl'[d].notified => cl[d].notified
  BY <1>1, <1>3, <1>4
<1> QED
  BY <1>1, <1>5, <1>6, <1>7, <1>8, <1>9 DEF IInv, OneLiveSocket, StoppedIsQuiet

LEMMA TryConnectStep ==
    ASSUME IInv, NEW t \in BOOLEAN, TryConnect(t),
           live' = live, stopped' = FALSE
    PROVE  /\ IInv'
           /\ timer' \/ HasLink'
           /\ \A d \in Client : cl'[d].notified => cl[d].notified
<1>1. CASE Connected /\ timer' = t /\ UNCHANGED <<current, cl>>
  BY <1>1 DEF IInv, TypeOK, OneLiveSocket, StoppedIsQuiet, Live, Connected,
              HasLink
<1>2. CASE timer' = TRUE /\ UNCHANGED <<current, cl>>
  BY <1>2 DEF IInv, TypeOK, OneLiveSocket, StoppedIsQuiet, Live
<1>3. CASE timer' = t /\ \E p \in Picks : Open(p, FALSE)
  <2>1. PICK p \in Picks : Open(p, FALSE)
    BY <1>3
  <2>2. p \in Ide /\ live' \subseteq Ide
    BY PicksAreIdes DEF IInv, TypeOK
  <2> QED
    BY <1>3, <2>1, <2>2, OpenStep
<1> QED
  BY <1>1, <1>2, <1>3 DEF TryConnect

(* A close reported by the only live socket: when it reaches onClose, the   *)
(* client it discards is its own.                                           *)
LEMMA CloseStep ==
    ASSUME IInv, NEW c \in Client, Live(c),
           NEW r \in ClientState, RecordOK(r), r.sock = "closed",
           NotifyUnexpectedClose(c, r), live' = live, stopped' = stopped
    PROVE  IInv'
<1> DEFINE rr == [r EXCEPT !.notified = TRUE]
<1>1. c = current /\ ~stopped
  BY DEF IInv, OneLiveSocket, StoppedIsQuiet
<1>2. CASE cl' = [cl EXCEPT ![c] = r] /\ UNCHANGED <<current, timer>>
  BY <1>2, UpdateStep
<1>3. CASE /\ cl' = [cl EXCEPT ![c] = rr]
           /\ current' = None
           /\ ScheduleReconnect(timer)
  <2>1. rr \in ClientState /\ RecordOK(rr) /\ rr.sock = "closed"
    BY DEF ClientState, RecordOK
  <2>2. \A d \in Client : cl'[d] = IF d = c THEN rr ELSE cl[d]
    BY <1>3 DEF IInv, TypeOK
  <2>3. \A d \in Client : RecordOK(cl'[d])
    BY <2>1, <2>2 DEF IInv
  <2>4. TypeOK'
    BY <1>3, <2>1, <2>3
    DEF IInv, TypeOK, ScheduleReconnect, RecordOK, Live
  <2>5. \A d \in Client : ~Live(d)'
    BY <1>1, <2>1, <2>2 DEF IInv, OneLiveSocket, Live
  <2> QED
    BY <1>1, <1>3, <2>3, <2>4, <2>5 DEF IInv, OneLiveSocket, StoppedIsQuiet
<1> QED
  BY <1>2, <1>3 DEF NotifyUnexpectedClose

-----------------------------------------------------------------------------
(* IInv is inductive *)

LEMMA InitIInv == Init => IInv
<1> SUFFICES ASSUME Init PROVE IInv
  OBVIOUS
<1>1. /\ Unused \in ClientState
      /\ RecordOK(Unused)
      /\ Unused.sock = "none"
  BY DEF Unused, ClientState, RecordOK, Pulling, Settled
<1>2. \A c \in Client : cl[c] = Unused
  BY DEF Init
<1>3. TypeOK
  BY <1>1, <1>2 DEF Init, TypeOK, Live
<1>4. \A c \in Client : RecordOK(cl[c]) /\ ~Live(c)
  BY <1>1, <1>2 DEF Live
<1> QED
  BY <1>3, <1>4 DEF Init, IInv, OneLiveSocket, StoppedIsQuiet

LEMMA HostStep == IInv /\ Host => IInv'
<1> SUFFICES ASSUME IInv, Host PROVE IInv'
  OBVIOUS
<1>1. CASE Start
  BY <1>1, TryConnectStep DEF Start, IInv, TypeOK
<1>2. CASE Stop
  <2>1. \A c \in Client : cl[c] \in ClientState /\ RecordOK(cl[c])
    BY DEF IInv, TypeOK
  <2>2. \A c \in Client : /\ Close(cl[c]) \in ClientState
                          /\ RecordOK(Close(cl[c]))
                          /\ Close(cl[c]).sock = "closed"
    BY <2>1, CloseRecord
  <2>3. \A c \in Client : RecordOK(cl'[c])
    BY <1>2, <2>1, <2>2 DEF Stop
  <2>4. TypeOK'
    BY <1>2, <2>1, <2>2, <2>3 DEF Stop, IInv, TypeOK, RecordOK, Live
  <2>5. \A c \in Client : ~Live(c)'
    BY <1>2, <2>2 DEF Stop, IInv, OneLiveSocket, Live
  <2> QED
    BY <1>2, <2>3, <2>4, <2>5 DEF Stop, IInv, OneLiveSocket, StoppedIsQuiet
<1>3. CASE ConnectToMiss
  BY <1>3 DEF ConnectToMiss, IInv, TypeOK, OneLiveSocket, StoppedIsQuiet, Live
<1>4. ASSUME NEW p \in Ide, ConnectTo(p) PROVE IInv'
  BY <1>4, OpenStep DEF ConnectTo, IInv, TypeOK
<1> QED
  BY <1>1, <1>2, <1>3, <1>4 DEF Host

LEMMA TimerStep == IInv /\ TimerFires => IInv'
<1> SUFFICES ASSUME IInv, TimerFires PROVE IInv'
  OBVIOUS
<1>1. CASE stopped
  BY <1>1 DEF TimerFires, IInv, StoppedIsQuiet
<1>2. CASE ~stopped
  <2>1. TryConnect(FALSE) /\ live' = live /\ stopped' = FALSE
    BY <1>2 DEF TimerFires, IInv, TypeOK
  <2> QED
    BY <2>1, TryConnectStep
<1> QED
  BY <1>1, <1>2

LEMMA ProgressStep ==
    ASSUME IInv, NEW c \in Client, Progress(c)
    PROVE  IInv'
<1>1. cl[c] \in ClientState /\ RecordOK(cl[c])
  BY DEF IInv, TypeOK
<1>2. CASE SocketOpen(c)
  <2> DEFINE r == [cl[c] EXCEPT !.sock = "open"]
  <2>1. r \in ClientState /\ RecordOK(r) /\ cl' = [cl EXCEPT ![c] = r]
    BY <1>1, <1>2 DEF SocketOpen, ClientState, RecordOK, Pulling, Settled
  <2> QED
    BY <1>2, <2>1, UpdateStep DEF SocketOpen, Live
<1>3. CASE InitializeOk(c)
  <2> DEFINE r == [cl[c] EXCEPT !.ide = TRUE, !.task = "editors"]
  <2>1. r \in ClientState /\ RecordOK(r) /\ cl' = [cl EXCEPT ![c] = r]
    BY <1>1, <1>3 DEF InitializeOk, ClientState, RecordOK, Pulling, Settled
  <2> QED
    BY <1>3, <2>1, UpdateStep DEF InitializeOk, Live
<1>4. CASE PullStep(c)
  <2>0. NextPull(cl[c].task) \subseteq {"selection", "diags", "none"}
    BY Z3 DEF NextPull
  <2>1. PICK t \in {"selection", "diags", "none"} :
          cl' = [cl EXCEPT ![c].task = t]
    BY <1>4, <2>0 DEF PullStep
  <2> DEFINE r == [cl[c] EXCEPT !.task = t]
  <2>2. /\ r \in ClientState /\ RecordOK(r) /\ r.sock = cl[c].sock
        /\ cl' = [cl EXCEPT ![c] = r]
    BY <1>1, <1>4, <2>1
    DEF PullStep, ClientState, RecordOK, Pulling, Settled
  <2> HIDE DEF r
  <2> QED
    BY <1>4, <2>2, UpdateStep DEF PullStep, Live
<1> QED
  BY <1>2, <1>3, <1>4 DEF Progress

LEMMA FaultStep ==
    ASSUME IInv, NEW c \in Client, Faults(c)
    PROVE  IInv'
<1>1. cl[c] \in ClientState /\ RecordOK(cl[c])
  BY DEF IInv, TypeOK
<1>2. /\ DisposeSocket(cl[c]) \in ClientState
      /\ RecordOK(DisposeSocket(cl[c]))
      /\ DisposeSocket(cl[c]).sock = "closed"
  BY <1>1, DisposeRecord
<1>3. /\ Rejected(cl[c]) \in ClientState
      /\ RecordOK(Rejected(cl[c]))
      /\ Rejected(cl[c]).sock = "closed"
  BY <1>1, RejectedRecord
<1>4. CASE ConnectFails(c)
  BY <1>3, <1>4, UpdateStep DEF ConnectFails
<1>5. CASE SocketClosed(c)
  <2>1. CASE cl[c].ide
    BY <1>2, <1>5, <2>1, CloseStep DEF SocketClosed
  <2>2. CASE ~cl[c].ide
    BY <1>3, <1>5, <2>2, CloseStep DEF SocketClosed
  <2> QED
    BY <2>1, <2>2
<1>6. CASE SocketError(c)
  BY <1>2, <1>6, UpdateStep DEF SocketError
<1>7. CASE ShutdownNotice(c)
  BY <1>2, <1>7, CloseStep DEF ShutdownNotice, Live
<1>8. CASE InitializeFails(c)
  BY <1>3, <1>8, UpdateStep DEF InitializeFails
<1> QED
  BY <1>4, <1>5, <1>6, <1>7, <1>8 DEF Faults

LEMMA ContinueStep ==
    ASSUME IInv, NEW c \in Client, Continue(c)
    PROVE  IInv'
<1> DEFINE r == [cl[c] EXCEPT !.task = "none"]
<1>1. cl[c] \in ClientState /\ RecordOK(cl[c])
  BY DEF IInv, TypeOK
<1>2. /\ r \in ClientState /\ RecordOK(r)
      /\ r.sock = "closed" /\ ~Live(c)
      /\ cl' = [cl EXCEPT ![c] = r]
  BY <1>1 DEF Continue, OpenFailed, OpenAborted, ClientState, RecordOK,
              Pulling, Settled, Live
<1>3. CASE OpenAborted(c)
  BY <1>2, <1>3, UpdateStep DEF OpenAborted
<1>4. CASE OpenFailed(c)
  <2>1. \A d \in Client : cl'[d] = IF d = c THEN r ELSE cl[d]
    BY <1>2 DEF IInv, TypeOK
  <2>2. \A d \in Client : RecordOK(cl'[d])
    BY <1>2, <2>1 DEF IInv
  <2>3. TypeOK'
    BY <1>2, <1>4, <2>2
    DEF OpenFailed, ScheduleReconnect, IInv, TypeOK, RecordOK, Live
  <2>4. \A d \in Client : Live(d)' => Live(d) /\ d # c
    BY <1>2, <2>1 DEF Live
  <2>5. OneLiveSocket' /\ StoppedIsQuiet'
    BY <1>4, <2>4
    DEF OpenFailed, ScheduleReconnect, IInv, OneLiveSocket, StoppedIsQuiet
  <2> QED
    BY <2>2, <2>3, <2>5 DEF IInv
<1> QED
  BY <1>3, <1>4 DEF Continue

LEMMA NextIInv == IInv /\ [Next]_vars => IInv'
<1> SUFFICES ASSUME IInv, [Next]_vars PROVE IInv'
  OBVIOUS
<1>1. CASE Host
  BY <1>1, HostStep
<1>2. CASE TimerFires
  BY <1>2, TimerStep
<1>3. ASSUME NEW c \in Client, Progress(c) \/ Faults(c) \/ Continue(c)
      PROVE  IInv'
  BY <1>3, ProgressStep, FaultStep, ContinueStep
<1>4. ASSUME NEW p \in Ide, IdeUp(p) \/ IdeDown(p) PROVE IInv'
  BY <1>4 DEF IdeUp, IdeDown, IInv, TypeOK, OneLiveSocket, StoppedIsQuiet, Live
<1>5. CASE UNCHANGED vars
  BY <1>5 DEF vars, IInv, TypeOK, OneLiveSocket, StoppedIsQuiet, Live
<1> QED
  BY <1>1, <1>2, <1>3, <1>4, <1>5 DEF Next

LEMMA IInvHolds == Spec => []IInv
BY InitIInv, NextIInv, PTL DEF Spec

-----------------------------------------------------------------------------
(* Safety *)

(* Every reachable state has the declared types. *)
THEOREM TypeCorrect == Spec => []TypeOK
BY IInvHolds, PTL DEF IInv

(* open(), however it is called, leaves at most one live socket behind, and *)
(* it is the current client's.                                              *)
THEOREM AtMostOneSocket == Spec => []OneLiveSocket
BY IInvHolds, PTL DEF IInv

(* stop() leaves no timer, client or socket that could undo it. *)
THEOREM StopIsFinal == Spec => []StoppedIsQuiet
BY IInvHolds, PTL DEF IInv

(* onClose only ever runs for the current client, and so never discards the *)
(* connection that replaced the one which closed.                           *)
THEOREM NoStaleCloseHolds == Spec => NoStaleClose
<1> DEFINE A == \A c \in Client : cl'[c].notified /\ ~cl[c].notified
                                    => c = current
<1>1. IInv /\ [Next]_vars => [A]_vars
  <2> SUFFICES ASSUME IInv, Next, NEW d \in Client,
                      cl'[d].notified, ~cl[d].notified
               PROVE  d = current
    BY DEF vars
  <2>1. \A c \in Client : cl[c] \in ClientState /\ RecordOK(cl[c])
    BY DEF IInv, TypeOK
  <2>2. cl \in [Client -> ClientState]
    BY DEF IInv, TypeOK
  <2>3. CASE Host
    <3>1. CASE Start
      BY <3>1, TryConnectStep DEF Start, IInv, TypeOK
    <3>2. CASE Stop
      BY <2>1, <3>2, CloseRecord DEF Stop
    <3>3. CASE ConnectToMiss
      BY <3>3 DEF ConnectToMiss
    <3>4. ASSUME NEW p \in Ide, ConnectTo(p) PROVE d = current
      BY <3>4, OpenStep DEF ConnectTo, IInv, TypeOK
    <3> QED
      BY <2>3, <3>1, <3>2, <3>3, <3>4 DEF Host
  <2>4. CASE TimerFires
    <3>1. stopped = FALSE
      BY <2>4 DEF TimerFires, IInv, StoppedIsQuiet, TypeOK
    <3>2. TryConnect(FALSE) /\ live' = live /\ stopped' = FALSE
      BY <2>4, <3>1 DEF TimerFires
    <3> QED
      BY <3>2, TryConnectStep
  <2>5. ASSUME NEW c \in Client, Progress(c) \/ Continue(c)
        PROVE  d = current
    BY <2>2, <2>5
    DEF Progress, Continue, SocketOpen, InitializeOk, PullStep, OpenFailed,
        OpenAborted, ClientState
  <2>6. ASSUME NEW c \in Client, Faults(c) PROVE d = current
    <3>1. d = c => d = current \/ ~Live(d)
      BY DEF IInv, OneLiveSocket
    <3>2. /\ DisposeSocket(cl[c]).notified = cl[c].notified
          /\ Rejected(cl[c]).notified = cl[c].notified
      BY <2>1, DisposeRecord, RejectedRecord
    <3>3. Live(c)
      BY <2>6 DEF Faults, ConnectFails, SocketClosed, SocketError,
                  ShutdownNotice, InitializeFails, Live
    <3>4. d # c => cl'[d] = cl[d]
      BY <2>2, <2>6
      DEF Faults, ConnectFails, SocketClosed, SocketError, ShutdownNotice,
          InitializeFails, NotifyUnexpectedClose
    <3> QED
      BY <3>1, <3>3, <3>4
  <2>7. CASE \E p \in Ide : IdeUp(p) \/ IdeDown(p)
    BY <2>7 DEF IdeUp, IdeDown
  <2> QED
    BY <2>3, <2>4, <2>5, <2>6, <2>7 DEF Next
<1> QED
  BY IInvHolds, <1>1, PTL DEF Spec, NoStaleClose

-----------------------------------------------------------------------------
(* Retrying *)

(* NeverStranded is not inductive; Retrying is, but for two actions. *)
LEMMA NextRetrying ==
    ASSUME IInv, Retrying, [Next]_vars,
           ~ConnectToMiss, \A c \in Client : ~SocketError(c)
    PROVE  Retrying'
<1>1. /\ \A c \in Client : cl[c] \in ClientState /\ RecordOK(cl[c])
      /\ cl \in [Client -> ClientState]
      /\ timer \in BOOLEAN /\ stopped \in BOOLEAN
  BY DEF IInv, TypeOK
<1>2. CASE Start
  BY <1>1, <1>2, TryConnectStep DEF Start, Retrying
<1>3. CASE Stop
  BY <1>3 DEF Stop, Retrying
<1>4. CASE ConnectToMiss
  BY <1>4
<1>5. ASSUME NEW p \in Ide, ConnectTo(p) PROVE Retrying'
  <2>1. live' \subseteq Ide /\ stopped' = FALSE /\ timer' \in BOOLEAN
    BY <1>1, <1>5 DEF ConnectTo, IInv, TypeOK
  <2>2. Open(p, TRUE)
    BY <1>5 DEF ConnectTo
  <2>3. HasLink'
    BY <2>1, <2>2, OpenStep
  <2> QED
    BY <2>3 DEF Retrying
<1>6. CASE TimerFires
  <2>1. CASE stopped
    BY <1>6, <2>1 DEF TimerFires, Retrying
  <2>2. CASE ~stopped
    <3>1. TryConnect(FALSE) /\ live' = live /\ stopped' = FALSE
      BY <1>1, <1>6, <2>2 DEF TimerFires
    <3> QED
      BY <3>1, TryConnectStep DEF Retrying
  <2> QED
    BY <2>1, <2>2
<1>7. ASSUME NEW c \in Client, Progress(c) PROVE Retrying'
  <2>1. /\ live' = live /\ stopped' = stopped
        /\ current' = current /\ timer' = timer
    BY <1>7 DEF Progress, SocketOpen, InitializeOk, PullStep
  <2>2. \A d \in Client : /\ Live(d) => Live(d)'
                          /\ cl[d].task = "failed" => cl'[d].task = "failed"
    BY <1>1, <1>7
    DEF Progress, SocketOpen, InitializeOk, PullStep, Live, Quiet, Settled,
        ClientState
  <2> QED
    BY <2>1, <2>2 DEF Retrying, HasLink, IInv, TypeOK
<1>8. ASSUME NEW c \in Client, Faults(c) PROVE Retrying'
  <2>1. Live(c)
    BY <1>8 DEF Faults, ConnectFails, SocketClosed, SocketError,
                ShutdownNotice, InitializeFails, Live
  <2>2. ~stopped /\ c = current
    BY <2>1 DEF IInv, StoppedIsQuiet, OneLiveSocket
  <2>3. CASE ConnectFails(c) \/ InitializeFails(c)
    <3>1. cl' = [cl EXCEPT ![c] = Rejected(cl[c])]
      BY <2>3 DEF ConnectFails, InitializeFails
    <3>2. cl'[c].task = "failed"
      BY <1>1, <3>1, RejectedRecord
    <3> QED
      BY <3>2 DEF Retrying
  <2>4. CASE SocketClosed(c) \/ ShutdownNotice(c)
    <3>1. ~cl[c].byUs /\ ~cl[c].notified
      BY <1>1, <2>1 DEF RecordOK, Live
    <3>2. timer'
      BY <2>2, <2>4, <3>1 DEF SocketClosed, ShutdownNotice,
                              NotifyUnexpectedClose, ScheduleReconnect
    <3> QED
      BY <3>2 DEF Retrying
  <2>5. CASE SocketError(c)
    BY <2>5
  <2> QED
    BY <1>8, <2>3, <2>4, <2>5 DEF Faults
<1>9. ASSUME NEW c \in Client, Continue(c) PROVE Retrying'
  <2>1. CASE OpenFailed(c)
    BY <2>1 DEF OpenFailed, ScheduleReconnect, Retrying
  <2>2. CASE OpenAborted(c)
    <3>1. \A d \in Client : /\ Live(d) => Live(d)'
                            /\ cl[d].task = "failed" => cl'[d].task = "failed"
      BY <1>1, <2>2 DEF OpenAborted, Live, ClientState
    <3> QED
      BY <2>2, <3>1 DEF OpenAborted, Retrying, HasLink, IInv, TypeOK
  <2> QED
    BY <1>9, <2>1, <2>2 DEF Continue
<1>10. CASE UNCHANGED <<stopped, current, timer, cl>>
  BY <1>10 DEF Retrying, HasLink, Live
<1> QED
  BY <1>2, <1>3, <1>4, <1>5, <1>6, <1>7, <1>8, <1>9, <1>10
  DEF Next, Host, IdeUp, IdeDown, vars

(* A stranded bridge has nothing left that could happen to it: no timer, no *)
(* live socket, no rejected promise.                                        *)
LEMMA NextStranded ==
    ASSUME IInv, ~Retrying, [Next]_vars, ~Host
    PROVE  ~Retrying'
<1>1. /\ \A c \in Client : cl[c] \in ClientState /\ RecordOK(cl[c])
      /\ cl \in [Client -> ClientState]
  BY DEF IInv, TypeOK
<1>2. /\ ~stopped /\ ~timer /\ ~HasLink
      /\ \A c \in Client : cl[c].task # "failed"
  BY DEF Retrying
<1>3. \A c \in Client : ~Live(c)
  BY <1>2, ConstantsAssumption DEF IInv, OneLiveSocket, HasLink
<1>4. ~TimerFires
  BY <1>2 DEF TimerFires
<1>5. ASSUME NEW c \in Client, Progress(c) \/ Faults(c) PROVE FALSE
  BY <1>1, <1>3, <1>5
  DEF Progress, SocketOpen, InitializeOk, PullStep, Faults, ConnectFails,
      SocketClosed, SocketError, ShutdownNotice, InitializeFails, Live, RecordOK
<1>6. ASSUME NEW c \in Client, Continue(c) PROVE ~Retrying'
  <2>1. OpenAborted(c)
    BY <1>2, <1>6 DEF Continue, OpenFailed
  <2>2. \A d \in Client : ~Live(d)' /\ cl'[d].task # "failed"
    BY <1>1, <1>2, <1>3, <2>1 DEF OpenAborted, Live, ClientState
  <2> QED
    BY <1>2, <2>1, <2>2 DEF OpenAborted, Retrying, HasLink, IInv, TypeOK
<1>7. CASE UNCHANGED <<stopped, current, timer, cl>>
  BY <1>2, <1>7 DEF Retrying, HasLink, Live
<1> QED
  BY <1>4, <1>5, <1>6, <1>7 DEF Next, IdeUp, IdeDown, vars

(* Whatever happens to a started bridge, an error event on an open socket   *)
(* and a connectTo whose port is gone are the only steps that leave it      *)
(* without a connection, an attempt or a scheduled retry; and only the host *)
(* can then set it going again.                                             *)
THEOREM StrandedByTwoOnlyHolds == Spec => StrandedByTwoOnly
<1> DEFINE A == /\ Retrying => \/ Retrying'
                               \/ ConnectToMiss
                               \/ \E c \in Client : SocketError(c)
                /\ ~Retrying /\ Retrying' => Host
<1>1. IInv /\ [Next]_vars => [A]_vars
  BY NextRetrying, NextStranded
<1> QED
  BY IInvHolds, <1>1, PTL DEF Spec, StrandedByTwoOnly

(* When errors only ever precede the opening of a socket and the port given *)
(* to connectTo is published, the bridge is never left without both a       *)
(* connection and a scheduled retry while it is started.                    *)
THEOREM NeverStrandedHolds ==
    ASSUME ~ErrorAfterOpen, ~ScanRace
    PROVE  Spec => []NeverStranded
<1>1. Init => Retrying
  BY DEF Init, Retrying
<1>2. IInv /\ Retrying /\ [Next]_vars => Retrying'
  BY NextRetrying DEF ConnectToMiss, SocketError
<1>3. IInv /\ Retrying => NeverStranded
  BY DEF Retrying, NeverStranded, Quiet, Settled
<1> QED
  BY IInvHolds, <1>1, <1>2, <1>3, PTL DEF Spec

-----------------------------------------------------------------------------
(* Refinement *)

(* The four ways in which a step may move the link. *)

LEMMA SameLink ==
    ASSUME stopped' = stopped, HasLink' = HasLink,
           HasLink => /\ cl'[current'].port = cl[current].port
                      /\ cl'[current'].ide = cl[current].ide
                      /\ cl'[current'].user = cl[current].user
    PROVE  UNCHANGED Link!vars
BY DEF Link!vars, Linked

LEMMA AskedLink ==
    ASSUME stopped' = FALSE, UNCHANGED <<current, cl>>
    PROVE  Link!Ask
BY DEF Link!Ask, Linked, HasLink, Live

LEMMA LostLink ==
    ASSUME stopped' = stopped, ~HasLink'
    PROVE  Link!Lose
BY DEF Link!Lose, Linked

LEMMA OpenedLink ==
    ASSUME IInv, NEW p \in Ide, NEW user \in BOOLEAN, Open(p, user),
           live' \subseteq Ide, stopped' = FALSE, timer' \in BOOLEAN
    PROVE  /\ user => Link!Choose(p)
           /\ ~user /\ ~Linked => Link!Dial(p)
<1>1. HasLink' /\ cl'[current'] = Fresh(p, user)
  BY OpenStep
<1>2. /\ cl'[current'].port = p
      /\ cl'[current'].user = user
      /\ ~cl'[current'].ide
  BY <1>1, FreshRecord
<1> QED
  BY <1>1, <1>2 DEF Link!Choose, Link!Dial, Linked

LEMMA TriedLink ==
    ASSUME IInv, NEW t \in BOOLEAN, TryConnect(t),
           live' = live, stopped' = FALSE
    PROVE  Link!Next
<1>1. CASE UNCHANGED <<current, cl>>
  BY <1>1, AskedLink DEF Link!Next
<1>2. CASE ~Connected /\ timer' = t /\ \E p \in Picks : Open(p, FALSE)
  <2>1. PICK p \in Picks : Open(p, FALSE)
    BY <1>2
  <2>2. p \in Ide /\ live' \subseteq Ide
    BY PicksAreIdes DEF IInv, TypeOK
  <2>3. ~Linked
    BY <1>2 DEF Linked, HasLink, Connected, IInv, TypeOK, RecordOK
  <2>4. Link!Dial(p)
    BY <1>2, <2>1, <2>2, <2>3, OpenedLink
  <2> QED
    BY <2>2, <2>4 DEF Link!Next
<1> QED
  BY <1>1, <1>2 DEF TryConnect

LEMMA NextLink == IInv /\ [Next]_vars => [Link!Next]_(Link!vars)
<1> SUFFICES ASSUME IInv, [Next]_vars PROVE [Link!Next]_(Link!vars)
  OBVIOUS
<1>1. /\ \A c \in Client : cl[c] \in ClientState /\ RecordOK(cl[c])
      /\ cl \in [Client -> ClientState]
      /\ current \in Client \cup {None} /\ None \notin Client
      /\ timer \in BOOLEAN /\ stopped \in BOOLEAN
  BY ConstantsAssumption DEF IInv, TypeOK
<1>2. CASE Start
  BY <1>1, <1>2, TriedLink DEF Start
<1>3. CASE Stop
  <2>1. Link!SwitchOff
    BY <1>3 DEF Stop, Link!SwitchOff, Linked, HasLink
  <2> QED
    BY <2>1 DEF Link!Next
<1>4. CASE ConnectToMiss
  BY <1>4, AskedLink DEF ConnectToMiss, Link!Next
<1>5. ASSUME NEW p \in Ide, ConnectTo(p) PROVE Link!Next
  <2>1. live' \subseteq Ide /\ stopped' = FALSE /\ timer' \in BOOLEAN
    BY <1>1, <1>5 DEF ConnectTo, IInv, TypeOK
  <2>2. Link!Choose(p)
    BY <1>5, <2>1, OpenedLink DEF ConnectTo
  <2> QED
    BY <2>2 DEF Link!Next
<1>6. CASE TimerFires
  <2>1. TryConnect(FALSE) /\ live' = live /\ stopped' = FALSE
    BY <1>1, <1>6 DEF TimerFires, IInv, StoppedIsQuiet
  <2> QED
    BY <2>1, TriedLink
<1>7. ASSUME NEW c \in Client, SocketOpen(c) \/ PullStep(c)
      PROVE  UNCHANGED Link!vars
  <2>1. /\ stopped' = stopped /\ current' = current
        /\ \A d \in Client : /\ cl'[d].port = cl[d].port
                             /\ cl'[d].ide = cl[d].ide
                             /\ cl'[d].user = cl[d].user
                             /\ Live(d)' = Live(d)
    BY <1>1, <1>7 DEF SocketOpen, PullStep, Live, ClientState
  <2> QED
    BY <1>1, <2>1, SameLink DEF HasLink
<1>8. ASSUME NEW c \in Client, InitializeOk(c) PROVE Link!Next
  <2>1. Live(c) /\ ~cl[c].ide /\ cl[c].port # None
    BY <1>1, <1>8 DEF InitializeOk, Live, RecordOK
  <2>2. c = current /\ ~stopped
    BY <2>1 DEF IInv, StoppedIsQuiet, OneLiveSocket
  <2>3. /\ stopped' = stopped /\ current' = current
        /\ cl'[c].port = cl[c].port /\ cl'[c].user = cl[c].user
        /\ cl'[c].ide /\ Live(c)'
    BY <1>1, <1>8, <2>1 DEF InitializeOk, Live, ClientState
  <2>4. Link!ShakeHands
    BY <1>1, <2>1, <2>2, <2>3, ConstantsAssumption
    DEF Link!ShakeHands, Linked, HasLink
  <2> QED
    BY <2>4 DEF Link!Next
<1>9. ASSUME NEW c \in Client, Faults(c) PROVE Link!Next
  <2>1. Live(c)
    BY <1>9 DEF Faults, ConnectFails, SocketClosed, SocketError,
                ShutdownNotice, InitializeFails, Live
  <2>2. c = current
    BY <2>1 DEF IInv, OneLiveSocket
  <2>3. /\ DisposeSocket(cl[c]).sock = "closed"
        /\ Rejected(cl[c]).sock = "closed"
    BY <1>1, DisposeRecord, RejectedRecord
  <2>4. stopped' = stopped /\ (current' = c => ~Live(c)')
    <3>1. CASE ConnectFails(c) \/ InitializeFails(c)
      BY <1>1, <2>3, <3>1 DEF ConnectFails, InitializeFails, Live
    <3>2. CASE SocketError(c)
      BY <1>1, <2>3, <3>2 DEF SocketError, Live
    <3>3. CASE SocketClosed(c) \/ ShutdownNotice(c)
      <4>1. ~cl[c].byUs /\ ~cl[c].notified
        BY <1>1, <2>1 DEF RecordOK, Live
      <4>2. stopped' = stopped /\ current' = None
        BY <3>3, <4>1
        DEF SocketClosed, ShutdownNotice, NotifyUnexpectedClose
      <4> QED
        BY <1>1, <4>2
    <3> QED
      BY <1>9, <3>1, <3>2, <3>3 DEF Faults
  <2>5. current' \in {c, None}
    BY <1>9, <2>2
    DEF Faults, ConnectFails, SocketClosed, SocketError, ShutdownNotice,
        InitializeFails, NotifyUnexpectedClose
  <2> QED
    BY <2>4, <2>5, LostLink DEF HasLink, Link!Next
<1>10. ASSUME NEW c \in Client, Continue(c) PROVE UNCHANGED Link!vars
  <2>1. ~Live(c) /\ stopped' = stopped
    BY <1>1, <1>10
    DEF Continue, OpenFailed, OpenAborted, Live, RecordOK, Settled
  <2>2. current' = current \/ (current = c /\ current' = None)
    BY <1>10 DEF Continue, OpenFailed, OpenAborted
  <2>3. \A d \in Client : /\ cl'[d].port = cl[d].port
                          /\ cl'[d].ide = cl[d].ide
                          /\ cl'[d].user = cl[d].user
                          /\ Live(d)' = Live(d)
    BY <1>1, <1>10
    DEF Continue, OpenFailed, OpenAborted, Live, ClientState
  <2> QED
    BY <1>1, <2>1, <2>2, <2>3, SameLink DEF HasLink
<1>11. CASE UNCHANGED <<stopped, current, timer, cl>>
  BY <1>11, SameLink DEF HasLink, Live
<1> QED
  BY <1>2, <1>3, <1>4, <1>5, <1>6, <1>7, <1>8, <1>9, <1>10, <1>11
  DEF Next, Host, Progress, IdeUp, IdeDown, vars

(* The life cycle implements BridgeLink: nothing connects unasked, a retry  *)
(* never drops an established link, and stop() takes it down at once.       *)
THEOREM ImplementsLinkHolds == Spec => ImplementsLink
<1>1. Init => Link!Init
  BY DEF Init, Link!Init, Linked, HasLink
<1> QED
  BY IInvHolds, NextLink, <1>1, PTL DEF Spec, ImplementsLink, Link!Spec
=============================================================================
