--------------------------- MODULE IdeCommandProofs ---------------------------
(***************************************************************************)
(* Proofs about IdeCommand: the life cycle proved in                       *)
(* BridgeConnectionProofs, under the session hooks and the /ide command.   *)
(***************************************************************************)
EXTENDS IdeCommand, BridgeConnectionProofs, FiniteSetTheorems, SequenceTheorems

-----------------------------------------------------------------------------
(* The list of live ports, by time *)

LEMMA RemoveAtElements ==
    ASSUME NEW S, NEW s \in Seq(S), NEW i \in 1..Len(s)
    PROVE  /\ RemoveAt(s, i) \in Seq(S)
           /\ Len(RemoveAt(s, i)) = Len(s) - 1
           /\ \A j \in 1..Len(s) - 1 :
                RemoveAt(s, i)[j] = IF j < i THEN s[j] ELSE s[j + 1]
<1> DEFINE before == SubSeq(s, 1, i - 1)
           after  == SubSeq(s, i + 1, Len(s))
<1>1. Len(s) \in Nat /\ \A j \in 1..Len(s) : s[j] \in S
  BY ElementOfSeq, LenProperties
<1>2. /\ before \in Seq(S)
      /\ Len(before) = i - 1
      /\ \A j \in 1..i - 1 : before[j] = s[j]
  BY <1>1, SubSeqProperties, Z3
<1>3. /\ after \in Seq(S)
      /\ Len(after) = Len(s) - i
      /\ \A j \in 1..Len(s) - i : after[j] = s[i + j]
  BY <1>1, SubSeqProperties, Z3
<1> HIDE DEF before, after
<1>4. /\ before \o after \in Seq(S)
      /\ Len(before \o after) = Len(before) + Len(after)
      /\ \A j \in 1..Len(before) + Len(after) :
            (before \o after)[j] = IF j <= Len(before) THEN before[j]
                                    ELSE after[j - Len(before)]
  BY <1>2, <1>3, ConcatProperties
<1>5. Len(before) + Len(after) = Len(s) - 1
  BY <1>1, <1>2, <1>3
<1>6. ASSUME NEW j \in 1..Len(s) - 1
      PROVE  (before \o after)[j] = IF j < i THEN s[j] ELSE s[j + 1]
  <2>1. j \in 1..Len(before) + Len(after)
    BY <1>5
  <2>2. CASE j < i
    <3>1. j <= Len(before) /\ j \in 1..i - 1
      BY <1>2, <2>2
    <3> QED
      BY <1>2, <1>4, <2>1, <2>2, <3>1
  <2>3. CASE ~(j < i)
    <3>1. /\ ~(j <= Len(before))
          /\ j - Len(before) \in 1..Len(s) - i
          /\ i + (j - Len(before)) = j + 1
      BY <1>1, <1>2, <2>3
    <3> QED
      BY <1>3, <1>4, <2>1, <2>3, <3>1
  <2> QED
    BY <2>2, <2>3
<1> QED
  BY <1>4, <1>5, <1>6 DEF RemoveAt, before, after

(* Taking out one element of a list without duplicates. *)
LEMMA RemoveAtSet ==
    ASSUME NEW S, NEW s \in Seq(S), IsInjective(s), NEW i \in DOMAIN s
    PROVE  /\ RemoveAt(s, i) \in Seq(S)
           /\ IsInjective(RemoveAt(s, i))
           /\ ToSet(RemoveAt(s, i)) = ToSet(s) \ {s[i]}
<1> DEFINE t == RemoveAt(s, i)
<1>1. Len(s) \in Nat /\ DOMAIN s = 1..Len(s)
  BY LenProperties
<1>2. /\ t \in Seq(S)
      /\ Len(t) = Len(s) - 1
      /\ \A j \in 1..Len(s) - 1 : t[j] = IF j < i THEN s[j] ELSE s[j + 1]
  BY <1>1, RemoveAtElements
<1>3. DOMAIN t = 1..Len(s) - 1
  BY <1>2, LenProperties
<1> HIDE DEF t
<1> DEFINE old(j) == IF j < i THEN j ELSE j + 1
<1>4. \A j \in DOMAIN t : /\ old(j) \in DOMAIN s /\ old(j) # i
                           /\ t[j] = s[old(j)]
  BY <1>1, <1>2, <1>3
<1>5. \A j, k \in DOMAIN t : old(j) = old(k) => j = k
  BY <1>1, <1>3
<1>6. \A k \in DOMAIN s \ {i} : \E j \in DOMAIN t : old(j) = k
  <2> SUFFICES ASSUME NEW k \in DOMAIN s \ {i}
               PROVE  \E j \in DOMAIN t : old(j) = k
    OBVIOUS
  <2> DEFINE j == IF k < i THEN k ELSE k - 1
  <2>1. j \in DOMAIN t /\ old(j) = k
    BY <1>1, <1>3
  <2> QED
    BY <2>1
<1> HIDE DEF old
<1>7. \A a, b \in DOMAIN s : s[a] = s[b] => a = b
  BY DEF IsInjective
<1>8. IsInjective(t)
  BY <1>4, <1>5, <1>7 DEF IsInjective
<1>9. ToSet(t) \subseteq ToSet(s) \ {s[i]}
  BY <1>4, <1>7 DEF ToSet
<1>10. ToSet(s) \ {s[i]} \subseteq ToSet(t)
  <2> SUFFICES ASSUME NEW k \in DOMAIN s, s[k] # s[i] PROVE s[k] \in ToSet(t)
    BY DEF ToSet
  <2>1. PICK j \in DOMAIN t : old(j) = k
    BY <1>6
  <2> QED
    BY <1>4, <2>1 DEF ToSet
<1> QED
  BY <1>2, <1>8, <1>9, <1>10 DEF t

(* Putting a new element before the others. *)
LEMMA ConsSet ==
    ASSUME NEW S, NEW s \in Seq(S), IsInjective(s), NEW e \in S, e \notin ToSet(s)
    PROVE  /\ <<e>> \o s \in Seq(S)
           /\ IsInjective(<<e>> \o s)
           /\ ToSet(<<e>> \o s) = ToSet(s) \cup {e}
<1> DEFINE t == <<e>> \o s
<1>1. Len(s) \in Nat /\ DOMAIN s = 1..Len(s)
  BY LenProperties
<1>2. <<e>> \in Seq(S) /\ Len(<<e>>) = 1 /\ <<e>>[1] = e
  OBVIOUS
<1>3. /\ t \in Seq(S)
      /\ Len(t) = 1 + Len(s)
      /\ \A j \in 1..1 + Len(s) :
            t[j] = IF j <= 1 THEN <<e>>[j] ELSE s[j - 1]
  BY <1>2, ConcatProperties
<1>4. DOMAIN t = 1..1 + Len(s)
  BY <1>3, LenProperties
<1> HIDE DEF t
<1>5. t[1] = e /\ 1 \in DOMAIN t
  BY <1>1, <1>2, <1>3, <1>4
<1>6. \A j \in DOMAIN t : j = 1 \/ (j - 1 \in DOMAIN s /\ t[j] = s[j - 1])
  BY <1>1, <1>3, <1>4
<1>7. \A k \in DOMAIN s : k + 1 \in DOMAIN t /\ t[k + 1] = s[k]
  BY <1>1, <1>3, <1>4
<1>8. \A k \in DOMAIN s : s[k] # e
  BY DEF ToSet
<1>9. IsInjective(t)
  <2> SUFFICES ASSUME NEW a \in DOMAIN t, NEW b \in DOMAIN t, t[a] = t[b]
               PROVE  a = b
    BY DEF IsInjective
  <2>1. CASE a = 1 \/ b = 1
    BY <1>5, <1>6, <1>8, <2>1
  <2>2. CASE a # 1 /\ b # 1
    <3>1. a - 1 = b - 1
      BY <1>6, <2>2 DEF IsInjective
    <3> QED
      BY <1>1, <1>4, <3>1
  <2> QED
    BY <2>1, <2>2
<1>10. ToSet(t) = ToSet(s) \cup {e}
  <2>1. ToSet(t) \subseteq ToSet(s) \cup {e}
    BY <1>5, <1>6 DEF ToSet
  <2>2. ToSet(s) \cup {e} \subseteq ToSet(t)
    BY <1>5, <1>7 DEF ToSet
  <2> QED
    BY <2>1, <2>2
<1> QED
  BY <1>3, <1>9, <1>10 DEF t

LEMMA InjectiveLen ==
    ASSUME NEW S, NEW s \in Seq(S), IsInjective(s)
    PROVE  Len(s) = Cardinality(ToSet(s))
<1>1. /\ Len(s) \in Nat /\ DOMAIN s = 1..Len(s)
      /\ s \in [1..Len(s) -> ToSet(s)]
  BY LenProperties DEF ToSet
<1>2. \A e \in ToSet(s) : \E i \in 1..Len(s) : s[i] = e
  BY <1>1 DEF ToSet
<1>3. \A i, j \in 1..Len(s) : s[i] = s[j] => i = j
  BY <1>1 DEF IsInjective
<1>4. s \in Bijection(1..Len(s), ToSet(s))
  BY <1>1, <1>2, <1>3 DEF Bijection, Injection, Surjection, IsInjective
<1> QED
  BY <1>1, <1>4, FS_CountingElements DEF ExistsBijection

-----------------------------------------------------------------------------
(* The inductive invariant *)

(* The list that /ide <n> chooses from is the live ports, each of them once. *)
ByTimeOK ==
    byTime \in Seq(Ide) /\ IsInjective(byTime) /\ ToSet(byTime) = live

CommandIInv ==
    /\ IInv
    /\ ByTimeOK
    /\ session \in BOOLEAN /\ listed \in BOOLEAN
    /\ awaiting \subseteq Client
    /\ report \in Reports
    /\ AwaitedIsPending

(* Every step of a session is a step of the life cycle or leaves it alone.  *)
LEMMA CommandStep ==
    ASSUME ByTimeOK, [CommandNext]_allVars
    PROVE  [Next]_vars
<1>1. CASE SessionStart \/ SessionShutdown \/ CommandOff
  BY <1>1 DEF SessionStart, SessionShutdown, CommandOff, Next, Host
<1>2. CASE CommandList
  BY <1>2 DEF CommandList
<1>3. ASSUME NEW n \in DOMAIN DirOrder, CommandConnect(n) \/ CommandNoIde(n)
      PROVE  [Next]_vars
  <2>1. n \in DOMAIN byTime => byTime[n] \in Ide
    BY ElementOfSeq, LenProperties DEF ByTimeOK
  <2> QED
    BY <1>3, <2>1 DEF CommandConnect, CommandNoIde, Next, Host
<1>4. CASE EventLoop
  BY <1>4 DEF EventLoop, Background, Next
<1>5. CASE Directory
  BY <1>5 DEF Directory, LockAppears, LockGoes, LockRewritten, Next
<1>6. CASE UNCHANGED allVars
  BY <1>6 DEF allVars
<1> QED
  BY <1>1, <1>2, <1>3, <1>4, <1>5, <1>6 DEF CommandNext, Commands

LEMMA ByTimeStep ==
    ASSUME IInv, ByTimeOK, [CommandNext]_allVars
    PROVE  ByTimeOK'
<1>1. CASE UNCHANGED <<live, byTime>>
  BY <1>1 DEF ByTimeOK
<1>2. CASE Commands \/ EventLoop \/ UNCHANGED allVars
  <2>1. byTime' = byTime
    BY <1>2 DEF Commands, SessionStart, SessionShutdown, CommandOff, CommandList,
                CommandConnect, CommandNoIde, command, EventLoop, HandlersReport,
                allVars
  <2>2. live' = live
    BY <1>2
    DEF Commands, SessionStart, SessionShutdown, CommandOff, CommandList,
        CommandConnect, CommandNoIde, Start, Stop, ConnectTo, EventLoop,
        Background, TimerFires, Progress, SocketOpen, InitializeOk, PullStep,
        Faults, ConnectFails, SocketClosed, SocketError, ShutdownNotice,
        InitializeFails, Continue, OpenFailed, OpenAborted, allVars, vars
  <2> QED
    BY <1>1, <2>1, <2>2
<1>3. ASSUME NEW p \in Ide, LockAppears(p) PROVE ByTimeOK'
  <2>1. /\ p \notin ToSet(byTime)
        /\ byTime' = <<p>> \o byTime
        /\ live' = live \cup {p}
    BY <1>3 DEF LockAppears, IdeUp, ByTimeOK
  <2>2. byTime \in Seq(Ide) /\ IsInjective(byTime) /\ ToSet(byTime) = live
    BY DEF ByTimeOK
  <2>3. /\ byTime' \in Seq(Ide)
        /\ IsInjective(byTime')
        /\ ToSet(byTime') = live \cup {p}
    BY <2>1, <2>2, ConsSet
  <2> QED
    BY <2>1, <2>3 DEF ByTimeOK
<1>4. ASSUME NEW p \in Ide, LockGoes(p) \/ LockRewritten(p) PROVE ByTimeOK'
  <2>1. PICK i \in DOMAIN byTime :
          /\ byTime[i] = p
          /\ \/ byTime' = RemoveAt(byTime, i) /\ live' = live \ {p}
             \/ byTime' = <<p>> \o RemoveAt(byTime, i) /\ live' = live /\ p \in live
    BY <1>4 DEF LockGoes, LockRewritten, IdeDown, vars
  <2> DEFINE rest == RemoveAt(byTime, i)
  <2>2. byTime \in Seq(Ide) /\ IsInjective(byTime) /\ ToSet(byTime) = live
    BY DEF ByTimeOK
  <2>3. /\ rest \in Seq(Ide)
        /\ IsInjective(rest)
        /\ ToSet(rest) = live \ {p}
    BY <2>1, <2>2, RemoveAtSet
  <2> HIDE DEF rest
  <2>4. p \notin ToSet(rest)
    BY <2>3
  <2>5. /\ <<p>> \o rest \in Seq(Ide)
        /\ IsInjective(<<p>> \o rest)
        /\ ToSet(<<p>> \o rest) = (live \ {p}) \cup {p}
    BY <2>3, <2>4, ConsSet
  <2> QED
    BY <2>1, <2>3, <2>5 DEF ByTimeOK, rest
<1> QED
  BY <1>2, <1>3, <1>4 DEF CommandNext, Directory

-----------------------------------------------------------------------------
(* What a step does to an open() that is being awaited *)

(* A record of an open() that may still be settled, or that was given up.   *)
PendingRecord(r) ==
    \/ r.task # "none" /\ r.sock \in {"connecting", "open"}
    \/ r.task \in Settled
    \/ r.task = "connect" /\ r.sock = "closed" /\ r.byUs

LEMMA PendingIsRecord ==
    \A c \in Client : /\ Pending(c) <=> PendingRecord(cl[c])
                      /\ Pending(c)' <=> PendingRecord(cl'[c])
BY DEF Pending, PendingRecord, Live, Hung

LEMMA PendingHasTask ==
    ASSUME NEW r, PendingRecord(r)
    PROVE  r.task # "none"
BY DEF PendingRecord, Settled

(* Closing a client settles its open(), or leaves it hung by our own doing. *)
LEMMA ClosePending ==
    ASSUME NEW r \in ClientState, RecordOK(r), PendingRecord(r)
    PROVE  PendingRecord(Close(r))
BY DEF PendingRecord, Close, DisposeSocket, TaskWithoutSocket, ClientState,
       RecordOK, Pulling, Settled

LEMMA OpenPending ==
    ASSUME IInv, NEW p \in Ide, NEW user \in BOOLEAN, Open(p, user)
    PROVE  /\ current' \in Client /\ PendingRecord(cl'[current'])
           /\ \A d \in Client : Pending(d) => Pending(d)'
<1>1. PICK c \in Client :
        /\ Free(c)
        /\ cl' = [d \in Client |->
                    IF d = c THEN Fresh(p, user)
                    ELSE IF d = current THEN Close(cl[d]) ELSE cl[d]]
        /\ current' = c
  BY DEF Open
<1>2. PendingRecord(Fresh(p, user))
  BY DEF PendingRecord, Fresh, Unused
<1>3. \A d \in Client : PendingRecord(cl[d]) => PendingRecord(Close(cl[d]))
  BY ClosePending DEF IInv, TypeOK
<1>4. PendingRecord(cl'[c])
  BY <1>1, <1>2
<1>5. \A d \in Client : PendingRecord(cl[d]) => PendingRecord(cl'[d])
  BY <1>1, <1>2, <1>3
<1> QED
  BY <1>1, <1>4, <1>5, PendingIsRecord

LEMMA TryConnectPending ==
    ASSUME IInv, NEW t \in BOOLEAN, TryConnect(t)
    PROVE  \A d \in Client : Pending(d) => Pending(d)'
<1>1. CASE UNCHANGED <<current, cl>>
  BY <1>1, PendingIsRecord
<1>2. CASE \E p \in Picks : Open(p, FALSE)
  BY <1>2, PicksAreIdes, OpenPending DEF IInv
<1> QED
  BY <1>1, <1>2 DEF TryConnect

LEMMA StopPending ==
    ASSUME IInv, Stop
    PROVE  \A d \in Client : Pending(d) => Pending(d)'
<1>1. \A d \in Client : PendingRecord(cl[d]) => PendingRecord(Close(cl[d]))
  BY ClosePending DEF IInv, TypeOK
<1>2. \A d \in Client : cl'[d] = IF d = current THEN Close(cl[d]) ELSE cl[d]
  BY DEF Stop
<1> QED
  BY <1>1, <1>2, PendingIsRecord

(* A step of the event loop ends an open() or leaves it to be settled. *)
LEMMA BackgroundPending ==
    ASSUME IInv, Background, NEW d \in Client, Pending(d)
    PROVE  Pending(d)' \/ (cl'[d].task = "none" /\ (PullStep(d) \/ Continue(d)))
<1> DEFINE Ended == cl'[d].task = "none" /\ (PullStep(d) \/ Continue(d))
<1>1. /\ \A c \in Client : cl[c] \in ClientState /\ RecordOK(cl[c])
      /\ cl \in [Client -> ClientState]
  BY DEF IInv, TypeOK
<1>2. PendingRecord(cl[d])
  BY PendingIsRecord
<1>3. SUFFICES PendingRecord(cl'[d]) \/ Ended
  BY PendingIsRecord
<1>4. CASE TimerFires
  <2>1. CASE UNCHANGED cl
    BY <1>2, <2>1
  <2>2. CASE TryConnect(FALSE)
    BY <2>2, TryConnectPending, PendingIsRecord
  <2> QED
    BY <1>4, <2>1, <2>2 DEF TimerFires
<1>5. ASSUME NEW c \in Client, Progress(c) \/ Continue(c)
      PROVE  PendingRecord(cl'[d]) \/ Ended
  <2>1. CASE d # c
    BY <1>1, <1>2, <1>5, <2>1
    DEF Progress, SocketOpen, InitializeOk, PullStep, Continue, OpenFailed,
        OpenAborted
  <2>2. CASE d = c /\ SocketOpen(c)
    BY <1>1, <1>2, <2>2 DEF SocketOpen, PendingRecord, ClientState, RecordOK
  <2>3. CASE d = c /\ InitializeOk(c)
    BY <1>1, <2>3 DEF InitializeOk, PendingRecord, ClientState
  <2>4. CASE d = c /\ PullStep(c)
    BY <1>1, <2>4 DEF PullStep, PendingRecord, ClientState, RecordOK
  <2>5. CASE d = c /\ Continue(c)
    BY <1>1, <2>5 DEF Continue, OpenFailed, OpenAborted, ClientState
  <2> QED
    BY <1>5, <2>1, <2>2, <2>3, <2>4, <2>5 DEF Progress
<1>6. ASSUME NEW c \in Client, Faults(c)
      PROVE  PendingRecord(cl'[d])
  <2>1. Live(c) /\ cl[c].sock \in {"connecting", "open"}
    BY <1>6 DEF Faults, ConnectFails, SocketClosed, SocketError,
                ShutdownNotice, InitializeFails, Live
  <2>2. CASE d # c
    BY <1>1, <1>2, <1>6, <2>2
    DEF Faults, ConnectFails, SocketClosed, SocketError, ShutdownNotice,
        InitializeFails, NotifyUnexpectedClose
  <2>3. CASE d = c
    <3> DEFINE Settles(r) == r \in ClientState /\ r.task \in Settled
    <3>1. Settles(Rejected(cl[c]))
      BY <1>1, RejectedRecord DEF Settled
    <3>2. cl[c].sock = "open" => Settles(DisposeSocket(cl[c]))
      <4>1. cl[c].task \in {"connect"} \cup Pulling \cup Settled
        BY <1>1, <1>2, <2>3, PendingHasTask DEF ClientState
      <4>2. cl[c].sock = "open" => TaskWithoutSocket(cl[c]) \in Settled
        BY <4>1 DEF TaskWithoutSocket, Settled
      <4>3. DisposeSocket(cl[c]).task = TaskWithoutSocket(cl[c])
        BY <1>1 DEF DisposeSocket, ClientState
      <4> QED
        BY <1>1, <4>2, <4>3, DisposeRecord
    <3>3. \A r : Settles(r) => Settles([r EXCEPT !.notified = TRUE])
      BY DEF ClientState
    <3> HIDE DEF Settles
    <3>4. CASE ConnectFails(c) \/ InitializeFails(c)
      BY <1>1, <2>3, <3>1, <3>4
      DEF ConnectFails, InitializeFails, Settles, PendingRecord
    <3>5. CASE SocketError(c)
      BY <1>1, <2>3, <3>2, <3>5 DEF SocketError, Settles, PendingRecord
    <3>6. ASSUME NEW r, Settles(r), NotifyUnexpectedClose(c, r)
          PROVE  Settles(cl'[c])
      BY <1>1, <3>3, <3>6 DEF NotifyUnexpectedClose
    <3>7. CASE SocketClosed(c)
      <4>1. cl[c].ide => Settles(DisposeSocket(cl[c]))
        BY <1>1, <3>2 DEF RecordOK
      <4>2. Settles(cl'[c])
        BY <3>1, <3>6, <3>7, <4>1 DEF SocketClosed
      <4> QED
        BY <2>3, <4>2 DEF Settles, PendingRecord
    <3>8. CASE ShutdownNotice(c)
      <4>1. Settles(cl'[c])
        BY <3>2, <3>6, <3>8 DEF ShutdownNotice
      <4> QED
        BY <2>3, <4>1 DEF Settles, PendingRecord
    <3> QED
      BY <1>6, <2>3, <3>4, <3>5, <3>7, <3>8 DEF Faults
  <2> QED
    BY <2>2, <2>3
<1> QED
  BY <1>4, <1>5, <1>6 DEF Background

LEMMA AwaitingStep ==
    ASSUME CommandIInv, [CommandNext]_allVars
    PROVE  awaiting' \subseteq Client /\ AwaitedIsPending'
<1>1. IInv /\ awaiting \subseteq Client /\ \A c \in awaiting : Pending(c)
  BY DEF CommandIInv, AwaitedIsPending
<1>2. CASE UNCHANGED <<cl, awaiting>>
  BY <1>1, <1>2, PendingIsRecord DEF AwaitedIsPending
<1>3. CASE SessionStart
  <2>1. \A c \in Client : Pending(c) => Pending(c)'
    BY <1>1, <1>3, TryConnectPending DEF SessionStart, Start, IInv, TypeOK
  <2> QED
    BY <1>1, <1>3, <2>1 DEF SessionStart, AwaitedIsPending
<1>4. CASE SessionShutdown \/ CommandOff
  <2>1. Stop /\ awaiting' = awaiting
    BY <1>4 DEF SessionShutdown, CommandOff, command
  <2> QED
    BY <1>1, <2>1, StopPending DEF AwaitedIsPending
<1>5. ASSUME NEW n \in DOMAIN DirOrder, CommandConnect(n)
      PROVE  awaiting' \subseteq Client /\ AwaitedIsPending'
  <2>1. PICK p \in Ide : ConnectTo(p)
    BY <1>5, ElementOfSeq, LenProperties
    DEF CommandConnect, CommandIInv, ByTimeOK
  <2>2. /\ current' \in Client /\ PendingRecord(cl'[current'])
        /\ \A d \in Client : Pending(d) => Pending(d)'
    BY <1>1, <2>1, OpenPending DEF ConnectTo
  <2>3. awaiting' = awaiting \cup {current'}
    BY <1>5 DEF CommandConnect
  <2> QED
    BY <1>1, <2>2, <2>3, PendingIsRecord DEF AwaitedIsPending
<1>6. CASE EventLoop
  <2>1. Background /\ awaiting' = awaiting \ (Returned \cup Reused)
    BY <1>6 DEF EventLoop, HandlersReport
  <2>2. ASSUME NEW c \in awaiting' PROVE Pending(c)'
    <3>1. c \in Client /\ Pending(c) /\ cl[c].task # "none"
      BY <1>1, <2>1, PendingIsRecord, PendingHasTask
    <3>2. cl'[c].task # "none"
      BY <2>1, <3>1 DEF Returned
    <3> QED
      BY <1>1, <2>1, <3>1, <3>2, BackgroundPending
  <2> QED
    BY <1>1, <2>1, <2>2 DEF AwaitedIsPending
<1> QED
  BY <1>2, <1>3, <1>4, <1>5, <1>6
  DEF CommandNext, Commands, CommandList, CommandNoIde, Directory, LockAppears,
      LockGoes, LockRewritten, IdeUp, IdeDown, allVars, vars, command

-----------------------------------------------------------------------------
(* CommandIInv is inductive *)

LEMMA InitCommandIInv == CommandInit => CommandIInv
<1> SUFFICES ASSUME CommandInit PROVE CommandIInv
  OBVIOUS
<1>1. IInv /\ live = {}
  BY InitIInv DEF CommandInit, Init
<1>2. ByTimeOK
  <2>1. <<>> \in Seq(Ide) /\ DOMAIN <<>> = {}
    OBVIOUS
  <2> QED
    BY <1>1, <2>1 DEF CommandInit, ByTimeOK, IsInjective, ToSet
<1> QED
  BY <1>1, <1>2 DEF CommandInit, CommandIInv, Reports, AwaitedIsPending

LEMMA NextCommandIInv == CommandIInv /\ [CommandNext]_allVars => CommandIInv'
<1> SUFFICES ASSUME CommandIInv, [CommandNext]_allVars PROVE CommandIInv'
  OBVIOUS
<1>1. IInv /\ ByTimeOK
  BY DEF CommandIInv
<1>2. IInv'
  BY <1>1, CommandStep, NextIInv
<1>3. ByTimeOK'
  BY <1>1, ByTimeStep
<1>4. awaiting' \subseteq Client /\ AwaitedIsPending'
  BY AwaitingStep
<1>5. session' \in BOOLEAN /\ listed' \in BOOLEAN /\ report' \in Reports
  BY DEF CommandIInv, CommandNext, Commands, SessionStart, SessionShutdown,
         CommandOff, CommandList, CommandConnect, CommandNoIde, command,
         EventLoop, HandlersReport, Verdict, Reports, Directory, LockAppears,
         LockGoes, LockRewritten, allVars
<1> QED
  BY <1>2, <1>3, <1>4, <1>5 DEF CommandIInv

LEMMA CommandIInvHolds == CommandSpec => []CommandIInv
BY InitCommandIInv, NextCommandIInv, PTL DEF CommandSpec

-----------------------------------------------------------------------------
(* Theorems *)

(* What a session, its commands and the lock directory do to the connection *)
(* life cycle is a behaviour of BridgeConnection: its theorems hold here.   *)
THEOREM SessionsRunTheLifeCycle == CommandSpec => Spec
<1>1. CommandInit => Init
  BY DEF CommandInit
<1>2. CommandIInv /\ [CommandNext]_allVars => [Next]_vars
  BY CommandStep DEF CommandIInv
<1> QED
  BY CommandIInvHolds, <1>1, <1>2, PTL DEF CommandSpec, Spec

(* Under the session's commands, as in the life cycle alone: a started      *)
(* bridge has a connection, an attempt or a scheduled retry, when errors    *)
(* only precede the opening of a socket and no chosen port is gone.         *)
THEOREM CommandsNeverStrand ==
    ASSUME ~ErrorAfterOpen, ~ScanRace
    PROVE  CommandSpec => []NeverStranded
BY SessionsRunTheLifeCycle, NeverStrandedHolds

(* Every reachable state has the declared types, and the list that /ide <n> *)
(* chooses from is the live ports, each of them once.                       *)
THEOREM CommandTypeCorrect == CommandSpec => []CommandTypeOK
<1>1. CommandIInv => CommandTypeOK
  BY InjectiveLen DEF CommandIInv, ByTimeOK, CommandTypeOK, IInv
<1> QED
  BY CommandIInvHolds, <1>1, PTL

(* No handler of /ide <n> waits for an open() that has ended unnoticed.     *)
THEOREM AwaitedIsPendingHolds == CommandSpec => []AwaitedIsPending
BY CommandIInvHolds, PTL DEF CommandIInv

(* However the commands, retries and faults fall, "Connected" is reported   *)
(* of the client that holds the connection, but for a pull that lost it.    *)
THEOREM ConnectedIsTrueHolds == CommandSpec => ConnectedIsTrue
<1> DEFINE A == \A c \in Returned : Verdict(c) = "Connected"
                    => (current' = c /\ Linked') \/ cl[c].task = "aborted"
<1>1. CommandIInv /\ [CommandNext]_allVars => [A]_allVars
  <2> SUFFICES ASSUME CommandIInv, CommandNext,
                      NEW c \in Returned, Verdict(c) = "Connected"
               PROVE  (current' = c /\ Linked') \/ cl[c].task = "aborted"
    OBVIOUS
  <2>1. /\ IInv /\ c \in Client /\ Pending(c)
        /\ cl[c].task \notin {"none", "failed"} /\ cl'[c].task = "none"
    BY DEF CommandIInv, AwaitedIsPending, Returned, Verdict
  <2>2. ~Pending(c)'
    BY <2>1, PendingIsRecord, PendingHasTask
  <2>3. Background
    <3>1. CASE SessionStart
      BY <2>1, <2>2, <3>1, TryConnectPending
      DEF SessionStart, Start, IInv, TypeOK
    <3>2. CASE SessionShutdown \/ CommandOff
      BY <2>1, <2>2, <3>2, StopPending DEF SessionShutdown, CommandOff
    <3>3. ASSUME NEW n \in DOMAIN DirOrder, CommandConnect(n) PROVE FALSE
      <4>1. PICK p \in Ide : ConnectTo(p)
        BY <3>3, ElementOfSeq, LenProperties
        DEF CommandConnect, CommandIInv, ByTimeOK
      <4> QED
        BY <2>1, <2>2, <4>1, OpenPending DEF ConnectTo
    <3>4. CASE UNCHANGED cl
      BY <2>1, <3>4
    <3> QED
      BY <3>1, <3>2, <3>3, <3>4
      DEF CommandNext, Commands, CommandList, CommandNoIde, Directory,
          LockAppears, LockGoes, LockRewritten, IdeUp, IdeDown, EventLoop, vars
  <2>4. PullStep(c) \/ Continue(c)
    BY <2>1, <2>2, <2>3, BackgroundPending
  <2>5. CASE PullStep(c)
    <3>1. cl[c] \in ClientState /\ RecordOK(cl[c]) /\ cl \in [Client -> ClientState]
      BY <2>1 DEF IInv, TypeOK
    <3>2. cl[c].sock = "open" /\ cl[c].ide
      BY <2>5, <3>1 DEF PullStep, RecordOK
    <3>3. c = current /\ current # None
      BY <2>1, <3>2, ConstantsAssumption DEF IInv, OneLiveSocket, Live
    <3>4. current' = c /\ cl'[c].sock = "open" /\ cl'[c].ide
      BY <2>1, <2>5, <3>1, <3>2, <3>3 DEF PullStep, ClientState
    <3> QED
      BY <3>3, <3>4 DEF Linked, HasLink, Live
  <2>6. CASE Continue(c)
    BY <2>1, <2>6 DEF Continue, OpenFailed, OpenAborted
  <2> QED
    BY <2>4, <2>5, <2>6
<1> QED
  BY CommandIInvHolds, <1>1, PTL DEF CommandSpec, ConnectedIsTrue
=============================================================================
