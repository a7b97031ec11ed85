------------------------ MODULE DiagnosticsSyncProofs ------------------------
(* Safety of DiagnosticsSync for any number of files, projects, unanswered  *)
(* calls and messages in flight.                                            *)
EXTENDS DiagnosticsSync, SequenceTheorems, TLAPS

(* A JetBrains worker holds at most one reply; VS Code holds none.          *)
HeldOK == /\ Len(held) <= 1
          /\ \A i \in 1..Len(held) : held[i].kind = "reply"
          /\ IsVscode => held = <<>>

(* What makes the client read the server again after the last hint.         *)
HintPending == \/ diagPullTimer \/ reqs > 0
               \/ \E i \in 1..Len(chan) : chan[i].kind = "hint"

OwedIsPending == owed => up /\ HintPending

(* The reply computed last is the last word on its way to the cache, which  *)
(* it has not reached if its call failed.                                   *)
LastInChan == \E i \in 1..Len(chan) :
                /\ chan[i] = Reply(lastRead)
                /\ \A j \in 1..Len(chan) : j > i => chan[j].kind = "hint"

Arrived == (failed \/ diagnostics = lastRead) /\ \A i \in 1..Len(chan) : chan[i].kind = "hint"

LastWord == IF held = <<>> THEN LastInChan \/ Arrived ELSE held[1] = Reply(lastRead)

ReadIsLastWord == up /\ ~pulling /\ reqs = 0 => LastWord

(* A file of the project that was read agrees with the reading, or its      *)
(* daemon's pass, its alarm or a hint is still to come.                     *)
ReadIsCurrent ==
    IsJetbrains /\ up /\ ~pulling /\ reqs = 0 /\ ~owed =>
        \A f \in open \cap FilesOf(readOf) :
            \/ f \in pending
            \/ readOf \in hintTimer
            \/ f \in lastRead <=> f \in problems

IInv == TypeOK /\ HeldOK /\ OwedIsPending /\ ReadIsLastWord /\ ReadIsCurrent

-----------------------------------------------------------------------------

LEMMA MessageFacts ==
    /\ Hint \in Message
    /\ \A F \in SUBSET File : Reply(F) \in Message
BY DEF Hint, Reply, Message

LEMMA InitIInv == ASSUME Init PROVE IInv
<1>1. active \in Project
  BY ConstantsAssumption DEF Init
<1>2. 0 \in 0..MaxReqs[kind]
  BY ConstantsAssumption DEF Init
<1>3. chan = <<>> /\ held = <<>> /\ <<>> \in Seq(Message)
  BY DEF Init
<1>4. TypeOK
  BY <1>1, <1>2, <1>3 DEF Init, TypeOK
<1>5. HeldOK /\ OwedIsPending /\ ReadIsLastWord /\ ReadIsCurrent
  BY <1>3 DEF Init, HeldOK, OwedIsPending, ReadIsLastWord, ReadIsCurrent
<1> QED BY <1>4, <1>5 DEF IInv

(* The wire and the cache are left alone: only the reading can grow old.    *)
LEMMA WindowStep ==
    ASSUME IInv, TypeOK', ReadIsCurrent',
           UNCHANGED <<kind, wire, client, owed, lastRead, failed>>
    PROVE  IInv'
BY DEF IInv, wire, client, HeldOK, IsVscode, OwedIsPending, HintPending, ReadIsLastWord,
       LastWord, LastInChan, Arrived

LEMMA TabStep ==
    ASSUME IInv, NEW f \in File, OpenTab(f) \/ CloseTab(f) \/ ProblemsChange(f)
    PROVE  IInv'
<1>1. IsVscode /\ UNCHANGED <<kind, active, wire, client, ghost>>
  BY DEF OpenTab, CloseTab, ProblemsChange
<1>2. open' \subseteq File /\ problems' \subseteq File /\ pending' \subseteq File
      /\ hintTimer' \subseteq Project \cup {None}
  BY DEF IInv, TypeOK, OpenTab, CloseTab, ProblemsChange
<1>3. TypeOK'
  BY <1>1, <1>2 DEF IInv, TypeOK, wire, client, ghost
<1>4. ReadIsCurrent'
  BY <1>1 DEF ReadIsCurrent, IsVscode, IsJetbrains
<1> QED BY <1>1, <1>3, <1>4, WindowStep DEF ghost

LEMMA FileStep ==
    ASSUME IInv, NEW f \in File, OpenFile(f) \/ CloseFile(f) \/ EditFile(f)
    PROVE  IInv'
<1>1. UNCHANGED <<kind, hintTimer, active, wire, client, ghost>>
  BY DEF OpenFile, CloseFile, EditFile
<1>2. /\ open' \subseteq File /\ problems' \subseteq File /\ pending' \subseteq File
      /\ \A g \in open' \ pending' :
            g \in open \ pending /\ (g \in problems' <=> g \in problems)
  BY DEF IInv, TypeOK, OpenFile, CloseFile, EditFile
<1>3. TypeOK'
  BY <1>1, <1>2 DEF IInv, TypeOK, wire, client, ghost
<1>4. ReadIsCurrent'
  BY <1>1, <1>2 DEF IInv, ReadIsCurrent, IsJetbrains, FilesOf, wire, ghost
<1> QED BY <1>1, <1>3, <1>4, WindowStep DEF ghost

LEMMA ProjectStep ==
    ASSUME IInv, NEW p \in Project, SwitchProject(p) \/ DaemonFinished(p)
    PROVE  IInv'
<1>1. UNCHANGED <<kind, open, wire, client, ghost>>
  BY DEF SwitchProject, DaemonFinished
<1>2. /\ active' \in Project /\ problems' \subseteq File /\ pending' \subseteq File
      /\ hintTimer' \subseteq Project \cup {None} /\ hintTimer \subseteq hintTimer'
  BY DEF IInv, TypeOK, SwitchProject, DaemonFinished
<1>3. TypeOK'
  BY <1>1, <1>2 DEF IInv, TypeOK, wire, client, ghost
<1>4. \A f \in FilesOf(readOf) : readOf \notin hintTimer' =>
        (f \in pending' <=> f \in pending) /\ (f \in problems' <=> f \in problems)
  <2>1. CASE SwitchProject(p)
    BY <2>1 DEF SwitchProject
  <2>2. CASE DaemonFinished(p)
    <3>1. p \in hintTimer'
      BY <2>2 DEF DaemonFinished
    <3>2. \A f \in File \ FilesOf(p) :
            (f \in pending' <=> f \in pending) /\ (f \in problems' <=> f \in problems)
      BY <2>2 DEF DaemonFinished
    <3> QED BY <3>1, <3>2 DEF FilesOf
  <2> QED BY <2>1, <2>2
<1>5. ReadIsCurrent'
  BY <1>1, <1>2, <1>4 DEF IInv, ReadIsCurrent, IsJetbrains, FilesOf, wire, ghost
<1> QED BY <1>1, <1>3, <1>5, WindowStep DEF ghost

(* Appending a hint: older messages keep their places.                      *)
LEMMA AppendHint ==
    ASSUME chan \in Seq(Message), chan' = Append(chan, Hint)
    PROVE  /\ chan' \in Seq(Message)
           /\ Len(chan') = Len(chan) + 1
           /\ \A i \in 1..Len(chan) : chan'[i] = chan[i]
           /\ chan'[Len(chan')].kind = "hint"
BY MessageFacts DEF Hint

LEMMA HintStep ==
    ASSUME IInv, HintTimer \/ \E p \in Project : Alarm(p)
    PROVE  IInv'
<1>1. UNCHANGED <<kind, open, problems, active, up, pulling, reqs, held, client,
                     lastRead, readOf, failed>>
  BY DEF HintTimer, Alarm
<1>2. /\ hintTimer' \subseteq hintTimer /\ pending' \subseteq File
      /\ pending' # pending => IsVscode
  BY DEF IInv, TypeOK, HintTimer, Alarm
<1>3. \/ chan' = Append(chan, Hint) /\ owed' = TRUE /\ up
      \/ UNCHANGED <<chan, owed>>
  BY DEF HintTimer, Alarm, SendHint
<1>4. ASSUME UNCHANGED <<chan, owed>> PROVE IInv'
  <2>1. TypeOK'
    BY <1>1, <1>2, <1>4 DEF IInv, TypeOK, client
  <2>2. ReadIsCurrent'
    <3> SUFFICES ASSUME IsJetbrains, up, ~pulling, reqs = 0, ~owed, NEW f \in open \cap FilesOf(readOf)
                 PROVE  f \in pending \/ readOf \in hintTimer' \/ (f \in lastRead <=> f \in problems)
      BY <1>1, <1>2, <1>4 DEF ReadIsCurrent, IsJetbrains, IsVscode, FilesOf
    <3>1. UNCHANGED hintTimer
      BY <1>4 DEF Alarm, HintTimer, SendHint, IsVscode, IsJetbrains, IInv, TypeOK
    <3> QED BY <3>1 DEF IInv, ReadIsCurrent
  <2> QED BY <1>1, <1>4, <2>1, <2>2, WindowStep DEF wire
<1>5. ASSUME chan' = Append(chan, Hint), owed' = TRUE, up PROVE IInv'
  <2>1. /\ chan \in Seq(Message) /\ chan' \in Seq(Message) /\ Len(chan') = Len(chan) + 1
        /\ Len(chan) \in Nat
        /\ \A i \in 1..Len(chan) : chan'[i] = chan[i]
        /\ chan'[Len(chan')].kind = "hint"
    BY <1>5, AppendHint DEF IInv, TypeOK
  <2>2. TypeOK'
    BY <1>1, <1>2, <1>5, <2>1 DEF IInv, TypeOK, client
  <2>3. HeldOK'
    BY <1>1 DEF IInv, HeldOK, IsVscode
  <2>4. OwedIsPending'
    BY <1>1, <1>5, <2>1 DEF OwedIsPending, HintPending
  <2>5. LastInChan => LastInChan'
    BY <1>1, <2>1 DEF LastInChan, Reply
  <2>6. Arrived => Arrived'
    BY <1>1, <2>1 DEF Arrived, client
  <2>7. ReadIsLastWord'
    BY <1>1, <2>5, <2>6 DEF IInv, ReadIsLastWord, LastWord, Reply
  <2>8. ReadIsCurrent'
    BY <1>5 DEF ReadIsCurrent
  <2> QED BY <2>2, <2>3, <2>4, <2>7, <2>8 DEF IInv
<1> QED BY <1>3, <1>4, <1>5

LEMMA ServePullStep == ASSUME IInv, ServePull PROVE IInv'
<1>1. /\ IsVscode /\ reqs > 0 /\ reqs' = reqs - 1
      /\ chan' = Append(chan, Reply(problems)) /\ lastRead' = problems /\ owed' = FALSE
      /\ UNCHANGED <<editor, up, pulling, held, client, readOf, failed>>
  BY DEF ServePull
<1>2. Reply(problems) \in Message /\ chan \in Seq(Message) /\ held = <<>>
  BY <1>1, MessageFacts DEF IInv, TypeOK, HeldOK
<1>3. /\ chan' \in Seq(Message) /\ Len(chan') = Len(chan) + 1 /\ Len(chan) \in Nat
      /\ chan'[Len(chan')] = Reply(problems)
  BY <1>1, <1>2
<1>4. TypeOK'
  <2>1. reqs' \in 0..MaxReqs[kind]
    BY <1>1, ConstantsAssumption DEF IInv, TypeOK
  <2> QED BY <1>1, <1>3, <2>1 DEF IInv, TypeOK, editor, client
<1>5. LastInChan'
  BY <1>1, <1>3 DEF LastInChan, Reply
<1>6. HeldOK' /\ OwedIsPending' /\ ReadIsLastWord' /\ ReadIsCurrent'
  BY <1>1, <1>2, <1>5 DEF IInv, HeldOK, OwedIsPending, ReadIsLastWord, LastWord,
     ReadIsCurrent, IsVscode, IsJetbrains, editor
<1> QED BY <1>4, <1>6 DEF IInv

LEMMA ComputePullStep == ASSUME IInv, ComputePull PROVE IInv'
<1> DEFINE found == problems \cap open \cap FilesOf(active)
<1>1. /\ IsJetbrains /\ reqs > 0 /\ held = <<>> /\ reqs' = reqs - 1
      /\ held' = <<Reply(found)>> /\ lastRead' = found
      /\ owed' = FALSE /\ readOf' = active
      /\ UNCHANGED <<editor, up, pulling, chan, client, failed>>
  BY DEF ComputePull
<1>2. found \in SUBSET File /\ Reply(found) \in Message /\ Reply(found).kind = "reply"
  BY MessageFacts DEF IInv, TypeOK, Reply
<1>3. reqs' \in 0..MaxReqs[kind]
  BY <1>1, ConstantsAssumption DEF IInv, TypeOK
<1>4. ReadIsCurrent'
  BY <1>1 DEF ReadIsCurrent, FilesOf, editor
<1> HIDE DEF found
<1>5. held' \in Seq(Message) /\ Len(held') = 1 /\ held'[1] = Reply(found)
  BY <1>1, <1>2
<1>6. TypeOK'
  BY <1>1, <1>2, <1>3, <1>5 DEF IInv, TypeOK, editor, client
<1>7. HeldOK' /\ OwedIsPending' /\ ReadIsLastWord'
  BY <1>1, <1>2, <1>5 DEF HeldOK, OwedIsPending, ReadIsLastWord, LastWord, IsVscode,
     IsJetbrains, editor, Reply
<1> QED BY <1>4, <1>6, <1>7 DEF IInv

LEMMA SendReplyStep == ASSUME IInv, SendReply PROVE IInv'
<1>1. /\ held # <<>> /\ chan' = chan \o held /\ held' = <<>>
      /\ UNCHANGED <<editor, up, pulling, reqs, client, ghost>>
  BY DEF SendReply
<1>2. /\ chan \in Seq(Message) /\ held \in Seq(Message) /\ Len(held) = 1 /\ Len(chan) \in Nat
      /\ held[1].kind = "reply"
  <2>1. /\ chan \in Seq(Message) /\ held \in Seq(Message) /\ Len(held) \in Nat
        /\ Len(chan) \in Nat /\ Len(held) <= 1
        /\ \A i \in 1..Len(held) : held[i].kind = "reply"
    BY DEF IInv, TypeOK, HeldOK
  <2>2. Len(held) \in Nat \ {0} /\ Len(held) <= 1
    BY <1>1, <2>1, EmptySeq
  <2>3. \A n \in Nat \ {0} : n <= 1 => n = 1
    OBVIOUS
  <2>4. Len(held) = 1
    BY <2>2, <2>3, Zenon
  <2> QED BY <2>1, <2>4
<1>3. /\ chan' \in Seq(Message) /\ held' \in Seq(Message) /\ Len(chan') = Len(chan) + 1
      /\ \A i \in 1..Len(chan) : chan'[i] = chan[i]
      /\ chan'[Len(chan')] = held[1]
  <2>1. /\ chan \o held \in Seq(Message)
        /\ Len(chan \o held) = Len(chan) + Len(held)
        /\ \A i \in 1..(Len(chan) + Len(held)) : (chan \o held)[i] =
                IF i <= Len(chan) THEN chan[i] ELSE held[i - Len(chan)]
    BY <1>2, ConcatProperties
  <2>2. (chan \o held)[Len(chan) + 1] = held[1]
    BY <1>2, <2>1
  <2>3. held' \in Seq(Message)
    BY <1>1
  <2> QED BY <1>1, <1>2, <2>1, <2>2, <2>3
<1>4. TypeOK'
  BY <1>1, <1>3 DEF IInv, TypeOK, editor, client, ghost
<1>5. LastWord => LastWord'
  BY <1>1, <1>2, <1>3 DEF LastWord, LastInChan, Reply, ghost
<1>6. HintPending => HintPending'
  BY <1>1, <1>2, <1>3 DEF HintPending, client
<1>7. HeldOK' /\ OwedIsPending' /\ ReadIsLastWord' /\ ReadIsCurrent'
  BY <1>1, <1>5, <1>6 DEF IInv, HeldOK, OwedIsPending, ReadIsLastWord, ReadIsCurrent,
     IsJetbrains, IsVscode, FilesOf, editor, client, ghost
<1> QED BY <1>4, <1>7 DEF IInv

LEMMA ConnectionStep == ASSUME IInv, Connect \/ Drop \/ Stop PROVE IInv'
<1>1. /\ UNCHANGED <<editor, diagnostics, lastRead, readOf, failed>>
      /\ held' = <<>> /\ chan' = <<>>
      /\ diagPullTimer' \in BOOLEAN
  BY DEF Connect, Drop, Stop, client, ghost, IInv, TypeOK
<1>2. /\ reqs' = 0
      /\ \/ up' = TRUE /\ pulling' = TRUE /\ owed' = FALSE
         \/ up' = FALSE /\ pulling' = FALSE /\ owed' = FALSE
  BY DEF Connect, Drop, Stop, ghost, IInv, TypeOK, OwedIsPending
<1>3. /\ reqs' \in 0..MaxReqs[kind] /\ up' \in BOOLEAN /\ pulling' \in BOOLEAN
      /\ owed' \in BOOLEAN
  <2>1. MaxReqs[kind] \in Nat \ {0}
    BY ConstantsAssumption DEF IInv, TypeOK
  <2>2. 0 \in 0..MaxReqs[kind] /\ kind' = kind
    BY <1>1, <2>1 DEF editor
  <2> QED BY <1>2, <2>2 DEF IInv, TypeOK
<1>4. <<>> \in Seq(Message) /\ Len(<<>>) = 0
  OBVIOUS
<1>5. TypeOK'
  BY <1>1, <1>3, <1>4 DEF IInv, TypeOK, editor
<1>6. HeldOK' /\ OwedIsPending' /\ ReadIsLastWord' /\ ReadIsCurrent'
  BY <1>1, <1>2, <1>4 DEF IInv, HeldOK, OwedIsPending, HintPending, ReadIsLastWord,
     ReadIsCurrent, editor
<1> QED BY <1>5, <1>6 DEF IInv

(* Reading the first message: the others move up by one.                    *)
LEMMA TailFacts ==
    ASSUME chan \in Seq(Message), chan # <<>>, chan' = Tail(chan)
    PROVE  /\ chan' \in Seq(Message) /\ Len(chan) \in Nat \ {0}
           /\ Len(chan') = Len(chan) - 1
           /\ \A i \in 1..Len(chan') : chan'[i] = chan[i + 1]
           /\ Head(chan) = chan[1] /\ chan[1] \in Message
OBVIOUS

LEMMA RecvHintStep == ASSUME IInv, RecvHint PROVE IInv'
<1>1. /\ chan # <<>> /\ Head(chan).kind = "hint" /\ chan' = Tail(chan)
      /\ diagPullTimer' = TRUE
      /\ UNCHANGED <<editor, up, pulling, reqs, held, diagnostics, ghost>>
  BY DEF RecvHint
<1>2. /\ chan' \in Seq(Message) /\ Len(chan) \in Nat \ {0} /\ Len(chan') = Len(chan) - 1
      /\ \A i \in 1..Len(chan') : chan'[i] = chan[i + 1]
      /\ chan[1].kind = "hint"
  BY <1>1, TailFacts DEF IInv, TypeOK
<1>3. TypeOK'
  BY <1>1, <1>2 DEF IInv, TypeOK, editor, ghost
<1>4. LastInChan => LastInChan'
  <2> SUFFICES ASSUME NEW i \in 1..Len(chan), chan[i] = Reply(lastRead),
                      \A j \in 1..Len(chan) : j > i => chan[j].kind = "hint"
               PROVE  LastInChan'
    BY DEF LastInChan
  <2>1. i # 1
    BY <1>2 DEF Reply
  <2>2. i - 1 \in 1..Len(chan') /\ chan'[i - 1] = Reply(lastRead')
    BY <1>1, <1>2, <2>1 DEF ghost
  <2>3. \A j \in 1..Len(chan') : j > i - 1 => chan'[j].kind = "hint"
    BY <1>2, <2>1
  <2> QED BY <2>2, <2>3 DEF LastInChan
<1>5. Arrived => Arrived'
  BY <1>1, <1>2 DEF Arrived, ghost
<1>6. HeldOK' /\ OwedIsPending' /\ ReadIsLastWord' /\ ReadIsCurrent'
  BY <1>1, <1>4, <1>5 DEF IInv, HeldOK, OwedIsPending, HintPending, ReadIsLastWord, LastWord,
     ReadIsCurrent, IsJetbrains, IsVscode, FilesOf, editor, ghost, Reply
<1> QED BY <1>3, <1>6 DEF IInv

(* An answer that is applied, or that belongs to a failed call.             *)
LEMMA AnswerStep == ASSUME IInv, RecvReply \/ PullFails PROVE IInv'
<1>1. /\ chan # <<>> /\ Head(chan).kind = "reply" /\ chan' = Tail(chan)
      /\ \/ diagnostics' = Head(chan).files /\ failed' = FALSE
         \/ diagnostics' = diagnostics /\ failed' = TRUE
      /\ UNCHANGED <<editor, up, pulling, reqs, held, diagPullTimer, owed, lastRead, readOf>>
  BY DEF RecvReply, PullFails, client
<1>2. /\ chan' \in Seq(Message) /\ Len(chan) \in Nat \ {0} /\ Len(chan') = Len(chan) - 1
      /\ \A i \in 1..Len(chan') : chan'[i] = chan[i + 1]
      /\ chan[1].kind = "reply" /\ (failed' \/ diagnostics' = chan[1].files)
      /\ chan[1].files \subseteq File
  BY <1>1, TailFacts DEF IInv, TypeOK, Message
<1>3. TypeOK'
  BY <1>1, <1>2 DEF IInv, TypeOK, editor
<1>4. LastInChan \/ Arrived => LastInChan' \/ Arrived'
  <2>1. ~Arrived
    BY <1>2 DEF Arrived
  <2> SUFFICES ASSUME NEW i \in 1..Len(chan), chan[i] = Reply(lastRead),
                      \A j \in 1..Len(chan) : j > i => chan[j].kind = "hint"
               PROVE  LastInChan' \/ Arrived'
    BY <2>1 DEF LastInChan
  <2>2. \A j \in 1..Len(chan') : j > i - 1 => chan'[j].kind = "hint"
    BY <1>2
  <2>3. CASE i = 1
    BY <1>1, <1>2, <2>2, <2>3 DEF Arrived, Reply
  <2>4. CASE i # 1
    <3>1. i - 1 \in 1..Len(chan') /\ chan'[i - 1] = Reply(lastRead')
      BY <1>1, <1>2, <2>4
    <3> QED BY <2>2, <3>1 DEF LastInChan
  <2> QED BY <2>3, <2>4
<1>5. HintPending => HintPending'
  <2> SUFFICES ASSUME NEW i \in 1..Len(chan), chan[i].kind = "hint"
               PROVE  \E j \in 1..Len(chan') : chan'[j].kind = "hint"
    BY <1>1 DEF HintPending
  <2>1. i # 1
    BY <1>2
  <2>2. i - 1 \in 1..Len(chan') /\ chan'[i - 1].kind = "hint"
    BY <1>2, <2>1
  <2> QED BY <2>2
<1>6. HeldOK' /\ OwedIsPending' /\ ReadIsLastWord' /\ ReadIsCurrent'
  BY <1>1, <1>4, <1>5 DEF IInv, HeldOK, OwedIsPending, ReadIsLastWord, LastWord,
     ReadIsCurrent, IsJetbrains, IsVscode, FilesOf, editor, Reply
<1> QED BY <1>3, <1>6 DEF IInv

LEMMA InitialPullStep == ASSUME IInv, InitialPull PROVE IInv'
<1>1. /\ reqs < MaxReqs[kind] /\ pulling' = FALSE /\ reqs' = reqs + 1
      /\ UNCHANGED <<editor, up, held, chan, client, ghost>>
  BY DEF InitialPull
<1>2. reqs \in Nat /\ reqs' \in 0..MaxReqs[kind] /\ reqs' > 0
  BY <1>1, ConstantsAssumption DEF IInv, TypeOK
<1>3. TypeOK'
  BY <1>1, <1>2 DEF IInv, TypeOK, editor, client, ghost
<1>4. HeldOK' /\ OwedIsPending' /\ ReadIsLastWord' /\ ReadIsCurrent'
  BY <1>1, <1>2 DEF IInv, HeldOK, OwedIsPending, HintPending, ReadIsLastWord,
     ReadIsCurrent, IsVscode, editor, ghost
<1> QED BY <1>3, <1>4 DEF IInv

LEMMA PullTimerStep == ASSUME IInv, PullTimer PROVE IInv'
<1>1. /\ reqs < MaxReqs[kind] /\ diagPullTimer' = FALSE
      /\ reqs' = IF up THEN reqs + 1 ELSE reqs
      /\ UNCHANGED <<editor, up, pulling, held, chan, diagnostics, ghost>>
  BY DEF PullTimer
<1>2. reqs \in Nat /\ reqs' \in 0..MaxReqs[kind] /\ (up => reqs' > 0)
  BY <1>1, ConstantsAssumption DEF IInv, TypeOK
<1>3. TypeOK'
  BY <1>1, <1>2 DEF IInv, TypeOK, editor, ghost
<1>4. HeldOK' /\ OwedIsPending' /\ ReadIsLastWord' /\ ReadIsCurrent'
  BY <1>1, <1>2 DEF IInv, HeldOK, OwedIsPending, HintPending, ReadIsLastWord,
     ReadIsCurrent, IsVscode, editor, ghost
<1> QED BY <1>3, <1>4 DEF IInv

LEMMA StutterStep == ASSUME IInv, UNCHANGED vars PROVE IInv'
<1>1. UNCHANGED <<editor, wire, client, ghost>>
  BY DEF vars
<1>2. TypeOK' /\ ReadIsCurrent'
  BY <1>1 DEF IInv, TypeOK, ReadIsCurrent, IsJetbrains, FilesOf, editor, wire, client, ghost
<1> QED BY <1>1, <1>2, WindowStep DEF editor, ghost

LEMMA NextIInv == ASSUME IInv, [Next]_vars PROVE IInv'
BY TabStep, FileStep, ProjectStep, HintStep, ServePullStep, ComputePullStep, SendReplyStep,
   ConnectionStep, InitialPullStep, RecvHintStep, AnswerStep, PullTimerStep, StutterStep
   DEF Next

LEMMA Inductive == Spec => []IInv
BY InitIInv, NextIInv, PTL DEF Spec

-----------------------------------------------------------------------------

(* Every reachable state of the hints and pulls is well typed.              *)
THEOREM TypeCorrect == Spec => []TypeOK
<1>1. IInv => TypeOK
  BY DEF IInv
<1> QED BY <1>1, Inductive, PTL

(* When the client is idle, a pull was answered after the last hint, and    *)
(* the client holds the answer unless that pull failed.                     *)
LEMMA IdleFacts ==
    ASSUME IInv, ClientIdle PROVE ~owed /\ (failed \/ diagnostics = lastRead)
<1>1. /\ up /\ ~pulling /\ reqs = 0 /\ held = <<>> /\ chan = <<>> /\ ~diagPullTimer
      /\ Len(chan) = 0
  BY DEF ClientIdle
<1>2. ~owed
  BY <1>1 DEF IInv, OwedIsPending, HintPending
<1>3. LastInChan \/ Arrived
  BY <1>1 DEF IInv, ReadIsLastWord, LastWord
<1> QED BY <1>1, <1>2, <1>3 DEF LastInChan, Arrived

(* No hint is lost, however hints, pulls, replies, failures and drops       *)
(* interleave: an idle client has an answer younger than the last hint, and *)
(* holds it unless the last call was the one that failed (core.ts           *)
(* scheduleDiagnosticsPull, pullInitialState).                              *)
THEOREM HintsHonouredHolds == Spec => []HintsHonoured
<1>1. IInv => HintsHonoured
  BY IdleFacts DEF HintsHonoured
<1> QED BY <1>1, Inductive, PTL

(* With JetBrains, an idle client whose last pull succeeded agrees with the *)
(* daemon on the open files of the active project that was read.            *)
THEOREM ActiveFilesInSyncHolds == Spec => []ActiveFilesInSyncOnJetbrains
<1>1. IInv => ActiveFilesInSyncOnJetbrains
  <2> SUFFICES ASSUME IInv, IsJetbrains, ClientIdle, ~failed, hintTimer = {}, pending = {},
                      readOf = active, NEW f \in open \cap FilesOf(active)
               PROVE  f \in diagnostics <=> f \in problems
    BY DEF ActiveFilesInSyncOnJetbrains
  <2>1. ~owed /\ diagnostics = lastRead /\ up /\ ~pulling /\ reqs = 0
    BY IdleFacts DEF ClientIdle
  <2> QED BY <2>1 DEF IInv, ReadIsCurrent
<1> QED BY <1>1, Inductive, PTL
=============================================================================
