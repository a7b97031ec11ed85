------------------------- MODULE VscodeServerProofs --------------------------
(* Safety of VscodeServer and of the diff reviews it holds, for any number  *)
(* of clients, reviews, edits and port attempts.                            *)
EXTENDS VscodeServer, TLAPS

-----------------------------------------------------------------------------
(* Diff reviews *)

(* What the listener heard is the last save, unless that came before it was *)
(* there; an answer repeats what the listener heard.                        *)
RecordOK(s) ==
    /\ s.phase \in {"none", "opening"} => s.heard = None
    /\ IF s.heard = None THEN s.disk = None \/ s.early ELSE s.heard = s.disk
    /\ s.answer # None =>
        /\ s.phase = "settled" /\ ~s.dir
        /\ s.answer.status = IF s.heard = None THEN "rejected" ELSE "accepted"
        /\ s.answer.finalText = s.heard

ReviewsOK == ReviewTypeOK /\ \A r \in Review : RecordOK(review[r])

LEMMA UnopenedOK == Unopened \in ReviewState /\ RecordOK(Unopened)
BY ReviewAssumption DEF Unopened, ReviewState, RecordOK, Version

LEMMA SettleOK ==
    ASSUME NEW s \in ReviewState, RecordOK(s), s.phase = "watched"
    PROVE  Settle(s) \in ReviewState /\ RecordOK(Settle(s))
<1> DEFINE a == [status |-> IF s.heard = None THEN "rejected" ELSE "accepted",
                 finalText |-> s.heard]
<1>1. a \in Answers
  BY DEF Answers, ReviewState
<1>2. Settle(s) = [s EXCEPT !.phase = "settled", !.dir = FALSE, !.answer = a]
  BY DEF Settle
<1> HIDE DEF a
<1>3. Settle(s) \in ReviewState
  BY <1>1, <1>2 DEF ReviewState
<1>4. /\ Settle(s).phase = "settled" /\ Settle(s).dir = FALSE /\ Settle(s).answer = a
      /\ Settle(s).heard = s.heard /\ Settle(s).disk = s.disk
      /\ Settle(s).early = s.early
  BY <1>2 DEF ReviewState
<1>5. a.status = (IF s.heard = None THEN "rejected" ELSE "accepted") /\ a.finalText = s.heard
  BY DEF a
<1> QED BY <1>3, <1>4, <1>5 DEF RecordOK

(* Replacing one record by another sound one.                               *)
LEMMA ReplaceOK ==
    ASSUME ReviewsOK, NEW r \in Review, NEW s \in ReviewState, RecordOK(s),
           review' = [review EXCEPT ![r] = s]
    PROVE  ReviewsOK'
BY DEF ReviewsOK, ReviewTypeOK

(* Every step of a review keeps all of them sound.                          *)
LEMMA ReviewStepOK ==
    ASSUME ReviewsOK, NEW r \in Review,
           \/ OpenDiff(r) \/ OpenDiffThrows(r) \/ Watch(r) \/ DiffFails(r)
           \/ UserActs(r) \/ DocumentClosed(r) \/ LanguageChanged(r)
    PROVE  ReviewsOK'
<1> DEFINE s == review[r]
<1>1. s \in ReviewState /\ RecordOK(s) /\ review \in [Review -> ReviewState]
  BY DEF ReviewsOK, ReviewTypeOK
<1>2. s.phase # "settled" => s.answer = None
  BY <1>1 DEF RecordOK
<1>3. CASE OpenDiff(r)
  <2> DEFINE t == [s EXCEPT !.phase = "opening", !.dir = TRUE]
  <2>1. review' = [review EXCEPT ![r] = t] /\ s.phase = "none"
    BY <1>1, <1>3 DEF OpenDiff
  <2>2. t \in ReviewState /\ RecordOK(t)
    BY <1>1, <1>2, <2>1 DEF ReviewState, RecordOK
  <2> QED BY <2>1, <2>2, ReplaceOK
<1>4. CASE OpenDiffThrows(r)
  <2>1. PICK made \in BOOLEAN :
            review' = [review EXCEPT ![r].phase = "failed", ![r].dir = made]
    BY <1>4 DEF OpenDiffThrows
  <2> DEFINE t == [s EXCEPT !.phase = "failed", !.dir = made]
  <2>2. review' = [review EXCEPT ![r] = t] /\ s.phase = "none"
    BY <1>1, <1>4, <2>1 DEF OpenDiffThrows
  <2>3. t \in ReviewState /\ RecordOK(t)
    BY <1>1, <1>2, <2>2 DEF ReviewState, RecordOK
  <2> QED BY <2>2, <2>3, ReplaceOK
<1>5. CASE Watch(r)
  <2> DEFINE t == [s EXCEPT !.phase = "watched"]
  <2>1. review' = [review EXCEPT ![r] = t] /\ s.phase = "opening"
    BY <1>1, <1>5 DEF Watch
  <2>2. t \in ReviewState /\ RecordOK(t)
    BY <1>1, <1>2, <2>1 DEF ReviewState, RecordOK
  <2> QED BY <2>1, <2>2, ReplaceOK
<1>6. CASE DiffFails(r)
  <2> DEFINE t == [s EXCEPT !.phase = "failed"]
  <2>1. review' = [review EXCEPT ![r] = t] /\ s.phase = "opening"
    BY <1>1, <1>6 DEF DiffFails
  <2>2. t \in ReviewState /\ RecordOK(t)
    BY <1>1, <1>2, <2>1 DEF ReviewState, RecordOK
  <2> QED BY <2>1, <2>2, ReplaceOK
<1>7. CASE UserActs(r)
  <2>1. CASE EditorShown(r) \/ CloseTab(r)
    <3> DEFINE t(d) == [s EXCEPT !.doc = d]
    <3>1. \E d \in {"shown", "closing"} : review' = [review EXCEPT ![r] = t(d)]
      BY <1>1, <2>1 DEF EditorShown, CloseTab
    <3>2. \A d \in {"shown", "closing"} : t(d) \in ReviewState /\ RecordOK(t(d))
      BY <1>1 DEF ReviewState, RecordOK
    <3> QED BY <3>1, <3>2, ReplaceOK
  <2>2. CASE Edit(r)
    <3> DEFINE t == [s EXCEPT !.text = @ + 1]
    <3>1. review' = [review EXCEPT ![r] = t] /\ s.text < MaxEdits
      BY <1>1, <2>2 DEF Edit
    <3>2. s.text + 1 \in Version
      BY <1>1, <3>1, ReviewAssumption DEF ReviewState, Version
    <3>3. t \in ReviewState /\ RecordOK(t)
      BY <1>1, <3>2 DEF ReviewState, RecordOK
    <3> QED BY <3>1, <3>3, ReplaceOK
  <2>3. CASE Save(r)
    <3> DEFINE w == s.phase = "watched"
               t == [s EXCEPT !.disk = s.text, !.early = ~w,
                              !.heard = IF w THEN s.text ELSE s.heard]
    <3>1. review' = [review EXCEPT ![r] = t] /\ s.phase \in {"opening", "watched"}
      BY <1>1, <2>3 DEF Save, InReview
    <3>2. s.text # None
      BY <1>1, ReviewAssumption DEF ReviewState, Version
    <3>3. t \in ReviewState /\ RecordOK(t)
      BY <1>1, <1>2, <3>1, <3>2 DEF ReviewState, RecordOK
    <3> QED BY <3>1, <3>3, ReplaceOK
  <2> QED BY <1>7, <2>1, <2>2, <2>3 DEF UserActs
<1>8. CASE DocumentClosed(r)
  <2> DEFINE t == [s EXCEPT !.doc = "gone"]
  <2>1. review' = [review EXCEPT ![r] = IF t.phase = "watched" THEN Settle(t) ELSE t]
    BY <1>1, <1>8 DEF DocumentClosed
  <2>2. t \in ReviewState /\ RecordOK(t)
    BY <1>1 DEF ReviewState, RecordOK
  <2> QED BY <2>1, <2>2, SettleOK, ReplaceOK
<1>9. CASE LanguageChanged(r)
  <2>1. review' = [review EXCEPT ![r] = Settle(s)] /\ s.phase = "watched"
    BY <1>1, <1>9 DEF LanguageChanged
  <2> QED BY <1>1, <2>1, SettleOK, ReplaceOK
<1> QED BY <1>3, <1>4, <1>5, <1>6, <1>7, <1>8, <1>9

-----------------------------------------------------------------------------
(* The server *)

AttemptsLeft == server = "off" => attempts < MaxAttempts

(* A client that was told of the end is no longer written to.               *)
ShutdownSilences == \A c \in Client : last[c] = "shutdown" => ws[c] # "open"

SocketsOK == OpenIsKnown /\ ShutdownSilences

IInv == TypeOK /\ ReviewsOK /\ AttemptsLeft /\ SocketsOK

Word == {"none", "reply", "notice", "shutdown"}

LEMMA InitIInv == ASSUME Init PROVE IInv
<1>1. ReviewsOK
  BY UnopenedOK DEF Init, ReviewInit, ReviewsOK, ReviewTypeOK
<1>2. TypeOK
  <2>1. attempts \in 0..MaxAttempts
    BY ServerAssumption DEF Init
  <2>2. asker \in [Review -> Client \cup {None}] /\ ws \in [Client -> SocketState]
    BY DEF Init, SocketState
  <2>3. last \in [Client -> {"none", "reply", "notice", "shutdown"}]
    BY DEF Init
  <2> QED BY <1>1, <2>1, <2>2, <2>3 DEF Init, TypeOK, ReviewsOK, ServerState
<1>3. AttemptsLeft /\ SocketsOK
  BY ServerAssumption DEF Init, SocketsOK, AttemptsLeft, OpenIsKnown, ShutdownSilences
<1> QED BY <1>1, <1>2, <1>3 DEF IInv

LEMMA ReviewsStay == ASSUME ReviewsOK, UNCHANGED review PROVE ReviewsOK'
BY DEF ReviewsOK, ReviewTypeOK

LEMMA ActivationStep == ASSUME IInv, Activation PROVE IInv'
<1>1. attempts \in 0..MaxAttempts /\ attempts < MaxAttempts
  BY DEF IInv, TypeOK, AttemptsLeft, Activation, PortTaken, Start, StartThrows
<1>2. UNCHANGED <<sockets, review, asker, last>>
  BY DEF Activation, PortTaken, Start, StartThrows
<1>3. /\ server' \in ServerState /\ attempts' \in 0..MaxAttempts /\ lock' \in BOOLEAN
      /\ AttemptsLeft'
  <2>1. CASE PortTaken
    BY <1>1, <2>1, ServerAssumption DEF PortTaken, ServerState, IInv, TypeOK, AttemptsLeft
  <2>2. CASE Start \/ StartThrows
    BY <1>1, <2>2 DEF Start, StartThrows, ServerState, AttemptsLeft
  <2> QED BY <2>1, <2>2 DEF Activation
<1>4. ReviewsOK'
  BY <1>2, ReviewsStay DEF IInv
<1>5. TypeOK' /\ SocketsOK'
  BY <1>2, <1>3, <1>4 DEF IInv, TypeOK, ReviewsOK, sockets, SocketsOK, OpenIsKnown,
                          ShutdownSilences
<1> QED BY <1>3, <1>4, <1>5 DEF IInv

(* A message to one client, which is not "shutdown".                        *)
LEMMA SendFacts ==
    ASSUME IInv, NEW c, NEW m \in Word \ {"shutdown"}, Send(c, m)
    PROVE  /\ last' \in [Client -> Word]
           /\ \A d \in Client : last'[d] = "shutdown" => last[d] = "shutdown"
           /\ \A d \in Client : ws[d] # "open" => last'[d] = last[d]
BY DEF IInv, TypeOK, Send, Word

(* A step that may change the reviews, what was said last, who asked, and   *)
(* nothing else.                                                            *)
LEMMA TalkStep ==
    ASSUME IInv, ReviewsOK', UNCHANGED <<window, sockets>>,
           asker' \in [Review -> Client \cup {None}],
           last' \in [Client -> Word],
           \A d \in Client : last'[d] = "shutdown" => last[d] = "shutdown"
    PROVE  IInv'
BY DEF IInv, TypeOK, ReviewsOK, Word, window, sockets, SocketsOK, OpenIsKnown,
       ShutdownSilences, AttemptsLeft

LEMMA AnswerStep ==
    ASSUME IInv, NEW c \in Client, Refuse(c) \/ Query(c)
    PROVE  IInv'
<1>1. Send(c, "reply") /\ UNCHANGED <<window, sockets, review, asker>>
  BY DEF Refuse, Query
<1>2. "reply" \in Word \ {"shutdown"}
  BY DEF Word
<1>3. ReviewsOK' /\ asker' \in [Review -> Client \cup {None}]
  BY <1>1, ReviewsStay DEF IInv, TypeOK
<1> QED BY <1>1, <1>2, <1>3, SendFacts, TalkStep

LEMMA InitializeStep ==
    ASSUME IInv, NEW c \in Client, Initialize(c)
    PROVE  IInv'
<1>1. /\ Send(c, "reply") /\ initialized' = initialized \cup {c}
      /\ UNCHANGED <<window, ws, conns, sweep, late, review, asker>>
  BY DEF Initialize
<1>2. "reply" \in Word \ {"shutdown"}
  BY DEF Word
<1>3. /\ last' \in [Client -> Word]
      /\ \A d \in Client : last'[d] = "shutdown" => last[d] = "shutdown"
  BY <1>1, <1>2, SendFacts
<1>4. ReviewsOK'
  BY <1>1, ReviewsStay DEF IInv
<1> QED BY <1>1, <1>3, <1>4 DEF IInv, TypeOK, ReviewsOK, Word, window, SocketsOK,
       OpenIsKnown, ShutdownSilences, AttemptsLeft

LEMMA RequestDiffStep ==
    ASSUME IInv, NEW c \in Client, NEW r \in Review, RequestDiff(c, r)
    PROVE  IInv'
<1>1. UNCHANGED <<window, sockets>>
  BY DEF RequestDiff
<1>2. "reply" \in Word \ {"shutdown"}
  BY DEF Word
<1>3. CASE OpenDiff(r) /\ asker' = [asker EXCEPT ![r] = c] /\ UNCHANGED last
  <2>1. ReviewsOK'
    BY <1>3, ReviewStepOK DEF IInv
  <2> QED BY <1>1, <1>3, <2>1, TalkStep DEF IInv, TypeOK, Word
<1>4. CASE OpenDiffThrows(r) /\ Send(c, "reply") /\ UNCHANGED asker
  <2>1. ReviewsOK'
    BY <1>4, ReviewStepOK DEF IInv
  <2>2. /\ last' \in [Client -> Word]
        /\ \A d \in Client : last'[d] = "shutdown" => last[d] = "shutdown"
    BY <1>2, <1>4, SendFacts
  <2> QED BY <1>1, <1>4, <2>1, <2>2, TalkStep DEF IInv, TypeOK
<1> QED BY <1>3, <1>4 DEF RequestDiff

LEMMA ReviewStep ==
    ASSUME IInv, NEW r \in Review, ReviewGoesOn(r) \/ ReviewEnds(r)
    PROVE  IInv'
<1>1. ReviewsOK' /\ UNCHANGED <<window, sockets, asker>>
  BY ReviewStepOK DEF ReviewGoesOn, ReviewEnds, IInv
<1>2. UNCHANGED last \/ Send(asker[r], "reply")
  BY DEF ReviewGoesOn, ReviewEnds
<1>3. "reply" \in Word \ {"shutdown"}
  BY DEF Word
<1>4. /\ last' \in [Client -> Word]
      /\ \A d \in Client : last'[d] = "shutdown" => last[d] = "shutdown"
  <2>1. CASE UNCHANGED last
    BY <2>1 DEF IInv, TypeOK, Word
  <2>2. CASE Send(asker[r], "reply")
    BY <1>3, <2>2, SendFacts
  <2> QED BY <1>2, <2>1, <2>2
<1> QED BY <1>1, <1>4, TalkStep DEF IInv, TypeOK

LEMMA BroadcastStep == ASSUME IInv, Broadcast PROVE IInv'
<1>1. /\ last' = [c \in Client |-> IF c \in conns \cap initialized /\ ws[c] = "open"
                                   THEN "notice" ELSE last[c]]
      /\ UNCHANGED <<window, sockets, review, asker>>
  BY DEF Broadcast
<1>2. /\ last' \in [Client -> Word]
      /\ \A d \in Client : last'[d] = "shutdown" => last[d] = "shutdown"
  BY <1>1 DEF IInv, TypeOK, Word
<1>3. ReviewsOK'
  BY <1>1, ReviewsStay DEF IInv
<1> QED BY <1>1, <1>2, <1>3, TalkStep DEF IInv, TypeOK

(* The other steps of a socket leave the window and the reviews alone.      *)
LEMMA SocketStep ==
    ASSUME IInv, NEW c \in Client,
           \/ Dial(c) \/ DialFails(c) \/ Accept(c) \/ RejectToken(c)
           \/ ClientLeaves(c) \/ CloseEnds(c) \/ Terminate(c)
    PROVE  IInv'
<1>1. UNCHANGED <<window, review>>
  BY DEF Dial, DialFails, Accept, RejectToken, ClientLeaves, CloseEnds, Terminate, Forget
<1>2. ReviewsOK' /\ AttemptsLeft'
  BY <1>1, ReviewsStay DEF IInv, window, AttemptsLeft
<1>3. CASE Dial(c) \/ DialFails(c) \/ RejectToken(c)
  <2>1. /\ UNCHANGED <<conns, initialized, sweep, late, asker, last>>
        /\ \E state \in SocketState \ {"open"} : ws' = [ws EXCEPT ![c] = state]
    BY <1>3 DEF Dial, DialFails, RejectToken, SocketState
  <2> QED BY <1>1, <1>2, <2>1 DEF IInv, TypeOK, ReviewsOK, window, SocketsOK, OpenIsKnown,
             ShutdownSilences
<1>4. CASE Accept(c)
  <2>1. /\ ws' = [ws EXCEPT ![c] = "open"] /\ conns' = conns \cup {c}
        /\ initialized' = initialized \ {c}
        /\ last' = [last EXCEPT ![c] = "none"]
        /\ late' \subseteq late \cup {c}
        /\ UNCHANGED <<sweep, asker>>
    BY <1>4 DEF Accept
  <2>2. TypeOK'
    BY <1>1, <1>2, <2>1 DEF IInv, TypeOK, ReviewsOK, window, SocketState
  <2>3. SocketsOK'
    BY <2>1 DEF IInv, TypeOK, SocketsOK, OpenIsKnown, ShutdownSilences
  <2> QED BY <1>2, <2>2, <2>3 DEF IInv
<1>5. CASE ClientLeaves(c) \/ CloseEnds(c) \/ Terminate(c)
  <2>1. /\ ws' = [ws EXCEPT ![c] = "none"] /\ conns' = conns \ {c} /\ sweep' = sweep \ {c}
        /\ asker' = [r \in Review |-> IF asker[r] = c THEN None ELSE asker[r]]
        /\ UNCHANGED <<initialized, late, last>>
    BY <1>5 DEF ClientLeaves, CloseEnds, Terminate, Forget
  <2>2. TypeOK'
    BY <1>1, <1>2, <2>1 DEF IInv, TypeOK, ReviewsOK, window, SocketState
  <2>3. SocketsOK'
    BY <2>1 DEF IInv, TypeOK, SocketsOK, OpenIsKnown, ShutdownSilences
  <2> QED BY <1>2, <2>2, <2>3 DEF IInv
<1> QED BY <1>3, <1>4, <1>5

LEMMA StopStep == ASSUME IInv, Stop PROVE IInv'
<1>1. /\ server' = "sweeping" /\ lock' = FALSE
      /\ last' = [c \in Client |-> IF c \in conns /\ ws[c] = "open"
                                   THEN "shutdown" ELSE last[c]]
      /\ ws' = [c \in Client |-> IF c \in conns /\ ws[c] = "open" THEN "closing" ELSE ws[c]]
      /\ sweep' = conns /\ conns' = {}
      /\ UNCHANGED <<attempts, initialized, late, review, asker>>
  BY DEF Stop
<1>2. ReviewsOK'
  BY <1>1, ReviewsStay DEF IInv
<1>3. TypeOK'
  BY <1>1, <1>2 DEF IInv, TypeOK, ReviewsOK, ServerState, SocketState
<1>4. AttemptsLeft'
  BY <1>1 DEF AttemptsLeft
<1>5. \A c \in Client : ws'[c] # "open"
  BY <1>1 DEF IInv, SocketsOK, OpenIsKnown
<1>6. SocketsOK'
  BY <1>5 DEF SocketsOK, OpenIsKnown, ShutdownSilences
<1> QED BY <1>2, <1>3, <1>4, <1>6 DEF IInv

LEMMA LockLostStep == ASSUME IInv, LockLost PROVE IInv'
<1>1. lock' = FALSE /\ UNCHANGED <<server, attempts, sockets, review, asker, last>>
  BY DEF LockLost
<1>2. ReviewsOK'
  BY <1>1, ReviewsStay DEF IInv
<1> QED BY <1>1, <1>2 DEF IInv, TypeOK, ReviewsOK, sockets, AttemptsLeft, SocketsOK,
       OpenIsKnown, ShutdownSilences

LEMMA StoppingStep == ASSUME IInv, Swept \/ Closed PROVE IInv'
<1>1. /\ server' \in {"closing", "stopped"} /\ server \notin {"up", "broken"}
      /\ UNCHANGED <<attempts, lock, sockets, review, asker, last>>
  BY DEF Swept, Closed
<1>2. ReviewsOK'
  BY <1>1, ReviewsStay DEF IInv
<1>3. TypeOK' /\ AttemptsLeft' /\ SocketsOK'
  BY <1>1, <1>2 DEF IInv, TypeOK, ReviewsOK, sockets, ServerState, AttemptsLeft, SocketsOK, OpenIsKnown, ShutdownSilences
<1> QED BY <1>2, <1>3 DEF IInv

LEMMA StutterStep == ASSUME IInv, UNCHANGED vars PROVE IInv'
<1>1. UNCHANGED <<window, sockets, review, asker, last>>
  BY DEF vars
<1>2. ReviewsOK'
  BY <1>1, ReviewsStay DEF IInv
<1> QED BY <1>1, <1>2, TalkStep DEF IInv, TypeOK, Word

LEMMA NextIInv == ASSUME IInv, [Next]_vars PROVE IInv'
BY ActivationStep, AnswerStep, InitializeStep, RequestDiffStep, ReviewStep, BroadcastStep,
   SocketStep, StopStep, LockLostStep, StoppingStep, StutterStep
   DEF Next

LEMMA Inductive == Spec => []IInv
BY InitIInv, NextIInv, PTL DEF Spec

-----------------------------------------------------------------------------
(* What stop() waits for *)

(* A connection in conns is open until stop() takes it over; from then on   *)
(* it is closing until it is gone.                                          *)
TakenOver ==
    /\ \A c \in conns : ws[c] = "open"
    /\ \A c \in sweep : ws[c] = "closing"
    /\ server \in {"sweeping", "closing", "stopped"} =>
            \A c \in Client : ws[c] = "open" => c \in late

LEMMA NextTakenOver == ASSUME IInv, TakenOver, [Next]_vars PROVE TakenOver'
<1>1. /\ ws \in [Client -> SocketState] /\ conns \subseteq Client
      /\ sweep \subseteq Client
  BY DEF IInv, TypeOK
<1>2. CASE UNCHANGED <<server, ws, conns, sweep, late>>
  BY <1>2 DEF TakenOver
<1>3. CASE Activation
  BY <1>3 DEF Activation, PortTaken, Start, StartThrows, sockets, TakenOver
<1>4. CASE LockLost \/ Swept \/ Closed
  BY <1>4 DEF LockLost, Swept, Closed, sockets, TakenOver
<1>5. CASE Stop
  <2>1. /\ ws' = [c \in Client |-> IF c \in conns /\ ws[c] = "open"
                                  THEN "closing" ELSE ws[c]]
        /\ sweep' = conns /\ conns' = {}
    BY <1>5 DEF Stop
  <2>2. \A c \in conns : ws'[c] = "closing"
    BY <1>1, <2>1 DEF TakenOver
  <2>3. \A c \in Client : ws'[c] # "open"
    BY <2>1 DEF IInv, SocketsOK, OpenIsKnown
  <2> QED BY <2>1, <2>2, <2>3 DEF TakenOver
<1>6. ASSUME NEW c \in Client, Dial(c) \/ DialFails(c) \/ RejectToken(c)
      PROVE  TakenOver'
  <2>1. /\ UNCHANGED <<server, conns, sweep, late>>
        /\ ws[c] \in {"none", "dialling"}
        /\ \E state \in SocketState \ {"open"} : ws' = [ws EXCEPT ![c] = state]
    BY <1>6 DEF Dial, DialFails, RejectToken, window, SocketState
  <2> QED BY <1>1, <2>1 DEF TakenOver
<1>7. ASSUME NEW c \in Client, Accept(c) PROVE TakenOver'
  <2>1. /\ ws[c] = "dialling" /\ ws' = [ws EXCEPT ![c] = "open"]
        /\ conns' = conns \cup {c}
        /\ server \in {"up", "broken", "sweeping"} /\ UNCHANGED <<server, sweep>>
        /\ server = "sweeping" => late' = late \cup {c}
    BY <1>7 DEF Accept, Accepting, window
  <2> QED BY <1>1, <2>1 DEF TakenOver
<1>8. ASSUME NEW c \in Client, ClientLeaves(c) \/ CloseEnds(c) \/ Terminate(c)
      PROVE  TakenOver'
  <2>1. /\ ws' = [ws EXCEPT ![c] = "none"] /\ conns' = conns \ {c}
        /\ sweep' = sweep \ {c} /\ UNCHANGED <<server, late>>
    BY <1>8 DEF ClientLeaves, CloseEnds, Terminate, Forget, window
  <2> QED BY <1>1, <2>1 DEF TakenOver
<1>9. CASE \/ Broadcast \/ UNCHANGED vars
           \/ \E c \in Client : \/ Refuse(c) \/ Initialize(c) \/ Query(c)
                               \/ \E r \in Review : RequestDiff(c, r)
           \/ \E r \in Review : ReviewGoesOn(r) \/ ReviewEnds(r)
  BY <1>2, <1>9 DEF Broadcast, Refuse, Initialize, Query, RequestDiff, ReviewGoesOn,
                    ReviewEnds, window, sockets, vars
<1> QED BY <1>3, <1>4, <1>5, <1>6, <1>7, <1>8, <1>9 DEF Next

-----------------------------------------------------------------------------

(* Every reachable state of the window is well typed.                       *)
THEOREM TypeCorrect == Spec => []TypeOK
<1>1. IInv => TypeOK
  BY DEF IInv
<1> QED BY <1>1, Inductive, PTL

(* No open connection is unknown to broadcast() and stop().                 *)
THEOREM OpenIsKnownHolds == Spec => []OpenIsKnown
<1>1. IInv => OpenIsKnown
  BY DEF IInv, SocketsOK
<1> QED BY <1>1, Inductive, PTL

(* stop() waits for nothing that is gone, and leaves only latecomers open.  *)
THEOREM StopWaitsForAskedHolds == Spec => []StopWaitsForAsked
<1>1. Init => TakenOver
  BY DEF Init, TakenOver
<1>2. IInv /\ TakenOver /\ [Next]_vars => TakenOver'
  BY NextTakenOver
<1>3. TakenOver => StopWaitsForAsked
  BY DEF TakenOver, StopWaitsForAsked
<1> QED BY Inductive, <1>1, <1>2, <1>3, PTL DEF Spec

(* A diff review answers with the text saved last, rejects only what was    *)
(* not saved while it listened, and leaves no directory behind.             *)
THEOREM AnswerIsDecisionHolds == Spec => []AnswerIsDecision
<1>1. IInv => AnswerIsDecision
  <2> SUFFICES ASSUME IInv, NEW r \in Review, review[r].answer # None
               PROVE  /\ IF review[r].answer.status = "accepted"
                         THEN review[r].answer.finalText = review[r].disk
                         ELSE review[r].disk = None \/ review[r].early
                      /\ ~review[r].dir
    BY DEF AnswerIsDecision
  <2> QED BY DEF IInv, ReviewsOK, RecordOK
<1> QED BY <1>1, Inductive, PTL

(* Nothing follows the shutdown message on a connection.                    *)
THEOREM ShutdownIsLastHolds == Spec => ShutdownIsLast
<1> DEFINE Said == \A c \in Client : last[c] = "shutdown" /\ Connected(c)
                                        => last'[c] = "shutdown"
<1>1. ASSUME IInv, [Next]_vars PROVE Said
  <2> SUFFICES ASSUME NEW c \in Client, last[c] = "shutdown", Connected(c)
               PROVE  last'[c] = "shutdown"
    OBVIOUS
  <2>1. ws[c] # "open" /\ ws[c] # "dialling" /\ last \in [Client -> Word]
    BY <1>1 DEF IInv, SocketsOK, ShutdownSilences, Connected, TypeOK, Word
  <2>2. ASSUME NEW d, NEW m, Send(d, m) PROVE last'[c] = last[c]
    BY <2>1, <2>2 DEF Send
  <2>3. ASSUME NEW d \in Client, Accept(d) PROVE last'[c] = last[c]
    BY <2>1, <2>3 DEF Accept
  <2>4. CASE Broadcast
    BY <2>1, <2>4 DEF Broadcast
  <2>5. CASE Stop
    BY <2>1, <2>5 DEF Stop
  <2>6. ASSUME NEW d \in Client,
               \/ Dial(d) \/ DialFails(d) \/ RejectToken(d)
               \/ ClientLeaves(d) \/ CloseEnds(d) \/ Terminate(d)
        PROVE  UNCHANGED last
    BY <2>6 DEF Dial, DialFails, RejectToken, ClientLeaves, CloseEnds, Terminate, Forget
  <2>7. ASSUME NEW d \in Client,
               \/ Refuse(d) \/ Query(d) \/ Initialize(d)
               \/ \E r \in Review : RequestDiff(d, r)
        PROVE  UNCHANGED last \/ Send(d, "reply")
    BY <2>7 DEF Refuse, Query, Initialize, RequestDiff
  <2>8. ASSUME NEW r \in Review, ReviewGoesOn(r) \/ ReviewEnds(r)
        PROVE  UNCHANGED last \/ Send(asker[r], "reply")
    BY <2>8 DEF ReviewGoesOn, ReviewEnds
  <2>9. CASE Activation \/ LockLost \/ Swept \/ Closed \/ UNCHANGED vars
    BY <2>9 DEF Activation, PortTaken, Start, StartThrows, LockLost, Swept, Closed, vars
  <2> QED BY <1>1, <2>2, <2>3, <2>4, <2>5, <2>6, <2>7, <2>8, <2>9 DEF Next
<1> QED BY <1>1, Inductive, PTL DEF Spec, ShutdownIsLast
=============================================================================
