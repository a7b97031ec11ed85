---------------------------- MODULE ContextSync -----------------------------
(***************************************************************************)
(* How the bridge's picture of the editors and of the selection follows    *)
(* the IDE: the IDE's events and their debounce (vscode-adapter.ts,        *)
(* Listeners.kt), the order in which replies and notifications enter the   *)
(* socket (server.ts, IdeBridgeServer.kt), and the cache, the status line  *)
(* and the injected context of the OMP side (core.ts).                     *)
(*                                                                         *)
(* The connection itself is BridgeConnection's subject.  Here it is down,  *)
(* open (the handshake is under way) or ready; an established one may drop *)
(* (onClose runs) or be closed by the client itself (it does not).  A call *)
(* of the initial pull may also fail while its connection lives.           *)
(***************************************************************************)
EXTENDS Naturals, Sequences

CONSTANTS
    Window,    \* IDE windows the bridge may be connected to, one at a time
    None,
    JetBrains, \* the windows whose plugin is the JetBrains one
    MaxChan    \* bound on the messages in flight to the client

ASSUME ConstantsAssumption ==
    /\ None \notin Window
    /\ JetBrains \subseteq Window
    /\ MaxChan \in Nat \ {0}

(* The list of open editors is empty (None) or one that the window shows;   *)
(* a selection is a caret or holds text.                                    *)
Editors(w)    == {None, [win |-> w]}
TextIn(w)     == [win |-> w, text |-> TRUE]
CaretIn(w)    == [win |-> w, text |-> FALSE]
Selections(w) == {None, TextIn(w), CaretIn(w)}

AllEditors    == {None} \cup [win : Window]
AllSelections == {None} \cup [win : Window, text : BOOLEAN]

Pulls   == {"editors", "selection", "diags"}
Payload == [win : Window \cup {None}, editors : AllEditors, sel : AllSelections]

Message ==
    [kind : {"init", "diagsReply"}, value : {None}]
        \cup [kind : {"editorsReply", "editors_changed"}, value : AllEditors]
        \cup [kind : {"selectionReply", "selection_changed"}, value : AllSelections]

VARIABLES
    win,          \* the window at the other end, or None
    ideEditors,   \* its open editors,
    ideCurrent,   \* its current selection,
    ideLatest,    \* and the last non-empty one it remembers
    selTimer,     \* is the debounce of selection_changed running?
    initialized,  \* does the server broadcast to this connection?
    reqs,         \* requests the server has not answered, oldest first
    reply,        \* a reply computed and not yet sent (JetBrains), or None
    chan,         \* messages on their way to the client
    ready,        \* client.ide # null
    task,         \* the call pullInitialState awaits, "none" or "aborted"
    editors, currentSelection, latestSelection,  \* the cache
    source,       \* history: what the cached editors come from
    lastInjection,
    status,       \* what onSelectionStatus last reported
    told          \* history: was lastInjection given on this connection?

ide   == <<ideEditors, ideCurrent, ideLatest, selTimer>>
wire  == <<initialized, reqs, reply, chan>>
cache == <<editors, currentSelection, latestSelection, source>>
turn  == <<lastInjection, told>>
vars  == <<win, ide, wire, ready, task, cache, turn, status>>

(* A reply or an event of this connection, or what there was before it. *)
Sources == {"earlier", "reply", "event"}

Init ==
    /\ win = None
    /\ ideEditors = None /\ ideCurrent = None /\ ideLatest = None
    /\ selTimer = FALSE
    /\ initialized = FALSE /\ reqs = <<>> /\ reply = None /\ chan = <<>>
    /\ ready = FALSE /\ task = "none"
    /\ editors = None /\ currentSelection = None /\ latestSelection = None
    /\ source = "earlier"
    /\ lastInjection = None /\ told = FALSE
    /\ status = None

(* VS Code and the JetBrains platform differ in when they remember a        *)
(* selection, in what they publish, and in how a reply reaches the socket.  *)
InJetBrains == win \in JetBrains

-----------------------------------------------------------------------------
(* The connection *)

(* A socket opens on window w, whose state is whatever it has come to be;   *)
(* the client sends initialize.  The JetBrains server broadcasts to every   *)
(* open socket, the VS Code one to those that have initialized.             *)
Connect(w) ==
    /\ win = None /\ task # "aborted"
    /\ win' = w
    /\ ideEditors' \in Editors(w)
    /\ ideCurrent' \in IF ideEditors' = None THEN {None} ELSE Selections(w)
    /\ ideLatest' \in {None, TextIn(w)}
    /\ selTimer' = FALSE
    /\ initialized' = (w \in JetBrains)
    /\ reqs' = <<"init">> /\ reply' = None /\ chan' = <<>>
    /\ source' = "earlier"
    /\ UNCHANGED <<ready, task, editors, currentSelection, latestSelection, turn, status>>

Disconnected ==
    /\ win # None /\ task # "aborted"
    /\ win' = None
    /\ ideEditors' = None /\ ideCurrent' = None /\ ideLatest' = None
    /\ selTimer' = FALSE
    /\ initialized' = FALSE /\ reqs' = <<>> /\ reply' = None /\ chan' = <<>>
    /\ ready' = FALSE
    /\ task' = IF task \in Pulls THEN "aborted" ELSE "none"

(* The socket closes by itself, or the server sends shutdown: onClose runs. *)
Drop ==
    /\ Disconnected
    /\ lastInjection' = None /\ told' = FALSE
    /\ status' = None
    /\ UNCHANGED cache

(* stop(), open() replacing the client, or an initialize that times out or  *)
(* is refused: the client disposes of the socket and nothing is reported.   *)
CloseByHost ==
    /\ Disconnected
    /\ UNCHANGED <<cache, turn, status>>

-----------------------------------------------------------------------------
(* The IDE *)

Broadcast(kind, value) ==
    chan' = IF initialized THEN Append(chan, [kind |-> kind, value |-> value])
            ELSE chan

(* Mutant: the list that is sent was collected before the event. *)
EditorsEventStale ==
    /\ win # None /\ Len(chan) < MaxChan
    /\ ideEditors' \in Editors(win)
    /\ ideCurrent' \in IF ideEditors' = None THEN {None} ELSE Selections(win)
    /\ selTimer' = (selTimer \/ InJetBrains \/ ideCurrent' # ideCurrent)
    /\ Broadcast("editors_changed", ideEditors)
    /\ UNCHANGED <<win, ideLatest, initialized, reqs, reply, ready, task,
                   cache, turn, status>>

(* A tab is opened, closed or activated: editors_changed goes out at once,  *)
(* selection_changed is scheduled when the current selection moves with it. *)
EditorsEvent ==
    /\ win # None /\ Len(chan) < MaxChan
    /\ ideEditors' \in Editors(win)
    /\ ideCurrent' \in IF ideEditors' = None THEN {None} ELSE Selections(win)
    /\ selTimer' = (selTimer \/ InJetBrains \/ ideCurrent' # ideCurrent)
    /\ Broadcast("editors_changed", ideEditors')
    /\ UNCHANGED <<win, ideLatest, initialized, reqs, reply, ready, task,
                   cache, turn, status>>

(* The caret moves or text is selected.  VS Code remembers a non-empty      *)
(* selection here, JetBrains when it publishes it.                          *)
SelectionEvent ==
    /\ win # None /\ ideEditors # None
    /\ ideCurrent' \in Selections(win) \ {None}
    /\ ideLatest' = IF ~InJetBrains /\ ideCurrent'.text THEN ideCurrent'
                    ELSE ideLatest
    /\ selTimer' = TRUE
    /\ UNCHANGED <<win, ideEditors, wire, ready, task, cache, turn, status>>

(* Mutant: the remembered selection is published instead of the current. *)
SelectionTimerLatest ==
    /\ selTimer /\ Len(chan) < MaxChan
    /\ selTimer' = FALSE
    /\ UNCHANGED ideLatest
    /\ Broadcast("selection_changed", ideLatest)
    /\ UNCHANGED <<win, ideEditors, ideCurrent, initialized, reqs, reply,
                   ready, task, cache, turn, status>>

(* The debounce elapses: what is published is the selection of this moment. *)
SelectionTimer ==
    /\ selTimer /\ Len(chan) < MaxChan
    /\ selTimer' = FALSE
    /\ ideLatest' = IF InJetBrains /\ ideCurrent = TextIn(win) THEN ideCurrent
                  ELSE ideLatest
    /\ Broadcast("selection_changed", ideCurrent)
    /\ UNCHANGED <<win, ideEditors, ideCurrent, initialized, reqs, reply,
                   ready, task, cache, turn, status>>

-----------------------------------------------------------------------------
(* The server *)

(* getLatestSelection falls back on the current one in JetBrains. *)
LatestSelection ==
    IF InJetBrains /\ ideLatest = None /\ ideCurrent = TextIn(win)
    THEN ideCurrent ELSE ideLatest

(* Mutant: two methods answer with each other's state. *)
AnswerSwapped(req) ==
    CASE req = "init"      -> [kind |-> "init", value |-> None]
      [] req = "editors"   -> [kind |-> "editorsReply", value |-> LatestSelection]
      [] req = "selection" -> [kind |-> "selectionReply", value |-> ideEditors]
      [] req = "diags"     -> [kind |-> "diagsReply", value |-> None]

Answer(req) ==
    CASE req = "init"      -> [kind |-> "init", value |-> None]
      [] req = "editors"   -> [kind |-> "editorsReply", value |-> ideEditors]
      [] req = "selection" -> [kind |-> "selectionReply", value |-> LatestSelection]
      [] req = "diags"     -> [kind |-> "diagsReply", value |-> None]

(* VS Code computes and sends a reply in one turn of its event loop; the    *)
(* JetBrains worker thread computes it on the EDT and sends it afterwards.  *)
ServeRequest ==
    /\ reqs # <<>> /\ reply = None /\ Len(chan) < MaxChan
    /\ reqs' = Tail(reqs)
    /\ initialized' = (initialized \/ Head(reqs) = "init")
    /\ IF InJetBrains
       THEN reply' = Answer(Head(reqs)) /\ UNCHANGED chan
       ELSE chan' = Append(chan, Answer(Head(reqs))) /\ UNCHANGED reply
    /\ UNCHANGED <<win, ide, ready, task, cache, turn, status>>

SendReply ==
    /\ reply # None /\ Len(chan) < MaxChan
    /\ chan' = Append(chan, reply)
    /\ reply' = None
    /\ UNCHANGED <<win, ide, initialized, reqs, ready, task, cache, turn, status>>

-----------------------------------------------------------------------------
(* The client *)

Effective(eds, cur, latest) ==
    IF eds = None THEN None ELSE IF cur # None THEN cur ELSE latest

Receive(kind) ==
    /\ chan # <<>> /\ Head(chan).kind = kind
    /\ chan' = Tail(chan)
    /\ UNCHANGED <<win, ide, initialized, reply>>

ReplyTo(call) == CASE call = "init"      -> "init"
                   [] call = "editors"   -> "editorsReply"
                   [] call = "selection" -> "selectionReply"
                   [] call = "diags"     -> "diagsReply"

NextPull(call) == CASE call = "editors"   -> "selection"
                    [] call = "selection" -> "diags"
                    [] call = "diags"     -> "none"

(* pullInitialState makes its next call. *)
Pull(call) ==
    /\ task' = call
    /\ reqs' = IF call = "none" THEN reqs ELSE Append(reqs, call)

(* Mutant: a new connection keeps the last injection of the old one. *)
RecvInitKeeps ==
    /\ Receive("init")
    /\ ready' = TRUE
    /\ told' = FALSE
    /\ Pull("editors")
    /\ UNCHANGED <<cache, status, lastInjection>>

RecvInit ==
    /\ Receive("init")
    /\ ready' = TRUE
    /\ lastInjection' = None /\ told' = FALSE
    /\ Pull("editors")
    /\ UNCHANGED <<cache, status>>

RecvEditorsReply ==
    /\ task = "editors" /\ Receive("editorsReply")
    /\ editors' = Head(chan).value /\ source' = "reply"
    /\ Pull("selection")
    /\ UNCHANGED <<currentSelection, latestSelection, ready, turn, status>>

RecvSelectionReply ==
    /\ task = "selection" /\ Receive("selectionReply")
    /\ IF Head(chan).value # None
       THEN /\ latestSelection' = Head(chan).value
            /\ currentSelection' = Head(chan).value
       ELSE UNCHANGED <<currentSelection, latestSelection>>
    /\ Pull("diags")
    /\ UNCHANGED <<editors, source, ready, turn, status>>

(* The last call of the pull; open() reports the selection and returns.     *)
RecvDiagsReply ==
    /\ task = "diags" /\ Receive("diagsReply")
    /\ Pull("none")
    /\ status' = Effective(editors, currentSelection, latestSelection)
    /\ UNCHANGED <<cache, ready, turn>>

(* safe() swallows the failure of a call on a live connection, whose 15 s   *)
(* pass or which is answered with an error: the cache stays, the pull goes  *)
(* on, and after its last call open() reports the selection.                *)
PullFails ==
    /\ task \in Pulls
    /\ \/ UNCHANGED chan
       \/ chan # <<>> /\ Head(chan).kind = ReplyTo(task) /\ chan' = Tail(chan)
    /\ Pull(NextPull(task))
    /\ status' = IF task = "diags"
                 THEN Effective(editors, currentSelection, latestSelection)
                 ELSE status
    /\ UNCHANGED <<win, ide, initialized, reply, ready, cache, turn>>

(* The answer to a call that has timed out: nothing awaits it any more. *)
LateReply ==
    /\ \E call \in Pulls \ {task} : Receive(ReplyTo(call))
    /\ UNCHANGED <<reqs, ready, task, cache, turn, status>>

(* Mutant: closing the last tab does not clear the status line. *)
RecvEditorsChangedSilent ==
    /\ Receive("editors_changed")
    /\ editors' = Head(chan).value /\ source' = "event"
    /\ currentSelection' = IF editors' = None THEN None ELSE currentSelection
    /\ UNCHANGED <<reqs, ready, task, latestSelection, turn, status>>

RecvEditorsChanged ==
    /\ Receive("editors_changed")
    /\ editors' = Head(chan).value /\ source' = "event"
    /\ IF editors' = None THEN currentSelection' = None /\ status' = None
       ELSE UNCHANGED <<currentSelection, status>>
    /\ UNCHANGED <<reqs, ready, task, latestSelection, turn>>

RecvSelectionChanged ==
    /\ Receive("selection_changed")
    /\ currentSelection' = Head(chan).value
    /\ latestSelection' = IF currentSelection' # None /\ currentSelection'.text
                          THEN currentSelection' ELSE latestSelection
    /\ status' = Effective(editors, currentSelection', latestSelection')
    /\ UNCHANGED <<reqs, ready, task, editors, source, turn>>

(* The pull lost its connection: its remaining calls reject at once, and    *)
(* open() goes on to report the selection.                                  *)
Aborted ==
    /\ task = "aborted"
    /\ task' = "none"
    /\ status' = Effective(editors, currentSelection, latestSelection)
    /\ UNCHANGED <<win, ide, wire, ready, cache, turn>>

(* peekContextInjection: null when there is nothing to say or nothing new.  *)
Context == [win     |-> IF ready THEN win ELSE None,
            editors |-> editors,
            sel     |-> Effective(editors, currentSelection, latestSelection)]

(* before_agent_start: getContextInjection. *)
AgentTurn ==
    /\ win # None
    /\ editors # None
    /\ Context # lastInjection
    /\ lastInjection' = Context
    /\ told' = TRUE
    /\ UNCHANGED <<win, ide, wire, ready, task, cache, status>>

-----------------------------------------------------------------------------

Connection == (\E w \in Window : Connect(w)) \/ Drop \/ CloseByHost
IdeEvent   == EditorsEvent \/ SelectionEvent \/ SelectionTimer
Server     == ServeRequest \/ SendReply
Reception  == RecvInit \/ RecvEditorsReply \/ RecvSelectionReply
                \/ RecvDiagsReply \/ RecvEditorsChanged \/ RecvSelectionChanged
                \/ LateReply

Next == Connection \/ IdeEvent \/ Server \/ Reception \/ PullFails \/ Aborted \/ AgentTurn

Spec == Init /\ [][Next]_vars

-----------------------------------------------------------------------------
(* Properties *)

TypeOK ==
    /\ win \in Window \cup {None}
    /\ ideEditors \in AllEditors
    /\ ideCurrent \in AllSelections /\ ideLatest \in AllSelections
    /\ selTimer \in BOOLEAN /\ initialized \in BOOLEAN
    /\ reqs \in Seq(Pulls \cup {"init"})
    /\ chan \in Seq(Message) /\ reply \in Message \cup {None}
    /\ ready \in BOOLEAN
    /\ task \in Pulls \cup {"none", "aborted"}
    /\ editors \in AllEditors
    /\ currentSelection \in AllSelections /\ latestSelection \in AllSelections
    /\ source \in Sources
    /\ lastInjection \in Payload \cup {None}
    /\ status \in AllSelections
    /\ told \in BOOLEAN

(* The initial pull is over and everything that was sent has arrived. *)
Settled == ready /\ task = "none" /\ chan = <<>>

(* Once all messages have arrived, the cached editors are the IDE's own,    *)
(* however tab events, failed calls and the pull of pullInitialState        *)
(* interleave, if this connection has said anything of them.  Without that, *)
(* when getOpenEditors has failed and no tab has moved since, the list of   *)
(* the connection before is still there.                                    *)
EditorsInSync == Settled /\ source # "earlier" => editors = ideEditors

(* It holds wherever an event was the last to be heard, and of VS Code      *)
(* always: there replies and notifications enter the socket in the order in *)
(* which the state they carry was read.                                     *)
EditorsInSyncUnlessOvertaken == source = "event" \/ ~InJetBrains => EditorsInSync

(* Once the pull is over, the last selection_changed leaves the client with *)
(* the IDE's current selection, unless another one is already scheduled.    *)
LastNoticeIsCurrent ==
    [][RecvSelectionChanged /\ task = "none" /\ chan' = <<>> /\ ~selTimer
        => currentSelection' = ideCurrent]_vars

(* What the bridge injected last counts as said only if this connection has *)
(* seen it: the first turn after a connect always carries the context.      *)
ToldHere == ready /\ lastInjection # None => told /\ lastInjection.win = win

(* Once the initial pull is over, the status line shows no selection while  *)
(* the list of editors is empty.  During the pull it may still show what    *)
(* the connection before had left there.                                    *)
NothingShownWithoutEditors ==
    ready /\ task = "none" /\ editors = None => status = None
=============================================================================
