--------------------------- MODULE DiagnosticsSync --------------------------
(***************************************************************************)
(* How the bridge's cached diagnostics follow the IDE's: the hint that the  *)
(* window debounces (vscode-adapter.ts, Listeners.kt), and the pull that    *)
(* the hint schedules on the OMP side (core.ts).  Connections come and go;  *)
(* each begins with the pull of pullInitialState.  A pull may fail although *)
(* its connection lives: its 15 s pass, or it is answered with an error.    *)
(*                                                                         *)
(* VS Code names the changed files that have a tab, and returns what it     *)
(* knows of every file.  JetBrains hints after each pass of a project's     *)
(* daemon, and returns the highlights of the open files of one project, the *)
(* active one; it computes that on the EDT and sends it from a worker.      *)
(***************************************************************************)
EXTENDS Naturals, Sequences

CONSTANTS
    File,
    Project,    \* projects that JetBrains has open
    ProjectOf,  \* the project of each file
    Kinds,      \* the kinds of window that may be at the other end
    None,
    MaxReqs,    \* bound on the unanswered getDiagnostics calls, per kind
    MaxChan     \* a hint is only sent with fewer messages in flight, per kind

ASSUME ConstantsAssumption ==
    /\ MaxReqs \in [Kinds -> Nat \ {0}] /\ MaxChan \in [Kinds -> Nat \ {0}]
    /\ Project # {}
    /\ ProjectOf \in [File -> Project] /\ None \notin Project
    /\ Kinds \subseteq {"vscode", "jetbrains"}

VARIABLES
    kind,       \* of the window
    open,       \* files with an open tab
    problems,   \* files the IDE has diagnostics for
    pending,    \* files that changed since the last hint (VS Code), or since
                \* the last pass of their daemon (JetBrains)
    hintTimer,  \* the projects whose 500 ms debounce runs; None is VS Code's
    active,     \* activeOrFirstProject
    up,         \* is the client connected and initialized?
    pulling,    \* is pullInitialState still to ask for the diagnostics?
    reqs,       \* number of getDiagnostics calls the server has not answered
    held,       \* the JetBrains reply that is computed and not sent yet
    chan,       \* hints and replies on their way to the client
    diagnostics, diagPullTimer,  \* the client's cache and its pull debounce
    owed,       \* history: was a hint sent that no reply is newer than?
    lastRead,   \* history: the diagnostics of the last reply computed
    readOf,     \* history: the project that was active then
    failed      \* history: did the pull that was answered last fail?

editor == <<kind, open, problems, pending, hintTimer, active>>
wire   == <<up, pulling, reqs, held, chan>>
client == <<diagnostics, diagPullTimer>>
ghost  == <<owed, lastRead, readOf, failed>>
vars   == <<editor, wire, client, ghost>>

Hint     == [kind |-> "hint", files |-> {}]
Reply(F) == [kind |-> "reply", files |-> F]
Message  == [kind : {"hint", "reply"}, files : SUBSET File]

IsVscode       == kind = "vscode"
IsJetbrains    == kind = "jetbrains"
FilesOf(p)     == {f \in File : ProjectOf[f] = p}

Init ==
    /\ kind \in Kinds
    /\ open = {} /\ problems = {} /\ pending = {} /\ hintTimer = {}
    /\ active = CHOOSE p \in Project : TRUE
    /\ up = FALSE /\ pulling = FALSE /\ reqs = 0 /\ held = <<>> /\ chan = <<>>
    /\ diagnostics = {} /\ diagPullTimer = FALSE
    /\ owed = FALSE /\ lastRead = {} /\ readOf = active /\ failed = FALSE

-----------------------------------------------------------------------------
(* The window *)

OpenTab(f) ==
    /\ IsVscode /\ f \notin open
    /\ open' = open \cup {f}
    /\ UNCHANGED <<kind, problems, pending, hintTimer, active, wire, client, ghost>>

CloseTab(f) ==
    /\ IsVscode /\ f \in open
    /\ open' = open \ {f}
    /\ UNCHANGED <<kind, problems, pending, hintTimer, active, wire, client, ghost>>

(* JetBrains: a file that is opened has the highlights that are left of an  *)
(* earlier pass, if any, and is analysed; one that is closed is not read.   *)
OpenFile(f) ==
    /\ IsJetbrains /\ f \notin open
    /\ open' = open \cup {f}
    /\ problems' \in {problems, problems \cup {f}}
    /\ pending' = pending \cup {f}
    /\ UNCHANGED <<kind, hintTimer, active, wire, client, ghost>>

CloseFile(f) ==
    /\ IsJetbrains /\ f \in open
    /\ open' = open \ {f}
    /\ problems' = problems \ {f}
    /\ pending' = pending \ {f}
    /\ UNCHANGED <<kind, hintTimer, active, wire, client, ghost>>

EditFile(f) ==
    /\ IsJetbrains /\ f \in open
    /\ pending' = pending \cup {f}
    /\ UNCHANGED <<kind, open, problems, hintTimer, active, wire, client, ghost>>

(* The user works in another project; nothing is sent for that here. *)
SwitchProject(p) ==
    /\ IsJetbrains
    /\ active' = p
    /\ UNCHANGED <<kind, open, problems, pending, hintTimer, wire, client, ghost>>

(* onDidChangeDiagnostics: the debounce starts anew. *)
ProblemsChange(f) ==
    /\ IsVscode
    /\ problems' = IF f \in problems THEN problems \ {f} ELSE problems \cup {f}
    /\ pending' = pending \cup {f}
    /\ hintTimer' = {None}
    /\ UNCHANGED <<kind, open, active, wire, client, ghost>>

(* Mutant: the daemon's pass is only reported for the active project. *)
DaemonFinishedActive(p) ==
    /\ IsJetbrains /\ pending \cap FilesOf(p) # {}
    /\ \E found \in SUBSET (pending \cap FilesOf(p)) :
        problems' = (problems \ (pending \cap FilesOf(p))) \cup found
    /\ pending' = pending \ FilesOf(p)
    /\ hintTimer' = IF p = active THEN hintTimer \cup {p} ELSE hintTimer
    /\ UNCHANGED <<kind, open, active, wire, client, ghost>>

(* daemonFinished of a project: what its pass found in the changed files is *)
(* known, and the project's alarm starts anew.                              *)
DaemonFinished(p) ==
    /\ IsJetbrains /\ pending \cap FilesOf(p) # {}
    /\ \E found \in SUBSET (pending \cap FilesOf(p)) :
        problems' = (problems \ (pending \cap FilesOf(p))) \cup found
    /\ pending' = pending \ FilesOf(p)
    /\ hintTimer' = hintTimer \cup {p}
    /\ UNCHANGED <<kind, open, active, wire, client, ghost>>

SendHint(worth) ==
    IF up /\ worth THEN chan' = Append(chan, Hint) /\ owed' = TRUE
    ELSE UNCHANGED <<chan, owed>>

(* The hint names the changed files that have an open tab at this moment;   *)
(* without any there is no hint.                                            *)
HintTimer ==
    /\ IsVscode
    /\ hintTimer # {} /\ Len(chan) < MaxChan[kind]
    /\ hintTimer' = {}
    /\ pending' = {}
    /\ SendHint(pending \cap open # {})
    /\ UNCHANGED <<kind, open, problems, active, up, pulling, reqs, held, client,
                   lastRead, readOf, failed>>

(* publishDiagnosticsChanged: the hint names every open file, of whatever   *)
(* project.                                                                 *)
Alarm(p) ==
    /\ IsJetbrains
    /\ p \in hintTimer /\ Len(chan) < MaxChan[kind]
    /\ hintTimer' = hintTimer \ {p}
    /\ SendHint(open # {})
    /\ UNCHANGED <<kind, open, problems, pending, active, up, pulling, reqs, held,
                   client, lastRead, readOf, failed>>

(* getDiagnostics without a uri returns everything VS Code knows. *)
ServePull ==
    /\ IsVscode /\ reqs > 0
    /\ reqs' = reqs - 1
    /\ chan' = Append(chan, Reply(problems))
    /\ lastRead' = problems
    /\ owed' = FALSE
    /\ UNCHANGED <<editor, up, pulling, held, client, readOf, failed>>

(* onEdt: the highlights of the active project's open files. *)
ComputePull ==
    /\ IsJetbrains /\ reqs > 0 /\ held = <<>>
    /\ reqs' = reqs - 1
    /\ LET found == problems \cap open \cap FilesOf(active) IN
       /\ held' = <<Reply(found)>>
       /\ lastRead' = found
    /\ owed' = FALSE /\ readOf' = active
    /\ UNCHANGED <<editor, up, pulling, chan, client, failed>>

(* The worker of the connection sends what it waited for. *)
SendReply ==
    /\ held # <<>>
    /\ chan' = chan \o held /\ held' = <<>>
    /\ UNCHANGED <<editor, up, pulling, reqs, client, ghost>>

-----------------------------------------------------------------------------
(* The connection *)

(* initialize has succeeded; pullInitialState begins. *)
Connect ==
    /\ ~up
    /\ up' = TRUE /\ pulling' = TRUE
    /\ reqs' = 0 /\ held' = <<>> /\ chan' = <<>>
    /\ UNCHANGED <<editor, client, ghost>>

(* Its first two calls have ended, well or not: the diagnostics are asked   *)
(* for, whatever hints have done meanwhile.                                 *)
InitialPull ==
    /\ pulling /\ reqs < MaxReqs[kind]
    /\ pulling' = FALSE
    /\ reqs' = reqs + 1
    /\ UNCHANGED <<editor, up, held, chan, client, ghost>>

(* Calls in flight are rejected; the pull timer and the cache stay. *)
Drop ==
    /\ up
    /\ up' = FALSE /\ pulling' = FALSE
    /\ reqs' = 0 /\ held' = <<>> /\ chan' = <<>>
    /\ owed' = FALSE
    /\ UNCHANGED <<editor, client, lastRead, readOf, failed>>

(* stop() clears the pull timer as well. *)
Stop ==
    /\ up' = FALSE /\ pulling' = FALSE
    /\ reqs' = 0 /\ held' = <<>> /\ chan' = <<>>
    /\ diagPullTimer' = FALSE
    /\ owed' = FALSE
    /\ UNCHANGED <<editor, diagnostics, lastRead, readOf, failed>>

-----------------------------------------------------------------------------
(* The client *)

(* Mutant: a hint that comes soon after a pull is dropped. *)
RecvHintWithinTtl ==
    /\ chan # <<>> /\ Head(chan).kind = "hint"
    /\ chan' = Tail(chan)
    /\ diagPullTimer' \in {diagPullTimer, TRUE}
    /\ UNCHANGED <<editor, up, pulling, reqs, held, diagnostics, ghost>>

(* scheduleDiagnosticsPull: hints are coalesced into a pull that has not    *)
(* been sent yet, never into one that has.                                  *)
RecvHint ==
    /\ chan # <<>> /\ Head(chan).kind = "hint"
    /\ chan' = Tail(chan)
    /\ diagPullTimer' = TRUE
    /\ UNCHANGED <<editor, up, pulling, reqs, held, diagnostics, ghost>>

(* Mutant: the reply is stored as one entry instead of entry by entry. *)
RecvReplyNested ==
    /\ chan # <<>> /\ Head(chan).kind = "reply"
    /\ chan' = Tail(chan)
    /\ diagnostics' = {Head(chan).files} /\ failed' = FALSE
    /\ UNCHANGED <<editor, up, pulling, reqs, held, diagPullTimer, owed, lastRead, readOf>>

(* The call succeeds: rebuildDiagnostics replaces the whole cache. *)
RecvReply ==
    /\ chan # <<>> /\ Head(chan).kind = "reply"
    /\ chan' = Tail(chan)
    /\ diagnostics' = Head(chan).files /\ failed' = FALSE
    /\ UNCHANGED <<editor, up, pulling, reqs, held, diagPullTimer, owed, lastRead, readOf>>

(* The answer comes when its call has timed out, or is an error: safe() and *)
(* the catch of the pull keep the cache.  A call that times out changes     *)
(* nothing else, so its failure is this step.                               *)
PullFails ==
    /\ chan # <<>> /\ Head(chan).kind = "reply"
    /\ chan' = Tail(chan)
    /\ failed' = TRUE
    /\ UNCHANGED <<editor, up, pulling, reqs, held, client, owed, lastRead, readOf>>

(* Mutant: the pull is dropped when a message is still to be read. *)
PullTimerSkips ==
    /\ diagPullTimer /\ reqs < MaxReqs[kind]
    /\ diagPullTimer' = FALSE
    /\ reqs' = IF up /\ chan = <<>> THEN reqs + 1 ELSE reqs
    /\ UNCHANGED <<editor, up, pulling, held, chan, diagnostics, ghost>>

PullTimer ==
    /\ diagPullTimer /\ reqs < MaxReqs[kind]
    /\ diagPullTimer' = FALSE
    /\ reqs' = IF up THEN reqs + 1 ELSE reqs
    /\ UNCHANGED <<editor, up, pulling, held, chan, diagnostics, ghost>>

-----------------------------------------------------------------------------

Next ==
    \/ \E f \in File :
        \/ OpenTab(f) \/ CloseTab(f) \/ ProblemsChange(f)
        \/ OpenFile(f) \/ CloseFile(f) \/ EditFile(f)
    \/ \E p \in Project : SwitchProject(p) \/ DaemonFinished(p) \/ Alarm(p)
    \/ HintTimer \/ ServePull \/ ComputePull \/ SendReply
    \/ Connect \/ InitialPull \/ Drop \/ Stop
    \/ RecvHint \/ RecvReply \/ PullFails \/ PullTimer

Spec == Init /\ [][Next]_vars

(* Both event loops run what is due: messages are handled, calls answered,  *)
(* timers fire.  Nothing is assumed of the user or of the connection.       *)
Fairness ==
    /\ WF_vars(ServePull) /\ WF_vars(ComputePull) /\ WF_vars(SendReply)
    /\ WF_vars(RecvHint \/ RecvReply \/ PullFails)
    /\ WF_vars(PullTimer)

FairSpec == Spec /\ Fairness

-----------------------------------------------------------------------------
(* Properties *)

TypeOK ==
    /\ kind \in Kinds
    /\ open \subseteq File /\ problems \subseteq File /\ pending \subseteq File
    /\ hintTimer \subseteq Project \cup {None}
    /\ active \in Project /\ readOf \in Project
    /\ up \in BOOLEAN /\ pulling \in BOOLEAN /\ diagPullTimer \in BOOLEAN
    /\ reqs \in 0..MaxReqs[kind]
    /\ chan \in Seq(Message) /\ held \in Seq(Message)
    /\ diagnostics \subseteq File /\ lastRead \subseteq File
    /\ owed \in BOOLEAN /\ failed \in BOOLEAN

(* The client has nothing left to do on this connection, and has every      *)
(* answer that it asked for.                                                *)
ClientIdle ==
    up /\ ~pulling /\ reqs = 0 /\ held = <<>> /\ chan = <<>> /\ ~diagPullTimer

(* No hint is lost to coalescing, not even one that arrives while a pull is *)
(* in flight or in the middle of the initial one: when the client is idle   *)
(* again, a pull was answered after the last hint; and unless the last pull *)
(* failed, the cache is that answer, whatever pulls failed before it.       *)
HintsHonoured == ClientIdle => ~owed /\ (failed \/ diagnostics = lastRead)

(* When client and window are idle, what the client holds of the files open *)
(* in the active project is what the last pass of its daemon found, if the  *)
(* last pull has not failed and the user has not gone to another project    *)
(* since.                                                                   *)
ActiveFilesInSyncOnJetbrains ==
    IsJetbrains /\ ClientIdle /\ ~failed
        /\ hintTimer = {} /\ pending = {} /\ readOf = active
        => \A f \in open \cap FilesOf(active) : f \in diagnostics <=> f \in problems

(* Every hint is followed by an answer of the server to a later pull, which *)
(* may come too late for the client, or the connection is lost.             *)
HintLeadsToPull == owed ~> ~owed

(* When editor and client are both idle, the cache agrees with VS Code on   *)
(* the files that have an open tab, if the last pull has not failed.        *)
OpenFilesInSync ==
    ClientIdle /\ ~failed /\ hintTimer = {} => diagnostics \cap open = problems \cap open
=============================================================================
