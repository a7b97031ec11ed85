--------------------------- MODULE LockDirectory ---------------------------
(***************************************************************************)
(* The directory ~/.omp/ide through which an OMP client finds the IDE      *)
(* windows: every window publishes one lock, named after its port, and the *)
(* client scans the directory, deletes what it takes for stale and dials   *)
(* the best of the rest.  The parties are processes, so their file system  *)
(* calls interleave; a write is an open that truncates and a later write.  *)
(*                                                                         *)
(* A window stands for its port, its process id and its token.  A window   *)
(* of Vscode writes its lock once, when it starts; the other windows are   *)
(* JetBrains applications, which write it again whenever their projects    *)
(* change, from a thread pool.                                             *)
(***************************************************************************)
EXTENDS Integers, FiniteSets

CONSTANTS
  Window,       \* IDE windows: port, process and lock
  Vscode,       \* the windows of VS Code; the others are JetBrains
  Folder,       \* workspace folders
  Covering,     \* the folders that contain the agent's working directory
  None,         \* no window
  MaxWrites,    \* bound: locks ever written
  MaxJobs       \* bound: pooled writeLockfile() jobs of one window

ASSUME LockAssumption ==
  /\ Vscode \subseteq Window
  /\ Covering \subseteq Folder
  /\ None \notin Window
  /\ MaxWrites \in Nat /\ MaxJobs \in Nat

VARIABLES
  phase,     \* of each window: off, up (listening), closing, closed, exited
  projects,  \* the folders a window has open
  listed,    \* its field workspaceFolders, a copy of projects
  refresh,   \* its pending refreshWorkspace() calls, of an open or a close
  job,       \* its running calls of writeLockfile(), 0 being that of the start
  file,      \* its lock in the directory
  clock,     \* locks written so far, the source of modification times
  reused,    \* exited windows whose pid another process got
  stage,     \* the client: idle, scan, dial, conn
  todo,      \* names listed and not yet read
  doomed,    \* the lock it is about to delete
  found,     \* candidates of this scan, as read
  target,    \* the window it dials or is connected to
  env,       \* OMP_IDE_PORT
  settled    \* history: live windows with a whole lock, left alone since the scan began

winVars == <<phase, projects, listed, refresh, job, reused>>
clientVars == <<stage, todo, doomed, found, target>>
vars == <<winVars, file, clock, clientVars, env, settled>>

Slot == 0..MaxJobs
Job == [at : {"idle", "queued", "opened", "orphan"}, folders : SUBSET Folder]
File == [is : {"absent", "partial", "whole"}, folders : SUBSET Folder, mtime : Nat]
NoJob == [at |-> "idle", folders |-> {}]
Queued == [at |-> "queued", folders |-> {}]
Absent == [is |-> "absent", folders |-> {}, mtime |-> 0]
Partial == [is |-> "partial", folders |-> {}, mtime |-> 0]
NothingFound == [w \in {} |-> NoJob]
Whole(fs, t) == [is |-> "whole", folders |-> fs, mtime |-> t]

\* process.kill(pid, 0) finds a process.
PidAlive(w) == phase[w] \in {"up", "closing", "closed"} \/ w \in reused

\* Jobs that will still write, over all windows: with clock they bound the times.
Pending == Cardinality({p \in Window \X Slot : job[p[1]][p[2]].at \in {"queued", "opened"}})
MayWrite == clock + Pending < MaxWrites

\* The directory entry goes; a job that has it open keeps writing into nothing.
Unlink(w) ==
  /\ file' = [file EXCEPT ![w] = Absent]
  /\ job' = [job EXCEPT ![w] =
       [s \in Slot |-> IF @[s].at = "opened" THEN [at |-> "orphan", folders |-> @[s].folders] ELSE @[s]]]

\* What the scan in progress may no longer rely on.
Disturb(w) == settled' = settled \ {w}

\* A connection ends with the socket of its window.
HangUp(w) ==
  IF stage = "conn" /\ target = w
  THEN stage' = "idle" /\ target' = None /\ UNCHANGED <<todo, doomed, found>>
  ELSE UNCHANGED clientVars

TypeOK ==
  /\ phase \in [Window -> {"off", "up", "closing", "closed", "exited"}]
  /\ projects \in [Window -> SUBSET Folder]
  /\ listed \in [Window -> SUBSET Folder]
  /\ refresh \in [Window -> SUBSET {"open", "close"}]
  /\ job \in [Window -> [Slot -> Job]]
  /\ file \in [Window -> File]
  /\ clock \in Nat
  /\ reused \subseteq {w \in Window : phase[w] = "exited"}
  /\ stage \in {"idle", "scan", "dial", "conn"}
  /\ todo \subseteq Window
  /\ todo # {} => stage = "scan"
  /\ doomed \in todo \cup {None}
  /\ DOMAIN found \subseteq Window \ todo
  /\ \A w \in DOMAIN found : found[w] \in [folders : SUBSET Folder, mtime : Nat]
  /\ target \in Window \cup {None}
  /\ (target # None) <=> stage \in {"dial", "conn"}
  /\ env \in Vscode \cup {None}
  /\ settled \subseteq Window

Init ==
  /\ phase = [w \in Window |-> "off"]
  /\ projects = [w \in Window |-> {}]
  /\ listed = [w \in Window |-> {}]
  /\ refresh = [w \in Window |-> {}]
  /\ job = [w \in Window |-> [s \in Slot |-> NoJob]]
  /\ file = [w \in Window |-> Absent]
  /\ clock = 0
  /\ reused = {}
  /\ stage = "idle" /\ todo = {} /\ doomed = None /\ target = None
  /\ found = NothingFound
  /\ env \in Vscode \cup {None}  \* only VS Code puts its port into new terminals
  /\ settled = {}

(***************************************************************************)
(* The windows.                                                            *)
(***************************************************************************)

\* VS Code: start() listens, then writes the lock in the same turn of its loop.
Start(w) ==
  /\ w \in Vscode /\ phase[w] = "off" /\ MayWrite
  /\ \E fs \in SUBSET Folder :
       /\ projects' = [projects EXCEPT ![w] = fs]
       /\ listed' = [listed EXCEPT ![w] = fs]
  /\ phase' = [phase EXCEPT ![w] = "up"]
  /\ job' = [job EXCEPT ![w][0] = Queued]
  /\ UNCHANGED <<refresh, reused, file, clock, clientVars, env, settled>>

\* JetBrains: a project opens; its startup activity is scheduled.  One activity
\* at a time, and one close, is the bound on what is pending.
OpenProject(w, f) ==
  /\ w \notin Vscode /\ phase[w] \in {"off", "up"} /\ f \notin projects[w]
  /\ "open" \notin refresh[w]
  /\ projects' = [projects EXCEPT ![w] = @ \cup {f}]
  /\ refresh' = [refresh EXCEPT ![w] = @ \cup {"open"}]
  /\ UNCHANGED <<phase, listed, job, reused, file, clock, clientVars, env, settled>>

\* JetBrains: a project closes; onProjectClosed() queues refreshWorkspace()
\* behind its disposal.
CloseProject(w, f) ==
  /\ w \notin Vscode /\ phase[w] = "up" /\ f \in projects[w]
  /\ "close" \notin refresh[w]
  /\ projects' = [projects EXCEPT ![w] = @ \ {f}]
  /\ refresh' = [refresh EXCEPT ![w] = @ \cup {"close"}]
  /\ UNCHANGED <<phase, listed, job, reused, file, clock, clientVars, env, settled>>

\* JetBrains: the first startup activity binds a port and, before it goes on to
\* refreshWorkspace(), writes the lock with the folders known so far: none.
EnsureStarted(w) ==
  /\ w \notin Vscode /\ phase[w] = "off" /\ "open" \in refresh[w] /\ MayWrite
  /\ phase' = [phase EXCEPT ![w] = "up"]
  /\ job' = [job EXCEPT ![w][0] = Queued]
  /\ UNCHANGED <<projects, listed, refresh, reused, file, clock, clientVars, env, settled>>

\* JetBrains: the folders are recomputed and a pooled job will rewrite the lock.
\* A startup activity gets here once the first write is over, a close at any time.
RefreshWorkspace(w) ==
  /\ w \notin Vscode /\ phase[w] \in {"up", "closing", "closed"} /\ MayWrite
  /\ \E why \in refresh[w] :
       /\ why = "open" => job[w][0].at = "idle"
       /\ refresh' = [refresh EXCEPT ![w] = @ \ {why}]
  /\ listed' = [listed EXCEPT ![w] = projects[w]]
  /\ \E s \in Slot \ {0} :
       /\ job[w][s].at = "idle"
       /\ \A r \in 1..(s - 1) : job[w][r].at # "idle"
       /\ job' = [job EXCEPT ![w][s] = Queued]
  /\ UNCHANGED <<phase, projects, reused, file, clock, clientVars, env, settled>>

\* writeLockfile(): the text is built from listed, then the file is opened,
\* which creates it where it is missing and truncates it where it is not.
\* Queued jobs are alike, so the first of them goes first.
OpenLock(w, s) ==
  /\ job[w][s].at = "queued" /\ \A r \in 0..(s - 1) : job[w][r].at # "queued"
  /\ job' = [job EXCEPT ![w][s] = [at |-> "opened", folders |-> listed[w]]]
  /\ file' = [file EXCEPT ![w] = Partial]
  /\ Disturb(w)
  /\ UNCHANGED <<phase, projects, listed, refresh, reused, clock, clientVars, env>>

\* writeLockfile(): the text is written from offset 0.  Over another job's
\* text a shorter one leaves the other's tail.
WriteLock(w, s) ==
  /\ job[w][s].at \in {"opened", "orphan"}
  /\ job' = [job EXCEPT ![w][s] = NoJob]
  /\ IF job[w][s].at = "orphan"
     THEN UNCHANGED <<file, clock>>
     ELSE /\ clock' = clock + 1
          /\ \/ file' = [file EXCEPT ![w] = Whole(job[w][s].folders, clock')]
             \/ /\ file[w].is = "whole" /\ file[w].folders # job[w][s].folders
                /\ file' = [file EXCEPT ![w] = Partial]
  /\ Disturb(w)
  /\ UNCHANGED <<phase, projects, listed, refresh, reused, clientVars, env>>

\* Mutant: stop() may run before the lock that start() promised is on disk.
StopEarly(w) ==
  /\ w \in Vscode /\ phase[w] = "up"
  /\ phase' = [phase EXCEPT ![w] = "closing"]
  /\ Unlink(w) /\ HangUp(w) /\ Disturb(w)
  /\ UNCHANGED <<projects, listed, refresh, reused, clock, env>>

\* VS Code: stop() deletes the lock, says shutdown and closes its sockets; it
\* stops listening only when they are gone.
Stop(w) ==
  /\ w \in Vscode /\ phase[w] = "up" /\ job[w][0].at = "idle"
  /\ phase' = [phase EXCEPT ![w] = "closing"]
  /\ Unlink(w) /\ HangUp(w) /\ Disturb(w)
  /\ UNCHANGED <<projects, listed, refresh, reused, clock, env>>

\* JetBrains: dispose() says shutdown and stops the server first.
Dispose(w) ==
  /\ w \notin Vscode /\ phase[w] = "up" /\ job[w][0].at = "idle"
  /\ phase' = [phase EXCEPT ![w] = "closing"]
  /\ HangUp(w) /\ Disturb(w)
  /\ UNCHANGED <<projects, listed, refresh, job, reused, file, clock, env>>

\* VS Code: wss.close() calls back once no client is left, and it hangs up on
\* none that came since stop() did.  JetBrains: the lock is deleted.
FinishClosing(w) ==
  /\ phase[w] = "closing"
  /\ ~(stage = "conn" /\ target = w)
  /\ phase' = [phase EXCEPT ![w] = "closed"]
  /\ IF w \in Vscode THEN UNCHANGED <<file, job>> ELSE Unlink(w)
  /\ UNCHANGED <<projects, listed, refresh, reused, clock, clientVars, env, settled>>

\* The process ends, after closing or in a crash, and its jobs with it.
Exit(w) ==
  /\ phase[w] \in {"up", "closing", "closed"}
  /\ phase' = [phase EXCEPT ![w] = "exited"]
  /\ job' = [job EXCEPT ![w] = [s \in Slot |-> NoJob]]
  /\ refresh' = [refresh EXCEPT ![w] = {}]
  /\ projects' = [projects EXCEPT ![w] = {}]
  /\ listed' = [listed EXCEPT ![w] = {}]
  /\ HangUp(w) /\ Disturb(w)
  /\ UNCHANGED <<reused, file, clock, env>>

\* The operating system hands the pid of an exited window out again, or the
\* process that got it ends.  Only a lock left behind makes that visible.
RecyclePid(w) ==
  /\ phase[w] = "exited" /\ file[w].is # "absent"
  /\ reused' = IF w \in reused THEN reused \ {w} ELSE reused \cup {w}
  /\ UNCHANGED <<phase, projects, listed, refresh, job, file, clock, clientVars, env, settled>>

(***************************************************************************)
(* The client.  A scan is one turn of its loop, but each of its file       *)
(* system calls sees the directory as the windows have it at that moment.  *)
(***************************************************************************)

\* scanCandidates(): readdirSync() lists the locks.
ScanStart ==
  /\ stage = "idle"
  /\ stage' = "scan"
  /\ todo' = {w \in Window : file[w].is # "absent"}
  /\ found' = NothingFound
  /\ settled' = {w \in Window : /\ file[w].is = "whole" /\ phase[w] = "up"
                                /\ \A s \in Slot : job[w][s].at # "opened"}
  /\ UNCHANGED <<winVars, file, clock, doomed, target, env>>

\* Mutant: locks that do not match the working directory are deleted too.
ScanReadGreedy(w) ==
  /\ stage = "scan" /\ doomed = None /\ w \in todo
  /\ \/ /\ file[w].is # "whole" \/ ~PidAlive(w) \/ file[w].folders \cap Covering = {}
        /\ doomed' = w
        /\ UNCHANGED <<todo, found>>
     \/ /\ file[w].is = "whole" /\ PidAlive(w)
        /\ found' = [v \in DOMAIN found \cup {w} |->
             IF v = w THEN [folders |-> file[w].folders, mtime |-> file[w].mtime] ELSE found[v]]
        /\ todo' = todo \ {w}
        /\ UNCHANGED doomed
  /\ UNCHANGED <<winVars, file, clock, stage, target, env, settled>>

\* A lock that cannot be read or parsed, or whose pid is dead, is doomed; the
\* others are candidates, with the modification time they have now.
ScanRead(w) ==
  /\ stage = "scan" /\ doomed = None /\ w \in todo
  /\ \/ /\ file[w].is # "whole" \/ ~PidAlive(w)
        /\ doomed' = w
        /\ UNCHANGED <<todo, found>>
     \/ /\ file[w].is = "whole" /\ PidAlive(w)
        /\ found' = [v \in DOMAIN found \cup {w} |->
             IF v = w THEN [folders |-> file[w].folders, mtime |-> file[w].mtime] ELSE found[v]]
        /\ todo' = todo \ {w}
        /\ UNCHANGED doomed
  /\ UNCHANGED <<winVars, file, clock, stage, target, env, settled>>

\* Mutant: a removed lock stays on the list and is read again, as a candidate perhaps.
ScanRemoveKeeps ==
  /\ doomed # None
  /\ Unlink(doomed)
  /\ todo' = todo \ {doomed}
  /\ UNCHANGED <<phase, projects, listed, refresh, reused, clock, stage, doomed, found, target, env, settled>>

\* Mutant: a dead pid only drops the candidate, its lock stays.
ScanRemoveDry ==
  /\ doomed # None
  /\ todo' = todo \ {doomed}
  /\ doomed' = None
  /\ UNCHANGED <<winVars, file, clock, stage, found, target, env, settled>>

\* safeRemove(): the name is deleted, whatever is behind it by now.
ScanRemove ==
  /\ doomed # None
  /\ Unlink(doomed)
  /\ todo' = todo \ {doomed}
  /\ doomed' = None
  /\ UNCHANGED <<phase, projects, listed, refresh, reused, clock, stage, found, target, env, settled>>

\* pickCandidate(): the window of OMP_IDE_PORT, else the most recent that covers cwd.
Matching(c) == {w \in DOMAIN c : c[w].folders \cap Covering # {}}

\* Mutant: the first match in the order of the ports instead of the most recent.
PicksAny(c, port) == IF port \in DOMAIN c THEN {port} ELSE Matching(c)

Picks(c, port) ==
  IF port \in DOMAIN c THEN {port}
  ELSE {w \in Matching(c) : \A v \in Matching(c) : c[v].mtime <= c[w].mtime}

\* tryConnect(): the scan ends in a dial, or in a timer that will scan again.
ScanEnd ==
  /\ stage = "scan" /\ todo = {}
  /\ \/ /\ Picks(found, env) = {}
        /\ stage' = "idle" /\ found' = NothingFound /\ settled' = {}
        /\ UNCHANGED target
     \/ /\ target' \in Picks(found, env)
        /\ stage' = "dial"
        /\ UNCHANGED <<found, settled>>
  /\ UNCHANGED <<winVars, file, clock, todo, doomed, env>>

\* open(): a window accepts while it listens, otherwise a timer will scan again.
Listens(w) == phase[w] = "up" \/ (phase[w] = "closing" /\ w \in Vscode)

\* Mutant: a dial that fails ends without a timer.
DialGivesUp ==
  /\ stage = "dial" /\ Listens(target)
  /\ stage' = "conn" /\ found' = NothingFound /\ settled' = {}
  /\ UNCHANGED <<winVars, file, clock, todo, doomed, target, env>>

Dial ==
  /\ stage = "dial"
  /\ IF Listens(target)
     THEN stage' = "conn" /\ UNCHANGED target
     ELSE stage' = "idle" /\ target' = None
  /\ found' = NothingFound /\ settled' = {}
  /\ UNCHANGED <<winVars, file, clock, todo, doomed, env>>

Windows(w) ==
  \/ Start(w) \/ EnsureStarted(w) \/ RefreshWorkspace(w)
  \/ \E f \in Folder : OpenProject(w, f) \/ CloseProject(w, f)
  \/ \E s \in Slot : OpenLock(w, s) \/ WriteLock(w, s)
  \/ Stop(w) \/ Dispose(w) \/ FinishClosing(w) \/ Exit(w) \/ RecyclePid(w)

Client == ScanStart \/ (\E w \in Window : ScanRead(w)) \/ ScanRemove \/ ScanEnd \/ Dial

Next == Client \/ \E w \in Window : Windows(w)

\* The retry timer and the loop of the client go on; nothing is asked of the windows.
Spec == Init /\ [][Next]_vars /\ WF_vars(Client)

(***************************************************************************)
(* Properties.                                                             *)
(***************************************************************************)

\* A lock that was whole when the scan listed the directory, whose window has
\* run and left it alone since, is not deleted by that scan: scanCandidates()
\* only ever loses locks that change under it.
SettledLockStays == \A w \in settled : file[w].is = "whole"

\* The window the client dials is the one protocol section 1 names: that of
\* OMP_IDE_PORT, or one whose lock is no older than that of any window which
\* lists a folder over cwd and has been settled since the scan began.  Locks
\* written, deleted and read in the meantime do not mislead it.
NewestSettledWins ==
  stage = "dial" =>
    \/ target = env
    \/ /\ env \notin settled
       /\ \A w \in settled \ {target} :
            file[w].folders \cap Covering # {} => found[target].mtime > file[w].mtime

\* A VS Code window that left by stop() leaves no lock behind, also when its
\* stop() races a scan: nothing puts the lock back ("The IDE plugin MUST
\* delete its lockfile on window close / deactivate").
VscodeLeavesNoLock ==
  \A w \in Vscode : phase[w] \in {"closing", "closed"} => file[w].is = "absent"

\* The lock of a process that died is deleted by a scan, unless the pid is
\* handed out again or the client has a window and does not scan.
DeadLocksGo ==
  \A w \in Window :
    (phase[w] = "exited" /\ file[w].is # "absent")
      ~> (file[w].is = "absent" \/ w \in reused \/ stage = "conn")

\* A window that takes clients, and one that would be taken for such a window
\* although it does not: its pid is alive and its lock whole.
Serving(w) == phase[w] = "up" /\ file[w].is = "whole" /\ file[w].folders \cap Covering # {}
Ghost(w) == PidAlive(w) /\ phase[w] # "up" /\ file[w].is = "whole"

\* A client that keeps scanning finds a window: when from some point on one
\* serves the working directory and no ghost is about, it is connected again
\* and again.
WindowIsFound ==
  (<>[]((\E w \in Window : Serving(w)) /\ \A w \in Window : ~Ghost(w)))
    => []<>(stage = "conn")

\* What protocol.md says of staleness, "when pid is not alive", and server.ts
\* of the life of a lock, "written after the server is listening, deleted on
\* stop()": while a window is up and writing nothing, its lock is there.
LiveLockStays ==
  \A w \in Window :
    (phase[w] = "up" /\ \A s \in Slot : job[w][s].at = "idle") => file[w].is # "absent"
=============================================================================
