------------------------ MODULE LockDirectoryProofs ------------------------
(* Safety of LockDirectory for any number of windows, folders and jobs.     *)
EXTENDS LockDirectory, TLAPS

LEMMA InitType == Init => TypeOK
  BY LockAssumption DEF Init, TypeOK, NoJob, Absent, NothingFound, Slot, Job, File

(* What the two helpers of the actions keep well typed.                     *)
LEMMA UnlinkType ==
  ASSUME TypeOK, NEW w \in Window, Unlink(w)
  PROVE  file' \in [Window -> File] /\ job' \in [Window -> [Slot -> Job]]
  BY DEF TypeOK, Unlink, Absent, File, Job

ClientType ==
  /\ stage \in {"idle", "scan", "dial", "conn"}
  /\ todo \subseteq Window
  /\ todo # {} => stage = "scan"
  /\ doomed \in todo \cup {None}
  /\ DOMAIN found \subseteq Window \ todo
  /\ \A w \in DOMAIN found : found[w] \in [folders : SUBSET Folder, mtime : Nat]
  /\ target \in Window \cup {None}
  /\ (target # None) <=> stage \in {"dial", "conn"}

LEMMA HangUpType ==
  ASSUME TypeOK, NEW w \in Window, HangUp(w)
  PROVE  ClientType'
  BY LockAssumption DEF TypeOK, HangUp, clientVars, ClientType

LEMMA NextType == TypeOK /\ [Next]_vars => TypeOK'
<1> SUFFICES ASSUME TypeOK, [Next]_vars PROVE TypeOK'
  OBVIOUS
<1>1. ASSUME NEW w \in Window, Start(w) PROVE TypeOK'
  BY <1>1, LockAssumption DEF TypeOK, Start, clientVars, Slot, Queued, Job
<1>2. ASSUME NEW w \in Window, NEW f \in Folder, OpenProject(w, f) PROVE TypeOK'
  BY <1>2 DEF TypeOK, OpenProject, clientVars
<1>3. ASSUME NEW w \in Window, NEW f \in Folder, CloseProject(w, f) PROVE TypeOK'
  BY <1>3 DEF TypeOK, CloseProject, clientVars
<1>4. ASSUME NEW w \in Window, EnsureStarted(w) PROVE TypeOK'
  BY <1>4, LockAssumption DEF TypeOK, EnsureStarted, clientVars, Slot, Queued, Job
<1>5. ASSUME NEW w \in Window, RefreshWorkspace(w) PROVE TypeOK'
  BY <1>5 DEF TypeOK, RefreshWorkspace, clientVars, Queued, Job
<1>6. ASSUME NEW w \in Window, NEW s \in Slot, OpenLock(w, s) PROVE TypeOK'
  BY <1>6 DEF TypeOK, OpenLock, clientVars, Partial, Disturb, File, Job
<1>7. ASSUME NEW w \in Window, NEW s \in Slot, WriteLock(w, s) PROVE TypeOK'
  <2>1. job' \in [Window -> [Slot -> Job]]
    BY <1>7 DEF TypeOK, WriteLock, NoJob, Job
  <2>2. job[w][s].folders \in SUBSET Folder
    BY <1>7 DEF TypeOK, Job
  <2>3. clock' \in Nat /\ file' \in [Window -> File]
    <3>1. Partial \in File /\ \A t \in Nat : Whole(job[w][s].folders, t) \in File
      BY <2>2 DEF Partial, Whole, File
    <3>2. clock \in Nat /\ clock + 1 \in Nat /\ file \in [Window -> File]
      BY DEF TypeOK
    <3>3. CASE job[w][s].at = "orphan"
      BY <1>7, <3>2, <3>3 DEF WriteLock
    <3>4. CASE job[w][s].at # "orphan"
      BY <1>7, <3>1, <3>2, <3>4 DEF WriteLock
    <3> QED BY <3>3, <3>4
  <2>4. UNCHANGED <<phase, projects, listed, refresh, reused, clientVars, env>>
        /\ settled' = settled \ {w}
    BY <1>7 DEF WriteLock, Disturb
  <2> QED
    BY <2>1, <2>3, <2>4 DEF TypeOK, clientVars
<1>8. ASSUME NEW w \in Window, Stop(w) PROVE TypeOK'
  BY <1>8, UnlinkType, HangUpType DEF TypeOK, Stop, File, Job, ClientType, Disturb
<1>9. ASSUME NEW w \in Window, Dispose(w) PROVE TypeOK'
  BY <1>9, HangUpType DEF TypeOK, Dispose, ClientType, Disturb
<1>10. ASSUME NEW w \in Window, FinishClosing(w) PROVE TypeOK'
  BY <1>10, UnlinkType DEF TypeOK, FinishClosing, File, Job, clientVars
<1>11. ASSUME NEW w \in Window, Exit(w) PROVE TypeOK'
  BY <1>11, HangUpType DEF TypeOK, Exit, ClientType, NoJob, Disturb, Job
<1>12. ASSUME NEW w \in Window, RecyclePid(w) PROVE TypeOK'
  BY <1>12 DEF TypeOK, RecyclePid, clientVars
<1>13. ASSUME ScanStart PROVE TypeOK'
  BY <1>13, LockAssumption DEF TypeOK, ScanStart, winVars, NothingFound
<1>14. ASSUME NEW w \in Window, ScanRead(w) PROVE TypeOK'
  BY <1>14 DEF TypeOK, ScanRead, winVars, File
<1>15. ASSUME ScanRemove PROVE TypeOK'
  BY <1>15, UnlinkType, LockAssumption DEF TypeOK, ScanRemove, File, Job
<1>16. ASSUME ScanEnd PROVE TypeOK'
  BY <1>16, LockAssumption DEF TypeOK, ScanEnd, winVars, Picks, Matching, NothingFound
<1>17. ASSUME Dial PROVE TypeOK'
  BY <1>17 DEF TypeOK, Dial, winVars, NothingFound
<1>18. CASE UNCHANGED vars
  BY <1>18 DEF TypeOK, vars, winVars, clientVars
<1> QED
  BY <1>1, <1>2, <1>3, <1>4, <1>5, <1>6, <1>7, <1>8, <1>9, <1>10, <1>11, <1>12,
     <1>13, <1>14, <1>15, <1>16, <1>17, <1>18 DEF Next, Client, Windows

(* Every reachable state is well typed: no scan reads a name it did not     *)
(* list, and a window is dialled or held exactly in the stages that say so. *)
THEOREM TypeCorrect == Spec => []TypeOK
  BY InitType, NextType, PTL DEF Spec

----------------------------------------------------------------------------
(* What a scan may rely on: a settled lock is whole, belongs to a running   *)
(* window, is not about to be deleted, and was or will be read as it is.    *)
SettledInv ==
  \A w \in settled :
    /\ file[w].is = "whole" /\ phase[w] = "up" /\ doomed # w
    /\ stage \in {"scan", "dial"}
    /\ w \in todo \/ (w \in DOMAIN found /\ found[w] = [folders |-> file[w].folders, mtime |-> file[w].mtime])

(* Modification times tell the locks of different windows apart, and a lock *)
(* read earlier from the lock another window has now.                       *)
StampInv ==
  /\ \A w \in Window : file[w].is = "whole" => file[w].mtime <= clock
  /\ \A w \in DOMAIN found : found[w].mtime <= clock
  /\ \A v, w \in Window :
       v # w /\ file[v].is = "whole" /\ file[w].is = "whole" => file[v].mtime # file[w].mtime
  /\ \A v \in DOMAIN found : \A w \in Window :
       v # w /\ file[w].is = "whole" => found[v].mtime # file[w].mtime

(* A VS Code window has no pooled jobs, and none at all once it closes.     *)
VscodeInv ==
  \A w \in Vscode :
    /\ phase[w] \in {"off", "up"} => \A s \in Slot \ {0} : job[w][s].at = "idle"
    /\ phase[w] \in {"closing", "closed"} =>
         file[w].is = "absent" /\ \A s \in Slot : job[w][s].at = "idle"

IInv == TypeOK /\ SettledInv /\ StampInv /\ VscodeInv /\ NewestSettledWins

LEMMA InitIInv == Init => IInv
  BY InitType, LockAssumption
  DEF Init, IInv, SettledInv, StampInv, VscodeInv, NewestSettledWins, NoJob, Absent, NothingFound

(* A step of a window leaves the client alone, except that it may end its   *)
(* connection, and whatever lock it touches is settled no more.             *)
ClientKept ==
  /\ UNCHANGED <<todo, doomed, found, env>>
  /\ UNCHANGED <<stage, target>> \/ (stage = "conn" /\ stage' = "idle")

LEMMA HangUpKeeps ==
  ASSUME NEW w, HangUp(w), UNCHANGED env
  PROVE  ClientKept
  BY DEF HangUp, ClientKept, clientVars

LockKept == /\ settled' \subseteq settled
            /\ \A v \in settled' : file'[v] = file[v] /\ phase'[v] = "up"

LEMMA WindowKeeps ==
  ASSUME IInv, NEW w \in Window, Windows(w)
  PROVE  ClientKept /\ LockKept
<1> USE DEF IInv, TypeOK, SettledInv, LockKept
<1>1. CASE Start(w)
  BY <1>1 DEF Start, ClientKept, clientVars
<1>2. ASSUME NEW f \in Folder, OpenProject(w, f) \/ CloseProject(w, f)
      PROVE  ClientKept /\ LockKept
  BY <1>2 DEF OpenProject, CloseProject, ClientKept, clientVars
<1>3. CASE EnsureStarted(w)
  BY <1>3 DEF EnsureStarted, ClientKept, clientVars
<1>4. CASE RefreshWorkspace(w)
  BY <1>4 DEF RefreshWorkspace, ClientKept, clientVars
<1>5. ASSUME NEW s \in Slot, OpenLock(w, s) PROVE ClientKept /\ LockKept
  BY <1>5 DEF OpenLock, Disturb, ClientKept, clientVars
<1>6. ASSUME NEW s \in Slot, WriteLock(w, s) PROVE ClientKept /\ LockKept
  <2>1. ClientKept
    BY <1>6 DEF WriteLock, ClientKept, clientVars
  <2>2. settled' = settled \ {w} /\ UNCHANGED phase
    BY <1>6 DEF WriteLock, Disturb
  <2>3. \A v \in Window \ {w} : file'[v] = file[v]
    BY <1>6 DEF WriteLock
  <2> QED BY <2>1, <2>2, <2>3
<1>7. CASE Stop(w)
  BY <1>7, HangUpKeeps DEF Stop, Unlink, Disturb
<1>8. CASE Dispose(w)
  BY <1>8, HangUpKeeps DEF Dispose, Disturb
<1>9. CASE FinishClosing(w)
  BY <1>9 DEF FinishClosing, Unlink, ClientKept, clientVars
<1>10. CASE Exit(w)
  BY <1>10, HangUpKeeps DEF Exit, Disturb
<1>11. CASE RecyclePid(w)
  BY <1>11 DEF RecyclePid, ClientKept, clientVars
<1> QED
  BY <1>1, <1>2, <1>3, <1>4, <1>5, <1>6, <1>7, <1>8, <1>9, <1>10, <1>11 DEF Windows

(* A step of a window keeps the times apart: only WriteLock() makes a lock  *)
(* whole, at a time that is later than all.                                 *)
LEMMA WindowStamps ==
  ASSUME IInv, NEW w \in Window, Windows(w)
  PROVE  StampInv'
<1> USE DEF IInv, TypeOK, File
<1>1. UNCHANGED found
  BY WindowKeeps DEF ClientKept
<1>2. CASE /\ UNCHANGED clock
           /\ \A v \in Window : file'[v] = file[v] \/ file'[v].is # "whole"
  BY <1>1, <1>2 DEF StampInv
<1>3. CASE /\ clock' = clock + 1
           /\ \A v \in Window \ {w} : file'[v] = file[v]
           /\ file'[w].is = "whole" => file'[w].mtime = clock + 1
  <2>1. /\ \A v \in Window : file[v].mtime \in Nat
        /\ \A v \in DOMAIN found : found[v].mtime \in Nat
        /\ clock \in Nat
    OBVIOUS
  <2>2. \A v \in Window : file'[v].is = "whole" => file'[v].mtime <= clock'
    BY <1>3, <2>1 DEF StampInv
  <2>3. \A v \in DOMAIN found : found[v].mtime <= clock'
    BY <1>3, <2>1 DEF StampInv
  <2>4. \A v, x \in Window :
          v # x /\ file'[v].is = "whole" /\ file'[x].is = "whole" => file'[v].mtime # file'[x].mtime
    BY <1>3, <2>1 DEF StampInv
  <2>5. \A v \in DOMAIN found : \A x \in Window :
          v # x /\ file'[x].is = "whole" => found[v].mtime # file'[x].mtime
    <3> SUFFICES ASSUME NEW v \in DOMAIN found, NEW x \in Window, v # x, file'[x].is = "whole"
                 PROVE  found[v].mtime # file'[x].mtime
      OBVIOUS
    <3>1. CASE x = w
      BY <1>3, <2>1, <3>1 DEF StampInv
    <3>2. CASE x # w
      BY <1>3, <3>2 DEF StampInv
    <3> QED BY <3>1, <3>2
  <2> QED BY <1>1, <2>2, <2>3, <2>4, <2>5 DEF StampInv
<1>4. ASSUME NEW s \in Slot, WriteLock(w, s) PROVE StampInv'
  <2>1. CASE job[w][s].at = "orphan"
    BY <1>2, <1>4, <2>1 DEF WriteLock
  <2>2. CASE job[w][s].at # "orphan"
    BY <1>3, <1>4, <2>2 DEF WriteLock, Whole, Partial
  <2> QED BY <2>1, <2>2
<1>5. ASSUME NEW s \in Slot, OpenLock(w, s) PROVE StampInv'
  BY <1>2, <1>5 DEF OpenLock, Partial
<1>6. CASE Stop(w)
  BY <1>2, <1>6 DEF Stop, Unlink, Absent
<1>7. CASE FinishClosing(w)
  BY <1>2, <1>7 DEF FinishClosing, Unlink, Absent
<1>8. CASE UNCHANGED <<file, clock>>
  BY <1>2, <1>8
<1>9. ASSUME NEW f \in Folder, OpenProject(w, f) \/ CloseProject(w, f)
      PROVE  UNCHANGED <<file, clock>>
  BY <1>9 DEF OpenProject, CloseProject
<1>10. Start(w) \/ EnsureStarted(w) \/ RefreshWorkspace(w) => UNCHANGED <<file, clock>>
  BY DEF Start, EnsureStarted, RefreshWorkspace
<1>11. Dispose(w) \/ Exit(w) \/ RecyclePid(w) => UNCHANGED <<file, clock>>
  BY DEF Dispose, Exit, RecyclePid
<1> QED
  BY <1>4, <1>5, <1>6, <1>7, <1>8, <1>9, <1>10, <1>11 DEF Windows

(* VS Code's own steps, and those of others, leave VscodeInv intact.        *)
LEMMA NextVscode == IInv /\ [Next]_vars => VscodeInv'
<1> SUFFICES ASSUME IInv, [Next]_vars PROVE VscodeInv'
  OBVIOUS
<1> USE LockAssumption DEF IInv, TypeOK, VscodeInv
<1>1. ASSUME NEW w \in Window, Unlink(w)
      PROVE  /\ file' = [file EXCEPT ![w] = Absent]
             /\ \A v \in Window, s \in Slot : job[v][s].at = "idle" => job'[v][s].at = "idle"
  BY <1>1 DEF Unlink
<1>2. ASSUME NEW w \in Window, Start(w) PROVE VscodeInv'
  BY <1>2 DEF Start
<1>3. ASSUME NEW w \in Window, NEW f \in Folder, OpenProject(w, f) \/ CloseProject(w, f)
      PROVE  VscodeInv'
  BY <1>3 DEF OpenProject, CloseProject
<1>4. ASSUME NEW w \in Window, EnsureStarted(w) PROVE VscodeInv'
  BY <1>4 DEF EnsureStarted
<1>5. ASSUME NEW w \in Window, RefreshWorkspace(w) PROVE VscodeInv'
  BY <1>5 DEF RefreshWorkspace
<1>6. ASSUME NEW w \in Window, NEW s \in Slot, OpenLock(w, s) PROVE VscodeInv'
  BY <1>6 DEF OpenLock
<1>7. ASSUME NEW w \in Window, NEW s \in Slot, WriteLock(w, s) PROVE VscodeInv'
  <2>1. job' = [job EXCEPT ![w][s] = NoJob] /\ job[w][s].at # "idle" /\ UNCHANGED phase
    BY <1>7 DEF WriteLock
  <2>2. \A v \in Window \ {w} : file'[v] = file[v]
    BY <1>7 DEF WriteLock
  <2> QED BY <2>1, <2>2 DEF NoJob
<1>8. ASSUME NEW w \in Window, Stop(w) PROVE VscodeInv'
  BY <1>1, <1>8 DEF Stop, Absent
<1>9. ASSUME NEW w \in Window, Dispose(w) \/ Exit(w) \/ RecyclePid(w) PROVE VscodeInv'
  BY <1>9 DEF Dispose, Exit, RecyclePid, NoJob
<1>10. ASSUME NEW w \in Window, FinishClosing(w) PROVE VscodeInv'
  BY <1>1, <1>10 DEF FinishClosing, Absent
<1>11. CASE ScanRemove
  <2>1. doomed \in Window /\ Unlink(doomed) /\ UNCHANGED phase
    BY <1>11 DEF ScanRemove
  <2> QED BY <1>1, <2>1 DEF Absent
<1>12. CASE UNCHANGED <<winVars, file>>
  BY <1>12 DEF winVars
<1>13. ASSUME NEW w \in Window, ScanRead(w) PROVE UNCHANGED <<winVars, file>>
  BY <1>13 DEF ScanRead
<1>14. ScanStart \/ ScanEnd \/ Dial \/ UNCHANGED vars => UNCHANGED <<winVars, file>>
  BY DEF ScanStart, ScanEnd, Dial, vars
<1> QED
  BY <1>2, <1>3, <1>4, <1>5, <1>6, <1>7, <1>8, <1>9, <1>10, <1>11, <1>12, <1>13, <1>14
  DEF Next, Client, Windows

(* The steps of the scan keep what it relies on.                            *)
LEMMA ClientScan ==
  ASSUME IInv, TypeOK', Client
  PROVE  SettledInv' /\ StampInv' /\ NewestSettledWins'
<1> USE LockAssumption DEF IInv, TypeOK, File
<1>1. CASE ScanStart
  BY <1>1 DEF ScanStart, SettledInv, StampInv, NewestSettledWins, winVars, NothingFound
<1>2. ASSUME NEW w \in Window, ScanRead(w)
      PROVE  SettledInv' /\ StampInv' /\ NewestSettledWins'
  <2>1. CASE file[w].is # "whole" \/ ~PidAlive(w)
    BY <1>2, <2>1 DEF ScanRead, PidAlive, SettledInv, StampInv, NewestSettledWins, winVars
  <2>2. CASE file[w].is = "whole" /\ PidAlive(w)
    <3>1. found' = [v \in DOMAIN found \cup {w} |->
             IF v = w THEN [folders |-> file[w].folders, mtime |-> file[w].mtime] ELSE found[v]]
          /\ todo' = todo \ {w} /\ UNCHANGED <<doomed, winVars, file, clock, stage, target, settled>>
          /\ stage = "scan"
      BY <1>2, <2>2 DEF ScanRead
    <3> QED BY <2>2, <3>1 DEF SettledInv, StampInv, NewestSettledWins, winVars
  <2> QED BY <2>1, <2>2
<1>3. CASE ScanRemove
  <2>1. /\ doomed \in Window /\ stage = "scan"
        /\ file' = [file EXCEPT ![doomed] = Absent]
        /\ todo' = todo \ {doomed} /\ doomed' = None
        /\ UNCHANGED <<phase, clock, stage, found, settled>>
    BY <1>3 DEF ScanRemove, Unlink
  <2>2. SettledInv'
    <3>1. \A w \in settled : w # doomed /\ w \in Window /\ w # None /\ file'[w] = file[w]
      <4>1. \A w \in settled : w # doomed /\ w \in Window
        BY DEF SettledInv
      <4>2. \A w \in Window : w # None
        BY LockAssumption
      <4>3. file \in [Window -> File]
        OBVIOUS
      <4> HIDE DEF IInv, TypeOK, File
      <4> QED BY <2>1, <4>1, <4>2, <4>3
    <3>2. \A w \in settled :
            /\ file[w].is = "whole" /\ phase[w] = "up"
            /\ w \in todo \/ (w \in DOMAIN found /\
                 found[w] = [folders |-> file[w].folders, mtime |-> file[w].mtime])
      BY DEF SettledInv
    <3> HIDE DEF IInv, TypeOK, File
    <3> QED BY <2>1, <3>1, <3>2 DEF SettledInv
  <2>3. \A v \in Window : file'[v] = file[v] \/ file'[v].is # "whole"
    BY <2>1 DEF Absent
  <2>4. StampInv'
    BY <2>1, <2>3 DEF StampInv
  <2>5. NewestSettledWins'
    BY <2>1 DEF NewestSettledWins
  <2> QED BY <2>2, <2>4, <2>5
<1>4. CASE ScanEnd
  <2>1. SettledInv' /\ StampInv'
    BY <1>4 DEF ScanEnd, SettledInv, StampInv, winVars, NothingFound
  <2>2. NewestSettledWins'
    <3> SUFFICES ASSUME stage' = "dial", target' # env'
                 PROVE  /\ env' \notin settled'
                        /\ \A w \in settled' \ {target'} :
                             file'[w].folders \cap Covering # {} => found'[target'].mtime > file'[w].mtime
      BY DEF NewestSettledWins
    <3>1. /\ stage = "scan" /\ todo = {} /\ target' \in Picks(found, env)
          /\ UNCHANGED <<file, found, settled, env>>
      BY <1>4 DEF ScanEnd
    <3>2. env \notin DOMAIN found /\ target' \in Matching(found)
          /\ \A v \in Matching(found) : found[v].mtime <= found[target'].mtime
      BY <3>1 DEF Picks
    <3>3. \A w \in settled : w \in DOMAIN found /\ file[w].is = "whole"
             /\ found[w] = [folders |-> file[w].folders, mtime |-> file[w].mtime]
      BY <3>1 DEF SettledInv
    <3>4. ASSUME NEW w \in settled \ {target'}, file[w].folders \cap Covering # {}
          PROVE  found[target'].mtime > file[w].mtime
      <4>1. w \in Matching(found) /\ found[w].mtime = file[w].mtime
        <5> DEFINE R == [folders |-> file[w].folders, mtime |-> file[w].mtime]
        <5>1. w \in DOMAIN found /\ found[w] = R
          BY <3>3, <3>4
        <5>2. R.folders = file[w].folders /\ R.mtime = file[w].mtime
          OBVIOUS
        <5> QED BY <3>4, <5>1, <5>2 DEF Matching
      <4>2. target' \in DOMAIN found /\ w \in Window /\ target' # w
        BY <3>2, <3>4 DEF Matching
      <4>3. found[target'].mtime # file[w].mtime
        BY <3>3, <4>2 DEF StampInv
      <4>4. found[target'].mtime \in Nat /\ found[w].mtime \in Nat
        BY <4>1, <4>2, <3>3
      <4>5. found[w].mtime <= found[target'].mtime
        BY <3>2, <4>1
      <4> HIDE DEF IInv, TypeOK, File
      <4> QED BY <4>1, <4>3, <4>4, <4>5
    <3> QED BY <3>1, <3>2, <3>3, <3>4
  <2> QED BY <2>1, <2>2
<1>5. CASE Dial
  BY <1>5 DEF Dial, SettledInv, StampInv, NewestSettledWins, winVars, NothingFound
<1> QED
  BY <1>1, <1>2, <1>3, <1>4, <1>5 DEF Client

LEMMA NextIInv == IInv /\ [Next]_vars => IInv'
<1> SUFFICES ASSUME IInv, [Next]_vars PROVE IInv'
  OBVIOUS
<1>1. TypeOK'
  BY NextType DEF IInv
<1>2. VscodeInv'
  BY NextVscode
<1>3. CASE Client
  BY <1>1, <1>2, <1>3, ClientScan DEF IInv
<1>4. ASSUME NEW w \in Window, Windows(w) PROVE IInv'
  <2>1. ClientKept /\ LockKept
    BY <1>4, WindowKeeps
  <2>2. StampInv'
    BY <1>4, WindowStamps
  <2>3. SettledInv'
    BY <2>1 DEF IInv, SettledInv, ClientKept, LockKept
  <2>4. NewestSettledWins'
    BY <2>1 DEF IInv, NewestSettledWins, SettledInv, ClientKept, LockKept
  <2> QED BY <1>1, <1>2, <2>2, <2>3, <2>4 DEF IInv
<1>5. CASE UNCHANGED vars
  <2>1. SettledInv' /\ StampInv' /\ NewestSettledWins'
    BY <1>5 DEF IInv, SettledInv, StampInv, NewestSettledWins, vars, winVars, clientVars
  <2> QED BY <1>1, <1>2, <2>1 DEF IInv
<1> QED
  BY <1>3, <1>4, <1>5 DEF Next

LEMMA IInvHolds == Spec => []IInv
  BY InitIInv, NextIInv, PTL DEF Spec

(* No scan deletes a lock that was whole when the scan began and that its   *)
(* running window has left alone since, with any number of windows.         *)
THEOREM SettledLockStaysHolds == Spec => []SettledLockStays
<1>1. IInv => SettledLockStays
  BY DEF IInv, SettledInv, SettledLockStays
<1> QED BY IInvHolds, <1>1, PTL

(* The window dialled is OMP_IDE_PORT's, or newer than every settled one    *)
(* that covers the working directory.                                       *)
THEOREM NewestSettledWinsHolds == Spec => []NewestSettledWins
<1>1. IInv => NewestSettledWins
  BY DEF IInv
<1> QED BY IInvHolds, <1>1, PTL

(* A VS Code window that has run stop() has no lock, nor a job to write one. *)
THEOREM VscodeLeavesNoLockHolds == Spec => []VscodeLeavesNoLock
<1>1. IInv => VscodeLeavesNoLock
  BY DEF IInv, VscodeInv, VscodeLeavesNoLock
<1> QED BY IInvHolds, <1>1, PTL
=============================================================================
