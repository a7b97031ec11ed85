----------------------------- MODULE IdeCommand ------------------------------
(***************************************************************************)
(* The entry point of the OMP extension (index.ts) on top of the connection *)
(* life cycle: the session's hooks and the /ide command.  A handler of      *)
(* "/ide <n>" chooses from the locks in the order of their times, calls     *)
(* connectTo and awaits it; several may be waiting at once.  "/ide" shows   *)
(* the numbered list that the user chooses from.                            *)
(***************************************************************************)
EXTENDS BridgeConnection, Naturals, Sequences, SequencesExt

CONSTANT DirOrder  \* the ports in the order in which readdir returns their locks

ASSUME DirOrderAssumption ==
    /\ DirOrder \in Seq(Ide)
    /\ \A p \in Ide : \E i \in DOMAIN DirOrder : DirOrder[i] = p

VARIABLES
    session,   \* is a session running (ui # null)?
    byTime,    \* the live ports, the lock written last first
    listed,    \* has the directory stood still since "/ide" last showed it?
    awaiting,  \* the clients whose connectTo a handler awaits
    report     \* what the last handler of "/ide <n>" to end said

command == <<session, byTime, listed, awaiting, report>>
allVars == <<vars, command>>

Reports == {"none", "Connected", "Connection failed", "No IDE"}

CommandInit ==
    /\ Init
    /\ session = FALSE /\ byTime = <<>> /\ listed = FALSE
    /\ awaiting = {} /\ report = "none"

(* The list of status(): the order of the scan. *)
Listing == SelectSeq(DirOrder, LAMBDA p : p \in live)

-----------------------------------------------------------------------------
(* Hooks and commands.  A client object that is used again is another one:  *)
(* whoever awaited the old one waits for good.                              *)

Reused == {c \in Client : cl'[c].task = "connect" /\ cl'[c].sock = "connecting"
                            /\ cl[c].sock # "connecting"}

SessionStart ==
    /\ Start
    /\ session' = TRUE
    /\ awaiting' = awaiting \ Reused
    /\ UNCHANGED <<byTime, listed, report>>

SessionShutdown ==
    /\ session
    /\ Stop
    /\ session' = FALSE
    /\ UNCHANGED <<byTime, listed, awaiting, report>>

CommandOff ==
    /\ session
    /\ Stop
    /\ UNCHANGED command

CommandList ==
    /\ session
    /\ listed' = TRUE
    /\ UNCHANGED <<vars, session, byTime, awaiting, report>>

CommandConnect(n) ==
    /\ session
    /\ n \in DOMAIN byTime
    /\ ConnectTo(byTime[n])
    /\ awaiting' = awaiting \cup {current'}
    /\ UNCHANGED <<session, byTime, listed, report>>

CommandNoIde(n) ==
    /\ session
    /\ n \notin DOMAIN byTime
    /\ report' = "No IDE"
    /\ UNCHANGED <<vars, session, byTime, listed, awaiting>>

-----------------------------------------------------------------------------
(* The event loop.  When open() returns, its handler reports at once.       *)

Returned == {c \in awaiting : cl[c].task # "none" /\ cl'[c].task = "none"}

(* open() returns false from its catch only. *)
Verdict(c) == IF cl[c].task = "failed" THEN "Connection failed" ELSE "Connected"

HandlersReport ==
    /\ awaiting' = awaiting \ (Returned \cup Reused)
    /\ report' = IF Returned = {} THEN report
                 ELSE Verdict(CHOOSE c \in Returned : TRUE)
    /\ UNCHANGED <<session, byTime, listed>>

Background ==
    \/ TimerFires
    \/ \E c \in Client : Progress(c) \/ Faults(c) \/ Continue(c)

EventLoop == Background /\ HandlersReport

-----------------------------------------------------------------------------
(* The lock directory *)

LockAppears(p) ==
    /\ IdeUp(p)
    /\ byTime' = <<p>> \o byTime
    /\ listed' = FALSE
    /\ UNCHANGED <<session, awaiting, report>>

LockGoes(p) ==
    /\ IdeDown(p)
    /\ \E i \in DOMAIN byTime : byTime[i] = p /\ byTime' = RemoveAt(byTime, i)
    /\ listed' = FALSE
    /\ UNCHANGED <<session, awaiting, report>>

(* JetBrains writes its lock again when a project opens or closes. *)
LockRewritten(p) ==
    /\ p \in live
    /\ \E i \in DOMAIN byTime :
        byTime[i] = p /\ byTime' = <<p>> \o RemoveAt(byTime, i)
    /\ listed' = FALSE
    /\ UNCHANGED <<vars, session, awaiting, report>>

-----------------------------------------------------------------------------

Commands ==
    \/ SessionStart \/ SessionShutdown \/ CommandOff \/ CommandList
    \/ \E n \in DOMAIN DirOrder : CommandConnect(n) \/ CommandNoIde(n)

Directory == \E p \in Ide : LockAppears(p) \/ LockGoes(p) \/ LockRewritten(p)

CommandNext == Commands \/ EventLoop \/ Directory

CommandSpec == CommandInit /\ [][CommandNext]_allVars

(* The fairness of the life cycle: whatever it makes happen, happens here   *)
(* with the handlers it wakes.                                              *)
CommandFairSpec == CommandSpec /\ Fairness

-----------------------------------------------------------------------------
(* Properties *)

CommandTypeOK ==
    /\ TypeOK
    /\ session \in BOOLEAN /\ listed \in BOOLEAN
    /\ byTime \in Seq(Ide) /\ ToSet(byTime) = live /\ Len(byTime) = Cardinality(live)
    /\ awaiting \subseteq Client
    /\ report \in Reports

(* connect() is never settled when its socket is closed before it opened.   *)
Hung(c) == cl[c].task = "connect" /\ cl[c].sock = "closed"

(* What may still settle the open() of a client: its dialling, its calls or *)
(* the continuation of a rejected promise; or nothing, when a later open()  *)
(* or stop() closed its socket before it had opened.                        *)
Pending(c) ==
    \/ cl[c].task # "none" /\ Live(c)
    \/ cl[c].task \in Settled
    \/ Hung(c) /\ cl[c].byUs

(* No handler of "/ide <n>" waits for an open() that has ended unnoticed.   *)
AwaitedIsPending == \A c \in awaiting : Pending(c)

(* Every handler of "/ide <n>" reports in the end, unless a later command   *)
(* or a retry closed its client while that was still dialling.              *)
CommandReturns ==
    \A c \in Client :
        c \in awaiting ~> c \notin awaiting \/ (Hung(c) /\ cl[c].byUs)

(* "Connected" is only reported of the client that holds the connection at  *)
(* that moment, unless its initial pull had lost it: then open() returns    *)
(* true for a connection that is gone, or was replaced.                     *)
ConnectedIsTrue ==
    [][\A c \in Returned : Verdict(c) = "Connected"
        => (current' = c /\ Linked') \/ cl[c].task = "aborted"]_allVars

(* "/ide <n>" connects to the window that "/ide" shows as number n, as long *)
(* as the directory has not changed in between.                             *)
NumberIsTheOneShown ==
    [][\A n \in DOMAIN byTime :
        CommandConnect(n) /\ listed => byTime[n] = Listing[n]]_allVars
=============================================================================
