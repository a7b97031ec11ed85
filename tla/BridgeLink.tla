----------------------------- MODULE BridgeLink -----------------------------
(***************************************************************************)
(* What the bridge promises the host about its connection, with no sockets, *)
(* timers or client objects: a link is only there while it is wanted, it is *)
(* dialled before it is up, it may be lost at any time, an automatic retry  *)
(* never leaves a peer that is up, and the host may choose another peer or  *)
(* switch the bridge off at any time, in one step.                          *)
(***************************************************************************)
CONSTANTS Ide, None

VARIABLES
    wanted,  \* has the host asked for a connection?
    peer,    \* the IDE being dialled or linked, or None
    up,      \* has the handshake with the peer succeeded?
    chosen   \* did the host name this peer?

vars == <<wanted, peer, up, chosen>>

Init ==
    /\ wanted = FALSE
    /\ peer = None
    /\ up = FALSE
    /\ chosen = FALSE

Ask ==
    /\ wanted' = TRUE
    /\ UNCHANGED <<peer, up, chosen>>

Dial(p) ==
    /\ ~up
    /\ wanted' = TRUE
    /\ peer' = p
    /\ up' = FALSE
    /\ chosen' = FALSE

Choose(p) ==
    /\ wanted' = TRUE
    /\ peer' = p
    /\ up' = FALSE
    /\ chosen' = TRUE

ShakeHands ==
    /\ peer # None
    /\ wanted
    /\ ~up
    /\ up' = TRUE
    /\ UNCHANGED <<wanted, peer, chosen>>

Lose ==
    /\ peer' = None
    /\ up' = FALSE
    /\ chosen' = FALSE
    /\ UNCHANGED wanted

SwitchOff ==
    /\ wanted' = FALSE
    /\ peer' = None
    /\ up' = FALSE
    /\ chosen' = FALSE

Next ==
    \/ Ask
    \/ \E p \in Ide : Dial(p) \/ Choose(p)
    \/ ShakeHands
    \/ Lose
    \/ SwitchOff

Spec == Init /\ [][Next]_vars
=============================================================================
