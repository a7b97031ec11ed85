---------------------------- MODULE CallContract -----------------------------
(***************************************************************************)
(* What a remote call promises its caller, with no messages and no timers: *)
(* it is performed at most once, and not before it is made; it succeeds     *)
(* only after it was performed; it is given up at any time, and may then    *)
(* still be performed; an outcome is final.                                 *)
(***************************************************************************)
EXTENDS Naturals

CONSTANT Key  \* the calls

VARIABLES
    outcome,  \* of each call: "unmade", "pending", "success" or "failure"
    done      \* how often the IDE has performed it

vars == <<outcome, done>>

Init ==
    /\ outcome = [k \in Key |-> "unmade"]
    /\ done = [k \in Key |-> 0]

Make(k) ==
    /\ outcome[k] = "unmade"
    /\ outcome' = [outcome EXCEPT ![k] = "pending"]
    /\ UNCHANGED done

Perform(k) ==
    /\ outcome[k] # "unmade"
    /\ done[k] = 0
    /\ done' = [done EXCEPT ![k] = 1]
    /\ UNCHANGED outcome

Succeed(k) ==
    /\ outcome[k] = "pending"
    /\ done[k] = 1
    /\ outcome' = [outcome EXCEPT ![k] = "success"]
    /\ UNCHANGED done

(* One loss of the connection gives up every call that is pending. *)
GiveUp(K) ==
    /\ \A k \in K : outcome[k] = "pending"
    /\ outcome' = [k \in Key |-> IF k \in K THEN "failure" ELSE outcome[k]]
    /\ UNCHANGED done

Next ==
    \/ \E k \in Key : Make(k) \/ Perform(k) \/ Succeed(k)
    \/ \E K \in SUBSET Key : GiveUp(K)

Spec == Init /\ [][Next]_vars
=============================================================================
