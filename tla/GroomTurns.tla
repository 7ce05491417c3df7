------------------------------ MODULE GroomTurns ------------------------------
(***************************************************************************)
(* What the groom promises about whose turn it is, without leases, probes, *)
(* task tokens and ledgers.  Cycles come to the lane in the order in which *)
(* they were started, each when every earlier one is through, or pass.  At *)
(* its turn a cycle brings at most one box into the lane, and a box comes  *)
(* in only while no other is there.  A box without a cycle (a rescue       *)
(* launch) needs the empty lane too.  A box may be lost on its way: it     *)
(* never gets to the lane, and its cycle brings no other.  Nobody comes    *)
(* back.                                                                   *)
(***************************************************************************)
EXTENDS Naturals

CONSTANTS MaxExecution, Run, None    \* None is neither a cycle nor a run

Execution == 1..MaxExecution

VARIABLES
    turn,    \* per Execution: "before", "lane", "after"
    place,   \* per Run: its box is "out", "in" the lane or "left"
    sender   \* per Run: the cycle whose box it is, or None

Init ==
    /\ turn = [e \in Execution |-> "before"]
    /\ place = [r \in Run |-> "out"]
    /\ sender = [r \in Run |-> None]

Enter(e) ==
    /\ turn[e] = "before"
    /\ \A f \in 1..(e - 1) : turn[f] = "after"
    /\ turn' = [turn EXCEPT ![e] = "lane"]
    /\ UNCHANGED <<place, sender>>

\* A cycle is through, whether it had its turn or not.
Pass(e) ==
    /\ turn[e] # "after"
    /\ turn' = [turn EXCEPT ![e] = "after"]
    /\ UNCHANGED <<place, sender>>

\* A box is sent, for the cycle whose turn it is or for none.
Send(r, e) ==
    /\ place[r] = "out"
    /\ e # None => turn[e] = "lane" /\ \A q \in Run : sender[q] # e
    /\ sender' = [sender EXCEPT ![r] = e]
    /\ UNCHANGED turn

\* It comes into the empty lane.
Bring(r, e) ==
    /\ Send(r, e)
    /\ \A q \in Run : place[q] # "in"
    /\ place' = [place EXCEPT ![r] = "in"]

\* It is lost.
Lose(r, e) ==
    /\ Send(r, e)
    /\ place' = [place EXCEPT ![r] = "left"]

Leave(r) ==
    /\ place[r] = "in"
    /\ place' = [place EXCEPT ![r] = "left"]
    /\ UNCHANGED <<turn, sender>>

Next == \/ \E e \in Execution : Enter(e) \/ Pass(e)
        \/ \E r \in Run : Leave(r)
        \/ \E r \in Run, e \in Execution \cup {None} : Bring(r, e) \/ Lose(r, e)

Spec == Init /\ [][Next]_<<turn, place, sender>>
=============================================================================
