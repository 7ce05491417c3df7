------------------------------- MODULE RunSlot -------------------------------
(***************************************************************************)
(* What the weekly pipeline's run-slot promises, without the mechanism.    *)
(* Of the cadence executions of one slot (state machine, role, run date)   *)
(* at most one is `in`: it owns the slot.  A failed owner can be replaced, *)
(* a live one cannot, and one that succeeded keeps the slot until it is    *)
(* forgotten.  An execution may also run `unchecked` (the mutex store was  *)
(* unavailable and the pipeline fails open).                               *)
(***************************************************************************)
CONSTANTS Execution, Free    \* Free is not an execution

VARIABLES owner, phase

Phase == {"out", "in", "unchecked", "succeeded", "failed"}
Ended == {"succeeded", "failed"}

Init == /\ owner = Free
        /\ phase = [e \in Execution |-> "out"]

\* A free slot is entered, or one whose owner failed.
Enter(e) ==
    /\ phase[e] = "out"
    /\ owner # Free => phase[owner] = "failed"
    /\ owner' = e
    /\ phase' = [phase EXCEPT ![e] = "in"]

RunUnchecked(e) ==
    /\ phase[e] = "out"
    /\ phase' = [phase EXCEPT ![e] = "unchecked"]
    /\ UNCHANGED owner

\* The slot's work is complete: the owner keeps it.
Succeed(e) ==
    /\ phase[e] \in {"in", "unchecked"}
    /\ phase' = [phase EXCEPT ![e] = "succeeded"]
    /\ UNCHANGED owner

\* A refused or failed execution; its slot may be given back.
Fail(e) ==
    /\ phase[e] \notin Ended
    /\ phase' = [phase EXCEPT ![e] = "failed"]
    /\ \/ UNCHANGED owner
       \/ owner = e /\ owner' = Free

\* The record of an owner that ended expires.
Forget ==
    /\ owner # Free
    /\ phase[owner] \in Ended
    /\ owner' = Free
    /\ UNCHANGED phase

Next == \/ \E e \in Execution : Enter(e) \/ RunUnchecked(e)
                                         \/ Succeed(e) \/ Fail(e)
        \/ Forget

Spec == Init /\ [][Next]_<<owner, phase>>
=============================================================================
