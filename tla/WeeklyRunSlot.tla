---------------------------- MODULE WeeklyRunSlot ----------------------------
(***************************************************************************)
(* The run-slot mutex of the weekly state machine                          *)
(* (infrastructure/step_function.json, states CheckMutexRole to            *)
(* TakeOverRunSlot and the ReleaseRunSlotBefore... ones) over its item in  *)
(* DynamoDB.  WeeklyRerun adds the operator's script that shares the item. *)
(*                                                                         *)
(* One slot is modelled: one state machine, role and run date.  FAILED     *)
(* stands for FAILED, TIMED_OUT and ABORTED, which every guard treats      *)
(* alike.  An ASL task and the transition after it are one step.           *)
(***************************************************************************)
EXTENDS Naturals

CONSTANTS Execution,   \* the cadence-role executions of this slot
          Free         \* no item under the slot's key

ASSUME FreeAssumption == Free \notin Execution

VARIABLES
    slot,      \* execution_arn of the mutex item, or Free
    status,    \* DescribeExecution of each execution
    pc,        \* the ASL state it is in
    seen,      \* $.mutex_holder: the holder it read
    held,      \* $.mutex_result is present
    retried    \* the one Retry of AcquireMutex / TakeOverRunSlot is spent

execVars == <<status, pc, seen, held, retried>>
vars == <<slot, execVars>>

Status == {"NONE", "RUNNING", "SUCCEEDED", "FAILED"}
Pc == {"idle", "AcquireMutex", "ReadRunSlotHolder", "DescribeRunSlotHolder",
       "TakeOverRunSlot", "work", "ReleaseRunSlot", "end"}

-----------------------------------------------------------------------------
Init ==
    /\ slot = Free
    /\ status = [e \in Execution |-> "NONE"]
    /\ pc = [e \in Execution |-> "idle"]
    /\ seen = [e \in Execution |-> Free]
    /\ held = [e \in Execution |-> FALSE]
    /\ retried = [e \in Execution |-> FALSE]

\* A trigger, its duplicate or a re-paste reaches CheckMutexRole with a
\* cadence role.
Start(e) ==
    /\ pc[e] = "idle"
    /\ pc' = [pc EXCEPT ![e] = "AcquireMutex"]
    /\ status' = [status EXCEPT ![e] = "RUNNING"]
    /\ UNCHANGED <<slot, seen, held, retried>>

\* The terminal states: what DescribeExecution says from then on.
End(e, s) ==
    /\ pc' = [pc EXCEPT ![e] = "end"]
    /\ status' = [status EXCEPT ![e] = s]
    /\ UNCHANGED <<seen, held, retried>>

\* Mutant of MutexConflict: it ends in a status no guard knows.
MutexConflictUnlisted(e) == End(e, "CONFLICT")

MutexConflict(e) == End(e, "FAILED")

Goto(e, state) ==
    /\ pc' = [pc EXCEPT ![e] = state]
    /\ retried' = [retried EXCEPT ![e] = FALSE]
    /\ UNCHANGED <<status, seen, held>>

\* The conditional PUT of AcquireMutex and TakeOverRunSlot succeeded.
Put(e) ==
    /\ slot' = e
    /\ pc' = [pc EXCEPT ![e] = "work"]
    /\ held' = [held EXCEPT ![e] = TRUE]
    /\ UNCHANGED <<status, seen, retried>>

\* A service error or a timeout of that PUT: the item may have been written
\* all the same.  The Retry tries once more, after it (or on any error it
\* does not list) States.ALL fails open past the mutex.
PutError(e, allowed) ==
    /\ \/ UNCHANGED slot
       \/ allowed /\ slot' = e
    /\ \/ /\ ~retried[e]
          /\ retried' = [retried EXCEPT ![e] = TRUE]
          /\ UNCHANGED <<status, pc, seen, held>>
       \/ Goto(e, "work")

AcquireMutex(e) ==
    /\ pc[e] = "AcquireMutex"
    /\ \/ slot = Free /\ Put(e)
       \/ slot # Free /\ Goto(e, "ReadRunSlotHolder") /\ UNCHANGED slot
       \/ PutError(e, slot = Free)

\* getItem, then CheckRunSlotHolderPresent.
ReadRunSlotHolder(e) ==
    /\ pc[e] = "ReadRunSlotHolder"
    /\ \/ /\ slot # Free
          /\ seen' = [seen EXCEPT ![e] = slot]
          /\ pc' = [pc EXCEPT ![e] = "DescribeRunSlotHolder"]
          /\ UNCHANGED <<status, held, retried>>
       \/ slot = Free /\ MutexConflict(e)
    /\ UNCHANGED slot

\* Mutant of DescribeRunSlotHolder: every status but SUCCEEDED is taken over.
TakeFromUnsucceeded(e) ==
    /\ pc[e] = "DescribeRunSlotHolder"
    /\ \/ status[seen[e]] # "SUCCEEDED" /\ Goto(e, "TakeOverRunSlot")
       \/ status[seen[e]] = "SUCCEEDED" /\ MutexConflict(e)
    /\ UNCHANGED slot

\* Mutant of DescribeRunSlotHolder: every status but RUNNING is taken over.
TakeFromEnded(e) ==
    /\ pc[e] = "DescribeRunSlotHolder"
    /\ \/ status[seen[e]] # "RUNNING" /\ Goto(e, "TakeOverRunSlot")
       \/ status[seen[e]] = "RUNNING" /\ MutexConflict(e)
    /\ UNCHANGED slot

\* describeExecution, then CheckRunSlotHolderTerminal.
DescribeRunSlotHolder(e) ==
    /\ pc[e] = "DescribeRunSlotHolder"
    /\ \/ status[seen[e]] = "FAILED" /\ Goto(e, "TakeOverRunSlot")
       \/ status[seen[e]] # "FAILED" /\ MutexConflict(e)
    /\ UNCHANGED slot

\* The Catch of ReadRunSlotHolder and DescribeRunSlotHolder.
HolderUnreadable(e) ==
    /\ pc[e] \in {"ReadRunSlotHolder", "DescribeRunSlotHolder"}
    /\ MutexConflict(e)
    /\ UNCHANGED slot

\* Mutant of TakeOverRunSlot: the PUT has no condition on the holder read.
TakeOverUnconditionally(e) ==
    /\ pc[e] = "TakeOverRunSlot"
    /\ Put(e) \/ PutError(e, TRUE)

TakeOverRunSlot(e) ==
    /\ pc[e] = "TakeOverRunSlot"
    /\ LET mayPut == slot \in {Free, seen[e]}
       IN  \/ mayPut /\ Put(e)
           \/ ~mayPut /\ MutexConflict(e) /\ UNCHANGED slot
           \/ PutError(e, mayPut)

\* The pipeline's work ends in one of its Succeed terminals.  A run whose
\* mutex failed open is degraded: its terminal is DegradedRun, a Fail.
Succeed(e) ==
    /\ pc[e] = "work" /\ held[e]
    /\ End(e, "SUCCEEDED")
    /\ UNCHANGED slot

\* FailExecution, VacuousRun or DegradedRun is next:
\* CheckRunSlotHeldBefore... releases only a slot this execution acquired.
FailTerminal(e) ==
    /\ pc[e] = "work"
    /\ \/ held[e] /\ Goto(e, "ReleaseRunSlot")
       \/ ~held[e] /\ End(e, "FAILED")
    /\ UNCHANGED slot

\* deleteItem on the condition execution_arn = me; its Catch goes on to the
\* same terminal, with the item deleted or not.
ReleaseRunSlot(e) ==
    /\ pc[e] = "ReleaseRunSlot"
    /\ \/ slot = e /\ slot' = Free
       \/ UNCHANGED slot
    /\ End(e, "FAILED")

\* Aborted, or over TimeoutSeconds (12 hours): nothing is released.
Abort(e) ==
    /\ status[e] = "RUNNING"
    /\ End(e, "FAILED")
    /\ UNCHANGED slot

\* Mutant of Expire: a ttl_epoch shorter than an execution may last.
ExpireEarly ==
    /\ slot # Free
    /\ slot' = Free
    /\ UNCHANGED <<execVars>>

\* ttl_epoch is 24 hours after the holder's start, and no execution outlives
\* its 12-hour TimeoutSeconds: the table expires items of ended holders.
Expire ==
    /\ slot # Free
    /\ status[slot] \in {"SUCCEEDED", "FAILED"}
    /\ slot' = Free
    /\ UNCHANGED <<execVars>>

-----------------------------------------------------------------------------
ExecutionStep(e) ==
    \/ Start(e) \/ AcquireMutex(e) \/ ReadRunSlotHolder(e)
    \/ DescribeRunSlotHolder(e) \/ HolderUnreadable(e) \/ TakeOverRunSlot(e)
    \/ Succeed(e) \/ FailTerminal(e) \/ ReleaseRunSlot(e) \/ Abort(e)

Next == \/ \E e \in Execution : ExecutionStep(e)
        \/ Expire

Spec == Init /\ [][Next]_vars

-----------------------------------------------------------------------------
(* Properties *)

\* The type of every variable.
TypeOK ==
    /\ slot \in Execution \cup {Free}
    /\ status \in [Execution -> Status]
    /\ pc \in [Execution -> Pc]
    /\ seen \in [Execution -> Execution \cup {Free}]
    /\ held \in [Execution -> BOOLEAN]
    /\ retried \in [Execution -> BOOLEAN]

\* At most one execution works believing it holds the slot (its state has
\* $.mutex_result), however acquires, takeovers, releases, aborts and
\* expiries interleave.
MutualExclusion ==
    \A e, f \in Execution :
        /\ status[e] = "RUNNING" /\ held[e]
        /\ status[f] = "RUNNING" /\ held[f]
        => e = f

\* The item of a RUNNING holder is removed or replaced by nobody but itself:
\* "never steal from, or rerun beside, a live execution"
\* (scripts/weekly_sf_rerun.py:73).
LiveHolderKeepsSlot ==
    [][\A e \in Execution :
         slot = e /\ status[e] = "RUNNING" /\ slot' # e
            => status'[e] # "RUNNING"]_vars

\* A slot whose execution SUCCEEDED refuses later duplicates: until it
\* expires nobody else gets to work holding the slot.
SucceededSlotRefuses ==
    [][\A e, f \in Execution :
         slot = e /\ status[e] = "SUCCEEDED" /\ ~held[f] => ~held'[f]]_vars

\* The mechanism keeps the promise of the abstract run-slot.
PhaseOf(e) ==
    IF status[e] = "RUNNING"
      THEN IF slot = e THEN "in"
           ELSE IF pc[e] = "work" THEN "unchecked" ELSE "out"
      ELSE IF status[e] = "SUCCEEDED" THEN "succeeded"
      ELSE IF status[e] = "FAILED" THEN "failed" ELSE "out"

phase == [e \in Execution |-> PhaseOf(e)]

Abstract == INSTANCE RunSlot WITH owner <- slot, phase <- phase

\* Every run of the mechanism is a run of RunSlot: whoever works either owns
\* the slot or is visibly unchecked, and ownership moves only as it allows.
ImplementsRunSlot == Abstract!Spec
=============================================================================
