------------------------- MODULE WeeklyRunSlotProofs -------------------------
(***************************************************************************)
(* For any number of cadence executions of a run-slot: the mutex keeps its *)
(* type, lets at most one holder work, is never taken from a live holder,  *)
(* refuses while a succeeded one keeps it, and implements RunSlot.         *)
(*                                                                         *)
(* The inductive invariant says why: a holder at work is what the item     *)
(* names, and whoever is about to take the slot over has seen a holder     *)
(* whose FAILED status can no longer change.  The second half of the       *)
(* module puts the operator's script beside the executions.                *)
(***************************************************************************)
EXTENDS WeeklyRerun, TLAPS

\* The program counter and DescribeExecution agree.
StatusFollowsPc ==
    \A e \in Execution :
        /\ pc[e] = "idle" <=> status[e] = "NONE"
        /\ pc[e] = "end" <=> status[e] \in {"SUCCEEDED", "FAILED"}
        /\ status[e] = "NONE" => ~held[e]

\* The item names an execution that has started.
SlotNamesStarted == slot # Free => status[slot] # "NONE"

\* A described holder is an execution; one to be taken over has failed.
SeenHolder ==
    \A e \in Execution :
        /\ pc[e] = "DescribeRunSlotHolder" =>
              seen[e] \in Execution /\ status[seen[e]] # "NONE"
        /\ pc[e] = "TakeOverRunSlot" =>
              seen[e] \in Execution /\ status[seen[e]] = "FAILED"

\* The item names every holder at work.
HolderInSlot ==
    \A e \in Execution : status[e] = "RUNNING" /\ held[e] => slot = e

IInv == /\ TypeOK
        /\ StatusFollowsPc /\ SlotNamesStarted /\ SeenHolder /\ HolderInSlot

-----------------------------------------------------------------------------
LEMMA InitIInv == Init => IInv
  BY FreeAssumption DEF Init, IInv, TypeOK, StatusFollowsPc, SlotNamesStarted,
     SeenHolder, HolderInSlot, Status, Pc

USE DEF IInv, TypeOK, Status, Pc

LEMMA ExecutionStepType ==
    ASSUME TypeOK, NEW e \in Execution, ExecutionStep(e)
    PROVE  TypeOK'
<1>1. CASE Start(e)
  BY <1>1 DEF Start
<1>2. CASE AcquireMutex(e)
  BY <1>2 DEF AcquireMutex, Put, Goto, PutError
<1>3. CASE ReadRunSlotHolder(e)
  BY <1>3 DEF ReadRunSlotHolder, MutexConflict, End
<1>4. CASE DescribeRunSlotHolder(e)
  BY <1>4 DEF DescribeRunSlotHolder, MutexConflict, End, Goto
<1>5. CASE HolderUnreadable(e)
  BY <1>5 DEF HolderUnreadable, MutexConflict, End
<1>6. CASE TakeOverRunSlot(e)
  BY <1>6 DEF TakeOverRunSlot, MutexConflict, End, Put, PutError, Goto
<1>7. CASE Succeed(e)
  BY <1>7 DEF Succeed, End
<1>8. CASE FailTerminal(e)
  BY <1>8 DEF FailTerminal, End, Goto
<1>9. CASE ReleaseRunSlot(e)
  BY <1>9 DEF ReleaseRunSlot, End
<1>10. CASE Abort(e)
  BY <1>10 DEF Abort, End
<1> QED
  BY <1>1, <1>2, <1>3, <1>4, <1>5, <1>6, <1>7, <1>8, <1>9, <1>10
     DEF ExecutionStep

LEMMA ExecutionStepStatus ==
    ASSUME IInv, NEW e \in Execution, ExecutionStep(e)
    PROVE  /\ StatusFollowsPc'
           /\ \A f \in Execution : status[f] # "NONE" => status'[f] # "NONE"
           /\ \A f \in Execution : status[f] = "FAILED" => status'[f] = "FAILED"
  BY DEF StatusFollowsPc, ExecutionStep, Start, AcquireMutex, ReadRunSlotHolder,
     DescribeRunSlotHolder, HolderUnreadable, TakeOverRunSlot, Succeed,
     FailTerminal, ReleaseRunSlot, Abort, MutexConflict, End, Put, PutError,
     Goto

LEMMA ExecutionStepIInv ==
    ASSUME IInv, NEW e \in Execution, ExecutionStep(e)
    PROVE  IInv'
<1>1. TypeOK' /\ StatusFollowsPc'
  BY ExecutionStepType, ExecutionStepStatus
<1>2. SlotNamesStarted'
  BY <1>1, ExecutionStepStatus, FreeAssumption
     DEF SlotNamesStarted, StatusFollowsPc, ExecutionStep, Start, AcquireMutex, ReadRunSlotHolder,
     DescribeRunSlotHolder, HolderUnreadable, TakeOverRunSlot, Succeed,
     FailTerminal, ReleaseRunSlot, Abort, MutexConflict, End, Put, PutError,
     Goto
<1>3. SeenHolder'
  BY <1>1, ExecutionStepStatus, FreeAssumption
     DEF SeenHolder, SlotNamesStarted, ExecutionStep, Start, AcquireMutex, ReadRunSlotHolder,
     DescribeRunSlotHolder, HolderUnreadable, TakeOverRunSlot, Succeed,
     FailTerminal, ReleaseRunSlot, Abort, MutexConflict, End, Put, PutError,
     Goto
<1>4. HolderInSlot'
  BY <1>1, ExecutionStepStatus, FreeAssumption
     DEF SeenHolder, HolderInSlot, StatusFollowsPc,
     ExecutionStep, Start, AcquireMutex, ReadRunSlotHolder,
     DescribeRunSlotHolder, HolderUnreadable, TakeOverRunSlot, Succeed,
     FailTerminal, ReleaseRunSlot, Abort, MutexConflict, End, Put, PutError,
     Goto
<1> QED
  BY <1>1, <1>2, <1>3, <1>4

LEMMA NextIInv == IInv /\ [Next]_vars => IInv'
<1> SUFFICES ASSUME IInv, [Next]_vars PROVE IInv'
  OBVIOUS
<1>1. CASE \E e \in Execution : ExecutionStep(e)
  BY <1>1, ExecutionStepIInv
<1>2. CASE Expire
  BY <1>2 DEF Expire, execVars, StatusFollowsPc, SlotNamesStarted, SeenHolder,
     HolderInSlot
<1>3. CASE UNCHANGED vars
  BY <1>3 DEF vars, execVars, StatusFollowsPc, SlotNamesStarted, SeenHolder,
     HolderInSlot
<1> QED
  BY <1>1, <1>2, <1>3 DEF Next

\* The inductive invariant holds in every run.
THEOREM InductiveInvariant == Spec => []IInv
<1> QED
  BY InitIInv, NextIInv, PTL DEF Spec

\* Every variable keeps its type.
THEOREM TypeCorrect == Spec => []TypeOK
<1>1. IInv => TypeOK
  OBVIOUS
<1> QED
  BY <1>1, InductiveInvariant, PTL

\* At most one execution works believing it holds the slot: two would both
\* be the one that the item names.
THEOREM MutualExclusionHolds == Spec => []MutualExclusion
<1>1. IInv => MutualExclusion
  BY DEF MutualExclusion, HolderInSlot
<1> QED
  BY <1>1, InductiveInvariant, PTL

-----------------------------------------------------------------------------
\* One step: the item leaves a RUNNING holder only as that holder ends.
Keeps == \A e \in Execution :
            slot = e /\ status[e] = "RUNNING" /\ slot' # e
               => status'[e] # "RUNNING"

LEMMA NextKeeps == IInv /\ [Next]_vars => Keeps
<1> SUFFICES ASSUME IInv, [Next]_vars,
                    NEW h \in Execution, slot = h, status[h] = "RUNNING",
                    slot' # h
             PROVE  status'[h] # "RUNNING"
  BY DEF Keeps
<1>1. ASSUME NEW e \in Execution, ExecutionStep(e)
      PROVE  status'[h] # "RUNNING"
  BY <1>1, FreeAssumption
     DEF ExecutionStep, Start, AcquireMutex, ReadRunSlotHolder,
         DescribeRunSlotHolder, HolderUnreadable, TakeOverRunSlot, Succeed,
         FailTerminal, ReleaseRunSlot, Abort, MutexConflict, End, Put,
         PutError, Goto, SeenHolder
<1>2. ASSUME Expire PROVE status'[h] # "RUNNING"
  BY <1>2 DEF Expire
<1> QED
  BY <1>1, <1>2 DEF Next, vars

\* The item leaves a RUNNING holder only in the step that ends it.
THEOREM LiveHolderKeepsSlotHolds == Spec => LiveHolderKeepsSlot
<1>1. IInv /\ [Next]_vars => [Keeps]_vars
  BY NextKeeps
<1> QED
  BY <1>1, InductiveInvariant, PTL DEF Spec, LiveHolderKeepsSlot, Keeps

\* One step: nobody comes to hold a slot that names a SUCCEEDED execution.
Refuses == \A e, f \in Execution :
              slot = e /\ status[e] = "SUCCEEDED" /\ ~held[f] => ~held'[f]

LEMMA NextRefuses == IInv /\ [Next]_vars => Refuses
<1> SUFFICES ASSUME IInv, [Next]_vars,
                    NEW h \in Execution, slot = h, status[h] = "SUCCEEDED",
                    NEW f \in Execution, ~held[f]
             PROVE  ~held'[f]
  BY DEF Refuses
<1>1. ASSUME NEW e \in Execution, ExecutionStep(e) PROVE ~held'[f]
  BY <1>1, FreeAssumption
     DEF ExecutionStep, Start, AcquireMutex, ReadRunSlotHolder,
         DescribeRunSlotHolder, HolderUnreadable, TakeOverRunSlot, Succeed,
         FailTerminal, ReleaseRunSlot, Abort, MutexConflict, End, Put,
         PutError, Goto, SeenHolder
<1>2. ASSUME Expire PROVE ~held'[f]
  BY <1>2 DEF Expire, execVars
<1> QED
  BY <1>1, <1>2 DEF Next, vars, execVars

\* Nobody comes to hold a slot whose item names a SUCCEEDED execution.
THEOREM SucceededSlotRefusesHolds == Spec => SucceededSlotRefuses
<1>1. IInv /\ [Next]_vars => [Refuses]_vars
  BY NextRefuses
<1> QED
  BY <1>1, InductiveInvariant, PTL DEF Spec, SucceededSlotRefuses, Refuses

-----------------------------------------------------------------------------
(* Refinement *)

LEMMA InitRefines == Init => Abstract!Init
  BY DEF Init, Abstract!Init, phase, PhaseOf

LEMMA PhaseChange ==
    ASSUME NEW e \in Execution,
           \A f \in Execution \ {e} : PhaseOf(f)' = PhaseOf(f)
    PROVE  phase' = [phase EXCEPT ![e] = PhaseOf(e)']
  BY DEF phase

\* What a step of e does to its phase and to the slot.
StutterOf(e) == PhaseOf(e)' = PhaseOf(e) /\ slot' = slot
EnterOf(e) == /\ PhaseOf(e) = "out" /\ PhaseOf(e)' = "in" /\ slot' = e
              /\ slot # Free => status[slot] = "FAILED"
UncheckedOf(e) ==
    PhaseOf(e) = "out" /\ PhaseOf(e)' = "unchecked" /\ slot' = slot
SucceedOf(e) == /\ PhaseOf(e) \in {"in", "unchecked"}
                /\ PhaseOf(e)' = "succeeded" /\ slot' = slot
FailOf(e) == /\ PhaseOf(e) \notin {"succeeded", "failed"}
             /\ PhaseOf(e)' = "failed"
             /\ slot' = slot \/ (slot = e /\ slot' = Free)

LEMMA StepOfPhase ==
    ASSUME IInv, NEW e \in Execution, ExecutionStep(e)
    PROVE  StutterOf(e) \/ EnterOf(e) \/ UncheckedOf(e) \/ SucceedOf(e)
              \/ FailOf(e)
<1> USE FreeAssumption DEF PhaseOf, StatusFollowsPc, SlotNamesStarted,
        SeenHolder, HolderInSlot
<1>1. CASE Start(e)
  BY <1>1 DEF Start, StutterOf
<1>2. CASE AcquireMutex(e)
  BY <1>2 DEF AcquireMutex, Put, PutError, Goto, StutterOf, EnterOf,
     UncheckedOf
<1>3. CASE ReadRunSlotHolder(e) \/ DescribeRunSlotHolder(e)
              \/ HolderUnreadable(e)
  BY <1>3 DEF ReadRunSlotHolder, DescribeRunSlotHolder, HolderUnreadable,
     MutexConflict, End, Goto, StutterOf, FailOf
<1>4. CASE TakeOverRunSlot(e)
  BY <1>4 DEF TakeOverRunSlot, MutexConflict, End, Put, PutError, Goto,
     StutterOf, EnterOf, UncheckedOf, FailOf
<1>5. CASE Succeed(e)
  BY <1>5 DEF Succeed, End, SucceedOf
<1>6. CASE FailTerminal(e) \/ ReleaseRunSlot(e) \/ Abort(e)
  BY <1>6 DEF FailTerminal, ReleaseRunSlot, Abort, End, Goto, StutterOf, FailOf
<1> QED
  BY <1>1, <1>2, <1>3, <1>4, <1>5, <1>6 DEF ExecutionStep

LEMMA ExecutionStepRefines ==
    ASSUME IInv, NEW e \in Execution, ExecutionStep(e)
    PROVE  [Abstract!Next]_<<slot, phase>>
<1>1. \A f \in Execution \ {e} : PhaseOf(f)' = PhaseOf(f)
  BY FreeAssumption
     DEF PhaseOf, SeenHolder, ExecutionStep, Start, AcquireMutex, ReadRunSlotHolder,
         DescribeRunSlotHolder, HolderUnreadable, TakeOverRunSlot, Succeed,
         FailTerminal, ReleaseRunSlot, Abort, MutexConflict, End, Put,
         PutError, Goto
<1>2. phase' = [phase EXCEPT ![e] = PhaseOf(e)']
  BY <1>1, PhaseChange
<1>3. phase[e] = PhaseOf(e) /\ phase = [phase EXCEPT ![e] = PhaseOf(e)]
  BY DEF phase
<1>4. CASE StutterOf(e)
  BY <1>2, <1>3, <1>4 DEF StutterOf
<1>5. CASE EnterOf(e)
  <2>1. slot # Free => phase[slot] = "failed"
    BY <1>5 DEF EnterOf, phase, PhaseOf
  <2>2. Abstract!Enter(e)
    BY <2>1, <1>2, <1>3, <1>5 DEF EnterOf, Abstract!Enter
  <2> QED
    BY <2>2 DEF Abstract!Next
<1>6. CASE UncheckedOf(e)
  BY <1>2, <1>3, <1>6 DEF UncheckedOf, Abstract!Next, Abstract!RunUnchecked
<1>7. CASE SucceedOf(e)
  BY <1>2, <1>3, <1>7 DEF SucceedOf, Abstract!Next, Abstract!Succeed
<1>8. CASE FailOf(e)
  BY <1>2, <1>3, <1>8 DEF FailOf, Abstract!Next, Abstract!Fail, Abstract!Ended
<1> QED
  BY StepOfPhase, <1>4, <1>5, <1>6, <1>7, <1>8

LEMMA NextRefines ==
    IInv /\ [Next]_vars => [Abstract!Next]_<<slot, phase>>
<1> SUFFICES ASSUME IInv, [Next]_vars
             PROVE  [Abstract!Next]_<<slot, phase>>
  OBVIOUS
<1>1. CASE \E e \in Execution : ExecutionStep(e)
  BY <1>1, ExecutionStepRefines
<1>2. CASE Expire
  <2>1. \A f \in Execution : PhaseOf(f)' = PhaseOf(f)
    BY <1>2, FreeAssumption DEF Expire, execVars, PhaseOf
  <2>2. phase' = phase
    BY <2>1 DEF phase
  <2>3. phase[slot] \in {"succeeded", "failed"}
    BY <1>2 DEF Expire, phase, PhaseOf
  <2> QED
    BY <1>2, <2>2, <2>3 DEF Expire, Abstract!Next, Abstract!Forget,
       Abstract!Ended
<1>3. CASE UNCHANGED vars
  <2>1. \A f \in Execution : PhaseOf(f)' = PhaseOf(f)
    BY <1>3 DEF vars, execVars, PhaseOf
  <2> QED
    BY <1>3, <2>1 DEF vars, phase
<1> QED
  BY <1>1, <1>2, <1>3 DEF Next

\* The mutex implements the abstract run-slot.
THEOREM RunSlotImplemented == Spec => ImplementsRunSlot
<1> QED
  BY InitRefines, NextRefines, InductiveInvariant, PTL
     DEF Spec, ImplementsRunSlot, Abstract!Spec

-----------------------------------------------------------------------------
(***************************************************************************)
(* The run-slot with the operator's script beside it, for any number of    *)
(* cadence executions and of script invocations: when the operator attends *)
(* the re-run (nothing starts a cadence execution of the slot between the  *)
(* script's first read and its start), the script's deletion of the item   *)
(* by key keeps every promise of the mutex.                                *)
(*                                                                         *)
(* The argument: past the script's guard no cadence execution is RUNNING,  *)
(* and none can start; an item deleted then is the item of an ended one.   *)
(***************************************************************************)
ScriptTypeOK == /\ rpc \in [Rerun -> RerunPc]
                /\ rseen \in [Rerun -> Execution \cup {Free}]

NoneRunning == \A e \in Execution : status[e] # "RUNNING"

\* Past the guard, nobody of the slot is at work.
QuietPastGuard == \A k \in Rerun : rpc[k] \in {"steal", "start"} => NoneRunning

RInv == IInv /\ ScriptTypeOK /\ QuietPastGuard

USE DEF IInv, TypeOK, Status, Pc

LEMMA InitRInv == RerunInit => RInv
  BY InitIInv DEF RerunInit, RInv, ScriptTypeOK, RerunPc, QuietPastGuard

\* A step of the composition is a step of the mutex, a stutter of it, or the
\* deletion of the item while nobody is at work.
LEMMA RerunStep ==
    ASSUME RInv, [RerunNext]_allVars
    PROVE  [Next]_vars \/ (NoneRunning /\ slot' = Free /\ UNCHANGED execVars)
<1>1. ASSUME NEW e \in Execution, StartBeside(e) \/ Proceed(e) PROVE Next
  BY <1>1 DEF StartBeside, Proceed, ExecutionStep, Next
<1>2. ASSUME NEW k \in Rerun, Steal(k)
      PROVE  NoneRunning /\ slot' = Free /\ UNCHANGED execVars
  BY <1>2 DEF Steal, StealMutex, RInv, QuietPastGuard
<1> QED
  BY <1>1, <1>2 DEF RerunNext, ReadOrStart, ExpireBeside, Next, allVars

\* Deleting the item while nobody is at work.
LEMMA DeletedIInv ==
    ASSUME IInv, NoneRunning, slot' = Free, UNCHANGED execVars
    PROVE  IInv' /\ Keeps /\ Refuses
  BY FreeAssumption DEF NoneRunning, execVars, StatusFollowsPc,
     SlotNamesStarted, SeenHolder, HolderInSlot, Keeps, Refuses

LEMMA ScriptTypes ==
    ASSUME RInv, [RerunNext]_allVars
    PROVE  ScriptTypeOK'
<1>1. ASSUME NEW k \in Rerun, ReadOrStart(k) PROVE ScriptTypeOK'
  BY <1>1 DEF RInv, ScriptTypeOK, RerunPc, ReadOrStart, InspectMutex,
     DecideMutexAction, GuardRunning, StartRerun, EndRerun
<1>2. ASSUME NEW k \in Rerun, Steal(k) PROVE ScriptTypeOK'
  BY <1>2 DEF RInv, ScriptTypeOK, RerunPc, Steal, StealMutex
<1>3. CASE UNCHANGED rerunVars
  BY <1>3 DEF RInv, ScriptTypeOK, rerunVars
<1> QED
  BY <1>1, <1>2, <1>3
     DEF RerunNext, StartBeside, Proceed, ExpireBeside, allVars

\* Only Start sets an execution RUNNING, and it waits for the script.
LEMMA QuietStays ==
    ASSUME Attended, RInv, [RerunNext]_allVars
    PROVE  QuietPastGuard'
<1> USE DEF RInv, ScriptTypeOK, QuietPastGuard, NoneRunning
<1>1. ASSUME NEW e \in Execution, StartBeside(e) PROVE QuietPastGuard'
  BY <1>1 DEF StartBeside, Start, AtWork, rerunVars
<1>2. ASSUME NEW e \in Execution, Proceed(e) PROVE QuietPastGuard'
  <2>1. \A f \in Execution : status'[f] = "RUNNING" => status[f] = "RUNNING"
    BY <1>2 DEF Proceed, ExecutionStep, Start, AcquireMutex,
       ReadRunSlotHolder, DescribeRunSlotHolder, HolderUnreadable,
       TakeOverRunSlot, Succeed, FailTerminal, ReleaseRunSlot, Abort,
       MutexConflict, End, Put, PutError, Goto
  <2> QED
    BY <1>2, <2>1 DEF Proceed, rerunVars
<1>3. ASSUME NEW k \in Rerun, ReadOrStart(k) \/ Steal(k) PROVE QuietPastGuard'
  <2>1. status' = status
    BY <1>3 DEF ReadOrStart, Steal, vars, execVars
  <2>2. rpc'[k] \in {"steal", "start"} => NoneRunning
    BY <1>3 DEF ReadOrStart, Steal, InspectMutex, DecideMutexAction,
       GuardRunning, StealMutex, StartRerun, EndRerun
  <2>3. \A j \in Rerun \ {k} : rpc'[j] = rpc[j]
    BY <1>3 DEF ReadOrStart, Steal, InspectMutex, DecideMutexAction,
       GuardRunning, StealMutex, StartRerun, EndRerun
  <2> QED
    BY <2>1, <2>2, <2>3
<1>4. CASE ExpireBeside \/ UNCHANGED allVars
  BY <1>4 DEF ExpireBeside, Expire, execVars, rerunVars, allVars, vars
<1> QED
  BY <1>1, <1>2, <1>3, <1>4 DEF RerunNext

LEMMA NextRInv == ASSUME Attended PROVE RInv /\ [RerunNext]_allVars => RInv'
  BY RerunStep, DeletedIInv, NextIInv, ScriptTypes, QuietStays DEF RInv

LEMMA RerunInvariant == ASSUME Attended PROVE RerunSpec => []RInv
  BY InitRInv, NextRInv, PTL DEF RerunSpec

-----------------------------------------------------------------------------
LEMMA NextRerunTypeOK == RerunTypeOK /\ [RerunNext]_allVars => RerunTypeOK'
<1> SUFFICES ASSUME RerunTypeOK, [RerunNext]_allVars PROVE RerunTypeOK'
  OBVIOUS
<1> USE DEF RerunTypeOK, RerunPc
<1>1. ASSUME NEW e \in Execution, StartBeside(e) \/ Proceed(e)
      PROVE  RerunTypeOK'
  <2>1. ExecutionStep(e) /\ UNCHANGED rerunVars
    BY <1>1 DEF StartBeside, Proceed, ExecutionStep
  <2>2. TypeOK'
    BY <2>1, ExecutionStepType
  <2> QED
    BY <2>1, <2>2 DEF rerunVars
<1>2. ASSUME NEW k \in Rerun, ReadOrStart(k) PROVE RerunTypeOK'
  BY <1>2 DEF ReadOrStart, InspectMutex, DecideMutexAction, GuardRunning,
     StartRerun, EndRerun, vars, execVars
<1>3. ASSUME NEW k \in Rerun, Steal(k) PROVE RerunTypeOK'
  BY <1>3 DEF Steal, StealMutex, execVars
<1>4. CASE ExpireBeside \/ UNCHANGED allVars
  BY <1>4 DEF ExpireBeside, Expire, execVars, rerunVars, allVars, vars
<1> QED
  BY <1>1, <1>2, <1>3, <1>4 DEF RerunNext

\* Every variable keeps its type, the script's included, attended or not.
THEOREM RerunTypeCorrect == RerunSpec => []RerunTypeOK
<1>1. RerunInit => RerunTypeOK
  BY InitRInv DEF RInv, ScriptTypeOK, RerunTypeOK
<1> QED
  BY <1>1, NextRerunTypeOK, PTL DEF RerunSpec

\* With scripts that delete the item, still at most one execution works
\* believing it holds the slot.
THEOREM ExclusionBesideRerun ==
    ASSUME Attended PROVE RerunSpec => []MutualExclusion
<1>1. RInv => MutualExclusion
  BY DEF RInv, HolderInSlot, MutualExclusion
<1> QED
  BY <1>1, RerunInvariant, PTL

\* Neither a pipeline nor a script takes the item from a RUNNING holder.
THEOREM RerunNeverSteals ==
    ASSUME Attended PROVE RerunSpec => LiveHolderKeepsSlot
<1>1. RInv /\ [RerunNext]_allVars => [Keeps]_vars
  BY RerunStep, DeletedIInv, NextKeeps DEF RInv
<1> QED
  BY <1>1, RerunInvariant, PTL DEF RerunSpec, LiveHolderKeepsSlot, Keeps

\* A script's deletion lets nobody in beside a SUCCEEDED holder's item.
THEOREM RerunSlotRefuses ==
    ASSUME Attended PROVE RerunSpec => SucceededSlotRefuses
<1>1. RInv /\ [RerunNext]_allVars => [Refuses]_vars
  BY RerunStep, DeletedIInv, NextRefuses DEF RInv
<1> QED
  BY <1>1, RerunInvariant, PTL DEF RerunSpec, SucceededSlotRefuses, Refuses

\* The composition implements the abstract run-slot: a script's deletion is
\* its Forget.
THEOREM RerunImplementsRunSlot ==
    ASSUME Attended PROVE RerunSpec => ImplementsRunSlot
<1>1. RerunInit => Abstract!Init
  BY InitRefines DEF RerunInit
<1>2. ASSUME RInv, NoneRunning, slot' = Free, UNCHANGED execVars
      PROVE  [Abstract!Next]_<<slot, phase>>
  <2>1. \A f \in Execution : PhaseOf(f)' = PhaseOf(f)
    BY <1>2, FreeAssumption DEF NoneRunning, execVars, PhaseOf
  <2>2. phase' = phase
    BY <2>1 DEF phase
  <2>3. slot # Free => phase[slot] \in {"succeeded", "failed"}
    BY <1>2 DEF RInv, NoneRunning, SlotNamesStarted, phase, PhaseOf
  <2>4. CASE slot = Free
    BY <1>2, <2>2, <2>4
  <2>5. CASE slot # Free
    BY <1>2, <2>2, <2>3, <2>5
       DEF Abstract!Next, Abstract!Forget, Abstract!Ended
  <2> QED
    BY <2>4, <2>5
<1>3. RInv /\ [RerunNext]_allVars => [Abstract!Next]_<<slot, phase>>
  BY <1>2, RerunStep, NextRefines DEF RInv
<1> QED
  BY <1>1, <1>3, RerunInvariant, PTL
     DEF RerunSpec, ImplementsRunSlot, Abstract!Spec
=============================================================================
