------------------------- MODULE GroomDispatchProofs -------------------------
(***************************************************************************)
(* For any number of executions and of launching invocations: the groom    *)
(* dispatch keeps its type, one box per lane and one cycle at its lane.    *)
(*                                                                         *)
(* Why one box: whoever is between the lease and the end of its invocation *)
(* holds the lease within its TTL, every box younger than the TTL belongs  *)
(* to the holder or is adrift, and the lease is given back only where no   *)
(* box exists or the one that does is adrift, which it stays.              *)
(* Why one cycle: when a cycle takes its lane every earlier one has ended, *)
(* and an ended execution never comes back.  Why a box is launched only in *)
(* its cycle's turn: until RunInstances nobody but the invocation itself   *)
(* can answer its token, so its cycle still waits.                         *)
(***************************************************************************)
EXTENDS GroomDispatch, TLAPS

\* An invocation that launches holds the lease, and no box before it does.
LaunchHoldsLease ==
    \A r \in Run : pc[r] \in {"ceiling", "launch", "record", "bootstrap"} => lease = r

\* Time is over only for invocations that are.
LateReturned == \A r \in late : pc[r] = "returned"

\* No box before RunInstances.
NoEarlyBox ==
    \A r \in Run : pc[r] \in {"unused", "probe", "lease", "ceiling", "launch"}
                     => box[r] = "none"

\* An entry with an instance is written after the launch.
RecordedLate ==
    \A r \in Run : ledger[r] = "recorded" => pc[r] \in {"bootstrap", "returned"}

\* A box at work or on its way to it, within its runtime bound, has the lease.
BoxHoldsLease == \A r \in InLane : lease = r

\* Executions start in their order, and an earlier one than a cycle at its lane
\* has ended.
StartedInOrder ==
    \A e \in Execution : \A f \in 1..(e - 1) :
        /\ phase[e] # "unstarted" => phase[f] # "unstarted"
        /\ phase[e] = "lane" => phase[f] \in {"ended", "failed"}

LaneInv == /\ LaunchHoldsLease /\ LateReturned /\ NoEarlyBox /\ BoxHoldsLease
           /\ RecordedLate

IInv == TypeOK /\ LaneInv /\ StartedInOrder

-----------------------------------------------------------------------------
USE DEF Phase, Lane, Point, Box, Outcome, Alive

LEMMA InitIInv == Init => IInv
  BY ConstantsAssumption DEF Init, IInv, TypeOK, LaneInv, LaunchHoldsLease,
     LateReturned, NoEarlyBox, BoxHoldsLease, RecordedLate, InLane, Adrift,
     StartedInOrder, Execution

\* Answers leave a lane in its type.
LEMMA AnswerType ==
    ASSUME TypeOK, NEW r \in Run, NEW state \in Lane,
           TryAnswer(r, state) \/ Answer(r, state)
    PROVE  lane' \in [Execution -> Lane]
  BY DEF TypeOK, TryAnswer, Answer

\* What a step of an execution, of an invocation or of anything else does to the
\* type.
LEMMA AdvanceType ==
    ASSUME TypeOK, NEW e \in Execution, StartExecution(e) \/ Advance(e)
    PROVE  TypeOK'
<1>1. CASE StartExecution(e)
  BY <1>1 DEF StartExecution, TypeOK, runVars, storeVars, boxVars
<1>2. CASE Decide(e)
  BY <1>2 DEF Decide, Invoke, TypeOK, runVars, storeVars, boxVars
<1>3. CASE CheckRetryBudget(e)
  BY <1>3 DEF CheckRetryBudget, TypeOK, runVars, storeVars, boxVars
<1>4. CASE Conclude(e)
  BY <1>4 DEF Conclude, TypeOK, runVars, storeVars, boxVars
<1> QED
  BY <1>1, <1>2, <1>3, <1>4 DEF Advance

LEMMA HandleType ==
    ASSUME TypeOK, NEW r \in Run, InvokeFallback(r) \/ Handle(r)
    PROVE  TypeOK'
<1> USE DEF TypeOK, execVars, storeVars, boxVars, Goto, Refuse, Raise, Terminated
<1>1. CASE InvokeFallback(r)
  BY <1>1 DEF InvokeFallback, Invoke
<1>2. CASE ProbeLane(r)
  BY <1>2, AnswerType DEF ProbeLane
<1>3. CASE YieldLane(r)
  BY <1>3, AnswerType DEF YieldLane
<1>4. CASE AcquireLaneLease(r)
  BY <1>4 DEF AcquireLaneLease
<1>5. CASE CheckCeiling(r)
  BY <1>5, AnswerType DEF CheckCeiling
<1>6. CASE Launch(r)
  BY <1>6, AnswerType DEF Launch
<1>7. CASE RecordInstance(r)
  BY <1>7, AnswerType DEF RecordInstance
<1>8. CASE SendBootstrap(r)
  BY <1>8, AnswerType DEF SendBootstrap
<1>9. CASE KillInvocation(r)
  BY <1>9, AnswerType DEF KillInvocation
<1> QED
  BY <1>1, <1>2, <1>3, <1>4, <1>5, <1>6, <1>7, <1>8, <1>9 DEF Handle

\* The steps of a box, of time, of the reaper and of the reconciler.
BoxStep(r) == \/ Work(r) \/ LaneTimesOut(r) \/ Age(r) \/ Watchdog(r) \/ Reap(r)
              \/ Unlist(r) \/ LeaveScan(r)
              \/ ReconcileDead(r) \/ ReconcileOverdue(r) \/ LeaseExpires

LEMMA BoxStepType ==
    ASSUME TypeOK, NEW r \in Run, BoxStep(r)
    PROVE  TypeOK'
<1> USE DEF TypeOK, execVars, runVars, storeVars, boxVars, Terminated
<1>1. CASE FinishWork(r)
  BY <1>1 DEF FinishWork
<1>2. CASE WindDown(r)
  BY <1>2, AnswerType DEF WindDown
<1>3. CASE RunFails(r)
  BY <1>3, AnswerType DEF RunFails
<1>4. CASE BoxDies(r)
  BY <1>4, AnswerType DEF BoxDies
<1>5. CASE LaneTimesOut(r)
  BY <1>5, AnswerType DEF LaneTimesOut
<1>6. CASE Age(r) \/ Watchdog(r) \/ Reap(r) \/ LeaseExpires
  BY <1>6 DEF Age, Watchdog, Reap, LeaseExpires
<1>9. CASE Unlist(r) \/ LeaveScan(r)
  BY <1>9 DEF Unlist, LeaveScan
<1>7. CASE ReconcileDead(r)
  BY <1>7, AnswerType DEF ReconcileDead, Close
<1>8. CASE ReconcileOverdue(r)
  BY <1>8 DEF ReconcileOverdue, Close
<1> QED
  BY <1>1, <1>2, <1>3, <1>4, <1>5, <1>6, <1>7, <1>8, <1>9 DEF BoxStep, Work

\* Every step of the system is one of these three.
LEMMA NextSteps ==
    Next => \/ \E e \in Execution : StartExecution(e) \/ Advance(e)
            \/ \E r \in Run : InvokeFallback(r) \/ Handle(r)
            \/ \E r \in Run : BoxStep(r)
            \/ LeaseExpires
  BY DEF Next, BoxStep

LEMMA NextType == TypeOK /\ [Next]_vars => TypeOK'
<1> SUFFICES ASSUME TypeOK, [Next]_vars PROVE TypeOK'
  OBVIOUS
<1>1. CASE LeaseExpires
  BY <1>1 DEF LeaseExpires, TypeOK, execVars, runVars, boxVars
<1>2. CASE UNCHANGED vars
  BY <1>2 DEF TypeOK, vars, execVars, runVars, storeVars, boxVars
<1> QED
  BY <1>1, <1>2, NextSteps, AdvanceType, HandleType, BoxStepType

-----------------------------------------------------------------------------
(* One box per lane *)

LEMMA AdvanceLane ==
    ASSUME TypeOK, LaneInv, NEW e \in Execution, StartExecution(e) \/ Advance(e)
    PROVE  LaneInv'
<1> USE DEF TypeOK, LaneInv, LaunchHoldsLease, LateReturned, NoEarlyBox,
            BoxHoldsLease, RecordedLate, InLane, Adrift, runVars, storeVars, boxVars
<1>1. CASE StartExecution(e)
  BY <1>1 DEF StartExecution
<1>2. CASE Decide(e)
  BY <1>2 DEF Decide, Invoke
<1>3. CASE CheckRetryBudget(e) \/ Conclude(e)
  BY <1>3 DEF CheckRetryBudget, Conclude
<1> QED
  BY <1>1, <1>2, <1>3 DEF Advance

\* The lease is taken only when no box within its bound and no launch is left
\* to hold it, and given back only where there is no box.
LEMMA HandleLane ==
    ASSUME TypeOK, LaneInv, NEW r \in Run, InvokeFallback(r) \/ Handle(r)
    PROVE  LaneInv'
<1> USE ConstantsAssumption
    DEF TypeOK, LaneInv, LaunchHoldsLease, LateReturned, NoEarlyBox,
        BoxHoldsLease, RecordedLate, InLane, Adrift, execVars, storeVars, boxVars,
        Goto, Refuse, Raise, Terminated
<1>1. CASE InvokeFallback(r)
  BY <1>1 DEF InvokeFallback, Invoke
<1>2. CASE ProbeLane(r) \/ YieldLane(r)
  BY <1>2 DEF ProbeLane, YieldLane
<1>3. CASE AcquireLaneLease(r)
  BY <1>3 DEF AcquireLaneLease
<1>4. CASE CheckCeiling(r)
  BY <1>4 DEF CheckCeiling
<1>5. CASE Launch(r)
  BY <1>5 DEF Launch
<1>6. CASE RecordInstance(r)
  BY <1>6 DEF RecordInstance
<1>7. CASE SendBootstrap(r)
  BY <1>7 DEF SendBootstrap
<1>8. CASE KillInvocation(r)
  BY <1>8 DEF KillInvocation
<1> QED
  BY <1>1, <1>2, <1>3, <1>4, <1>5, <1>6, <1>7, <1>8 DEF Handle

LEMMA BoxStepLane ==
    ASSUME TypeOK, LaneInv, NEW r \in Run, BoxStep(r)
    PROVE  LaneInv'
<1> USE ConstantsAssumption
    DEF TypeOK, LaneInv, LaunchHoldsLease, LateReturned, NoEarlyBox,
        BoxHoldsLease, RecordedLate, InLane, Adrift, execVars, runVars, storeVars, boxVars,
        Terminated
<1>1. CASE Work(r)
  BY <1>1 DEF Work, FinishWork, WindDown, RunFails, BoxDies
<1>2. CASE Age(r)
  BY <1>2 DEF Age
<1>3. CASE Watchdog(r) \/ Reap(r) \/ Unlist(r) \/ LeaveScan(r)
  BY <1>3 DEF Watchdog, Reap, Unlist, LeaveScan
<1>4. CASE LeaseExpires
  BY <1>4 DEF LeaseExpires
<1>5. CASE LaneTimesOut(r) \/ ReconcileDead(r) \/ ReconcileOverdue(r)
  BY <1>5 DEF LaneTimesOut, ReconcileDead, ReconcileOverdue
<1> QED
  BY <1>1, <1>2, <1>3, <1>4, <1>5 DEF BoxStep

LEMMA NextLane == TypeOK /\ LaneInv /\ [Next]_vars => LaneInv'
<1> SUFFICES ASSUME TypeOK, LaneInv, [Next]_vars PROVE LaneInv'
  OBVIOUS
<1>1. CASE LeaseExpires
  BY <1>1, ConstantsAssumption
     DEF LeaseExpires, LaneInv, LaunchHoldsLease, LateReturned, NoEarlyBox,
         BoxHoldsLease, RecordedLate, InLane, Adrift, execVars, runVars, boxVars, TypeOK
<1>2. CASE UNCHANGED vars
  BY <1>2 DEF vars, LaneInv, LaunchHoldsLease, LateReturned, NoEarlyBox,
         BoxHoldsLease, RecordedLate, InLane, Adrift, execVars, runVars, storeVars, boxVars
<1> QED
  BY <1>1, <1>2, NextSteps, AdvanceLane, HandleLane, BoxStepLane

-----------------------------------------------------------------------------
(* One cycle at its lane *)

LEMMA AdvanceOrder ==
    ASSUME TypeOK, StartedInOrder, NEW e \in Execution,
           StartExecution(e) \/ Advance(e)
    PROVE  StartedInOrder'
<1> USE ConstantsAssumption DEF TypeOK, StartedInOrder, Execution
<1>1. CASE StartExecution(e)
  BY <1>1 DEF StartExecution
<1>2. CASE Decide(e)
  <2>1. /\ phase[e] = "decide"
        /\ \A f \in Execution \ {e} : phase'[f] = phase[f]
        /\ phase'[e] \in {"lane", "sweep", "failed"}
    BY <1>2 DEF Decide
  <2>2. ASSUME phase'[e] = "lane", NEW f \in 1..(e - 1)
        PROVE  phase[f] \in {"ended", "failed"}
    <3>1. Blockers(e) = {} /\ f \in Execution /\ f < e
      BY <1>2, <2>1, <2>2 DEF Decide
    <3>2. phase[f] # "unstarted"
      BY <2>1
    <3> QED
      BY <3>1, <3>2 DEF Blockers, Running
  <2> QED
    BY <2>1, <2>2
<1>3. CASE CheckRetryBudget(e)
  BY <1>3 DEF CheckRetryBudget
<1>4. CASE Conclude(e)
  BY <1>4 DEF Conclude
<1> QED
  BY <1>1, <1>2, <1>3, <1>4 DEF Advance

LEMMA NextOrder == TypeOK /\ StartedInOrder /\ [Next]_vars => StartedInOrder'
<1> SUFFICES ASSUME TypeOK, StartedInOrder, [Next]_vars PROVE StartedInOrder'
  OBVIOUS
<1>1. ASSUME NEW r \in Run, InvokeFallback(r) \/ Handle(r) \/ BoxStep(r) \/ LeaseExpires
      PROVE  UNCHANGED phase
  BY <1>1 DEF InvokeFallback, Handle, BoxStep, Work, ProbeLane, YieldLane,
     AcquireLaneLease, CheckCeiling, Launch, RecordInstance, SendBootstrap,
     KillInvocation, FinishWork, WindDown, RunFails, BoxDies, LaneTimesOut,
     Age, Watchdog, Reap, Unlist, LeaveScan, LeaseExpires, ReconcileDead, ReconcileOverdue, execVars
<1>2. CASE LeaseExpires \/ UNCHANGED vars
  BY <1>2 DEF LeaseExpires, vars, execVars, StartedInOrder
<1>3. CASE \E r \in Run : InvokeFallback(r) \/ Handle(r) \/ BoxStep(r)
  BY <1>1, <1>3 DEF StartedInOrder
<1> QED
  BY <1>2, <1>3, NextSteps, AdvanceOrder

-----------------------------------------------------------------------------
LEMMA NextIInv == IInv /\ [Next]_vars => IInv'
  BY NextType, NextLane, NextOrder DEF IInv

LEMMA Invariance == Spec => []IInv
  BY InitIInv, NextIInv, PTL DEF Spec

\* Every variable keeps its type.
THEOREM TypeCorrect == Spec => []TypeOK
<1>1. IInv => TypeOK
  BY DEF IInv
<1> QED
  BY <1>1, Invariance, PTL

\* A second box never joins one within its runtime bound, whatever the probes
\* of EC2 answer and whoever is killed between the lease and the bootstrap.
THEOREM LaneHasOneBox == Spec => []OneBoxPerLane
<1>1. IInv => OneBoxPerLane
  BY DEF IInv, LaneInv, BoxHoldsLease, OneBoxPerLane
<1> QED
  BY <1>1, Invariance, PTL

\* However executions are started, no two are at their lanes.
THEOREM CyclesTakeTurns == Spec => []OneCycleLaunches
<1>1. ASSUME IInv PROVE OneCycleLaunches
  <2> SUFFICES ASSUME NEW e \in Execution, NEW f \in Execution,
                      phase[e] = "lane", phase[f] = "lane", e # f
               PROVE  FALSE
    BY DEF OneCycleLaunches
  <2>1. e \in 1..(f - 1) \/ f \in 1..(e - 1)
    BY ConstantsAssumption DEF Execution
  <2> QED
    BY <1>1, <2>1 DEF IInv, StartedInOrder
<1> QED
  BY <1>1, Invariance, PTL

-----------------------------------------------------------------------------
(* Whose turn it is *)

\* An invocation on its way to RunInstances has a cycle that waits for it, or
\* none at all.
LaunchInTurn ==
    \A r \in Run : owner[r] # None /\ pc[r] \in {"probe", "lease", "ceiling", "launch"}
                     => phase[owner[r]] = "lane" /\ lane[owner[r]] = "waiting"

\* A cycle has one invocation, made when it comes to its lane.
OneRunPerCycle ==
    /\ \A r, q \in Run : owner[r] # None /\ owner[r] = owner[q] => r = q
    /\ \A r \in Run : pc[r] = "unused" => owner[r] = None
    /\ \A e \in Execution, r \in Run :
         phase[e] \in {"unstarted", "decide"} => owner[r] # e

\* Who is past RunInstances has launched.
LaunchedBox == \A r \in Run : pc[r] \in {"record", "bootstrap"} => box[r] # "none"

TurnInv == LaunchInTurn /\ OneRunPerCycle /\ LaunchedBox

LEMMA InitTurn == Init => TurnInv
  BY ConstantsAssumption
     DEF Init, TurnInv, LaunchInTurn, OneRunPerCycle, LaunchedBox

LEMMA AdvanceTurn ==
    ASSUME IInv, TurnInv, NEW e \in Execution, StartExecution(e) \/ Advance(e)
    PROVE  TurnInv'
<1> USE ConstantsAssumption
    DEF IInv, TypeOK, TurnInv, LaunchInTurn, OneRunPerCycle, LaunchedBox,
        runVars, storeVars, boxVars
<1>1. CASE StartExecution(e)
  BY <1>1 DEF StartExecution
<1>2. CASE Decide(e)
  <2>1. CASE UNCHANGED runVars
    BY <1>2, <2>1 DEF Decide
  <2>2. CASE ~UNCHANGED runVars
    <3>1. PICK r \in Run : Invoke(r, e)
      BY <1>2, <2>2 DEF Decide
    <3>2. /\ phase[e] = "decide" /\ phase' = [phase EXCEPT ![e] = "lane"]
          /\ lane' = [lane EXCEPT ![e] = "waiting"] /\ UNCHANGED ledger
      BY <1>2, <2>2 DEF Decide
    <3>3. e # None /\ \A q \in Run : owner[q] # e
      BY <3>2 DEF Execution
    <3>4. /\ owner'[r] = e /\ pc'[r] = "probe" /\ pc[r] = "unused"
          /\ \A q \in Run \ {r} : owner'[q] = owner[q] /\ pc'[q] = pc[q]
      BY <3>1 DEF Invoke
    <3>5. LaunchInTurn'
      BY <3>2, <3>3, <3>4
    <3>6. OneRunPerCycle'
      BY <3>2, <3>3, <3>4
    <3>7. LaunchedBox'
      BY <1>2, <3>4 DEF Decide
    <3> QED
      BY <3>5, <3>6, <3>7
  <2> QED
    BY <2>1, <2>2
<1>3. CASE CheckRetryBudget(e)
  BY <1>3 DEF CheckRetryBudget
<1>4. CASE Conclude(e)
  BY <1>4 DEF Conclude
<1> QED
  BY <1>1, <1>2, <1>3, <1>4 DEF Advance

\* A step of r's invocation or box ends at most the wait of r's own cycle, and
\* that when the launch is behind it.
RunFrame(r) ==
    /\ UNCHANGED <<phase, owner>>
    /\ \A q \in Run \ {r} : pc'[q] = pc[q]
    /\ \A e \in Execution : lane'[e] # lane[e] =>
         e = owner[r] /\ pc'[r] \in {"record", "bootstrap", "returned"}
    /\ \/ pc'[r] = pc[r]
       \/ /\ pc[r] \in {"probe", "lease", "ceiling"}
          /\ pc'[r] \in {"lease", "ceiling", "launch"}
       \/ pc[r] # "unused" /\ pc'[r] \in {"record", "bootstrap", "returned"}
    /\ \A q \in Run : box[q] # "none" => box'[q] # "none"
    /\ pc'[r] \in {"record", "bootstrap"} =>
         pc[r] \in {"record", "bootstrap"} \/ box'[r] # "none"

LEMMA AnswerFrame ==
    ASSUME TypeOK, NEW r \in Run, NEW state,
           TryAnswer(r, state) \/ Answer(r, state)
    PROVE  \A e \in Execution : lane'[e] # lane[e] => e = owner[r]
  BY DEF TypeOK, TryAnswer, Answer

LEMMA HandleFrame ==
    ASSUME IInv, NEW r \in Run, Handle(r)
    PROVE  RunFrame(r)
<1> USE DEF IInv, TypeOK, RunFrame, execVars, storeVars, boxVars, Goto, Refuse, Raise,
            Terminated
<1>1. CASE ProbeLane(r) \/ YieldLane(r) \/ AcquireLaneLease(r)
  BY <1>1, AnswerFrame DEF ProbeLane, YieldLane, AcquireLaneLease
<1>2. CASE CheckCeiling(r)
  BY <1>2, AnswerFrame DEF CheckCeiling
<1>3. CASE Launch(r) \/ RecordInstance(r)
  BY <1>3, AnswerFrame DEF Launch, RecordInstance
<1>4. CASE SendBootstrap(r) \/ KillInvocation(r)
  BY <1>4, AnswerFrame DEF SendBootstrap, KillInvocation
<1> QED
  BY <1>1, <1>2, <1>3, <1>4 DEF Handle

LEMMA BoxStepFrame ==
    ASSUME IInv, TurnInv, NEW r \in Run, BoxStep(r)
    PROVE  RunFrame(r) /\ UNCHANGED pc
<1> USE DEF IInv, TypeOK, LaneInv, NoEarlyBox, RunFrame, execVars, runVars,
            storeVars, boxVars, Terminated
<1>1. CASE Work(r)
  BY <1>1, AnswerFrame DEF Work, FinishWork, WindDown, RunFails, BoxDies
<1>2. CASE LaneTimesOut(r)
  BY <1>2, AnswerFrame DEF LaneTimesOut
<1>3. CASE Age(r) \/ Watchdog(r) \/ Reap(r) \/ LeaseExpires
  BY <1>3 DEF Age, Watchdog, Reap, LeaseExpires
<1>5. CASE Unlist(r) \/ LeaveScan(r)
  BY <1>5 DEF Unlist, LeaveScan
<1>4. CASE ReconcileDead(r) \/ ReconcileOverdue(r)
  BY <1>4, AnswerFrame DEF ReconcileDead, ReconcileOverdue, RecordedLate
<1> QED
  BY <1>1, <1>2, <1>3, <1>4, <1>5 DEF BoxStep

LEMMA RunFrameTurn ==
    ASSUME IInv, TurnInv, NEW r \in Run, RunFrame(r)
    PROVE  TurnInv'
<1>1. LaunchInTurn'
  <2> SUFFICES ASSUME NEW q \in Run, owner[q] # None,
                      pc'[q] \in {"probe", "lease", "ceiling", "launch"}
               PROVE  phase[owner[q]] = "lane" /\ lane'[owner[q]] = "waiting"
    BY DEF LaunchInTurn, RunFrame
  <2>1. owner[q] \in Execution
    BY DEF IInv, TypeOK
  <2>2. pc[q] \in {"probe", "lease", "ceiling", "launch"}
    BY DEF RunFrame
  <2>3. lane'[owner[q]] = lane[owner[q]]
    BY <2>1 DEF RunFrame, TurnInv, OneRunPerCycle
  <2> QED
    BY <2>2, <2>3 DEF TurnInv, LaunchInTurn
<1>2. OneRunPerCycle'
  BY DEF RunFrame, TurnInv, OneRunPerCycle
<1>3. LaunchedBox'
  BY DEF RunFrame, TurnInv, LaunchedBox
<1> QED
  BY <1>1, <1>2, <1>3 DEF TurnInv

LEMMA NextTurn == IInv /\ TurnInv /\ [Next]_vars => TurnInv'
<1> SUFFICES ASSUME IInv, TurnInv, [Next]_vars PROVE TurnInv'
  OBVIOUS
<1>1. ASSUME NEW r \in Run, InvokeFallback(r) PROVE TurnInv'
  BY <1>1, ConstantsAssumption
     DEF InvokeFallback, Invoke, IInv, TypeOK, TurnInv, LaunchInTurn,
         OneRunPerCycle, LaunchedBox, execVars, storeVars, boxVars
<1>2. CASE LeaseExpires \/ UNCHANGED vars
  BY <1>2 DEF LeaseExpires, vars, execVars, runVars, storeVars, TurnInv,
     LaunchInTurn, OneRunPerCycle, LaunchedBox, boxVars
<1> QED
  BY <1>1, <1>2, NextSteps, AdvanceTurn, HandleFrame, BoxStepFrame, RunFrameTurn

LEMMA TurnInvariance == Spec => [](IInv /\ TurnInv)
  BY InitIInv, NextIInv, InitTurn, NextTurn, PTL DEF Spec

-----------------------------------------------------------------------------
(* The refinement *)

turn == [e \in Execution |-> TurnOf(e)]
place == [r \in Run |-> PlaceOf(r)]
sender == [r \in Run |-> SenderOf(r)]
turnVars == <<turn, place, sender>>

LEMMA InitTurns == Init => Turns!Init
  BY DEF Init, Turns!Init, Turns!Execution, Execution, TurnOf, PlaceOf, SenderOf

LEMMA AdvanceTurns ==
    ASSUME IInv, TurnInv, NEW e \in Execution, StartExecution(e) \/ Advance(e)
    PROVE  [Turns!Next]_turnVars
<1>1. UNCHANGED boxVars
  BY DEF StartExecution, Advance, Decide, CheckRetryBudget, Conclude
<1>2. \A r \in Run : \/ owner'[r] = owner[r] /\ pc'[r] = pc[r] /\ ledger'[r] = ledger[r]
                     \/ box[r] = "none"
  BY DEF StartExecution, Advance, Decide, CheckRetryBudget, Conclude, Invoke,
     runVars, storeVars, IInv, TypeOK, LaneInv, NoEarlyBox
<1>3. UNCHANGED <<place, sender>>
  <2>1. \A r \in Run : PlaceOf(r)' = PlaceOf(r) /\ SenderOf(r)' = SenderOf(r)
    BY <1>1, <1>2 DEF boxVars, PlaceOf, SenderOf, InLane, Adrift
  <2> QED
    BY <2>1 DEF place, sender
<1>4. \/ UNCHANGED phase
      \/ phase[e] = "unstarted" /\ phase' = [phase EXCEPT ![e] = "decide"]
      \/ phase[e] = "sweep" /\ \E p \in {"ended", "failed"} : phase' = [phase EXCEPT ![e] = p]
      \/ /\ phase[e] = "decide" /\ phase' = [phase EXCEPT ![e] = "lane"]
      \/ /\ phase[e] \in {"decide", "lane"}
         /\ \E p \in {"sweep", "ended", "failed"} : phase' = [phase EXCEPT ![e] = p]
  BY DEF StartExecution, Advance, Decide, CheckRetryBudget, Conclude
<1>5. CASE UNCHANGED turn
  BY <1>3, <1>5 DEF turnVars
<1>6. CASE phase[e] = "decide" /\ phase' = [phase EXCEPT ![e] = "lane"]
  <2>1. \A f \in 1..(e - 1) : phase[f] \in {"ended", "failed"} /\ f \in Execution
    BY <1>6, NextOrder, ConstantsAssumption DEF IInv, StartedInOrder, Execution, TypeOK,
       Advance, Next
  <2>2. turn' = [turn EXCEPT ![e] = "lane"]
    BY <1>6 DEF turn, TurnOf, IInv, TypeOK
  <2>3. turn[e] = "before" /\ \A f \in 1..(e - 1) : turn[f] = "after"
    BY <1>6, <2>1 DEF turn, TurnOf
  <2>4. Turns!Enter(e)
    BY <1>3, <2>2, <2>3 DEF Turns!Enter, turn, place, sender
  <2> QED
    BY <2>4 DEF Turns!Next, Turns!Execution, Execution
<1>7. CASE /\ phase[e] \in {"decide", "lane"}
           /\ \E p \in {"sweep", "ended", "failed"} : phase' = [phase EXCEPT ![e] = p]
  <2> PICK p \in {"sweep", "ended", "failed"} : phase' = [phase EXCEPT ![e] = p]
    BY <1>7
  <2>1. turn' = [turn EXCEPT ![e] = "after"] /\ turn[e] # "after"
    BY <1>7 DEF turn, TurnOf, IInv, TypeOK
  <2>2. Turns!Pass(e)
    BY <1>3, <2>1 DEF Turns!Pass, turn, place, sender
  <2> QED
    BY <2>2 DEF Turns!Next, Turns!Execution, Execution
<1>8. CASE \/ UNCHANGED phase
           \/ phase[e] = "unstarted" /\ phase' = [phase EXCEPT ![e] = "decide"]
           \/ phase[e] = "sweep" /\ \E p \in {"ended", "failed"} : phase' = [phase EXCEPT ![e] = p]
  <2>1. \A f \in Execution : TurnOf(f)' = TurnOf(f)
    BY <1>8 DEF TurnOf, IInv, TypeOK
  <2> QED
    BY <1>5, <2>1 DEF turn
<1> QED
  BY <1>4, <1>6, <1>7, <1>8

\* RunInstances takes effect: the holder of the lease brings its box, or loses
\* it when the answer does not come back.
LEMMA LaunchTurns ==
    ASSUME IInv, TurnInv, NEW r \in Run, Launch(r), box' # box
    PROVE  [Turns!Next]_turnVars
<1> USE DEF IInv, TypeOK
<1>1. /\ pc[r] = "launch" /\ box' = [box EXCEPT ![r] = "up"]
      /\ pc' \in {[pc EXCEPT ![r] = "record"], [pc EXCEPT ![r] = "returned"]}
      /\ UNCHANGED <<phase, owner, late, ledger>>
  BY DEF Launch, Goto, Raise
<1>2. box[r] = "none" /\ r \notin late /\ lease = r /\ ledger[r] # "recorded"
  BY <1>1 DEF LaneInv, NoEarlyBox, LateReturned, LaunchHoldsLease,
     RecordedLate
<1>3. place[r] = "out" /\ \A q \in Run : place[q] # "in"
  <2>1. \A q \in InLane : q = r
    BY <1>2 DEF LaneInv, BoxHoldsLease
  <2>2. r \notin InLane
    BY <1>2 DEF InLane
  <2> QED
    BY <1>2, <2>1, <2>2 DEF place, PlaceOf
<1>4. ASSUME owner[r] # None
      PROVE  turn[owner[r]] = "lane" /\ \A q \in Run : sender[q] # owner[r]
  <2>1. turn[owner[r]] = "lane"
    BY <1>1, <1>4 DEF TurnInv, LaunchInTurn, turn, TurnOf
  <2>2. \A q \in Run : sender[q] # owner[r]
    BY <1>2, <1>4 DEF sender, SenderOf, TurnInv, OneRunPerCycle
  <2> QED
    BY <2>1, <2>2
<1>5. place' = [place EXCEPT ![r] = "in"] \/ place' = [place EXCEPT ![r] = "left"]
  <2>1. \A q \in Run \ {r} : PlaceOf(q)' = PlaceOf(q)
    BY <1>1 DEF PlaceOf, InLane, Adrift
  <2>2. PlaceOf(r)' \in {"in", "left"}
    BY <1>1 DEF PlaceOf
  <2> QED
    BY <2>1, <2>2 DEF place
<1>6. sender' = [sender EXCEPT ![r] = owner[r]]
  BY <1>1 DEF sender, SenderOf
<1>7. turn' = turn
  <2>1. \A e \in Execution : TurnOf(e)' = TurnOf(e)
    BY <1>1 DEF TurnOf
  <2> QED
    BY <2>1 DEF turn
<1>8. Turns!Bring(r, owner[r]) \/ Turns!Lose(r, owner[r])
  BY <1>3, <1>4, <1>5, <1>6, <1>7
     DEF Turns!Bring, Turns!Lose, Turns!Send, turn, place, sender
<1>9. owner[r] \in Execution \cup {None}
  OBVIOUS
<1> QED
  BY <1>8, <1>9 DEF Turns!Next, Turns!Execution, Execution

\* No other step of an invocation, a box or time brings a box.
Ages(r) ==
    /\ UNCHANGED phase
    /\ \A q \in Run : owner'[q] = owner[q] \/ box[q] = "none"
    /\ \A q \in Run \ {r} : /\ box'[q] = box[q] /\ (q \in late' <=> q \in late)
                            /\ pc'[q] = pc[q] /\ ledger'[q] = ledger[q]
    /\ box'[r] = "none" <=> box[r] = "none"
    /\ box[r] \notin Alive => box'[r] \notin Alive
    /\ late \subseteq late'
    /\ pc[r] = "returned" =>
         /\ pc'[r] = "returned" /\ ledger'[r] = ledger[r]
         /\ box[r] = "up" => box'[r] = "up" \/ box'[r] \notin Alive

LEMMA RunStepAges ==
    ASSUME IInv, TurnInv, NEW r \in Run, InvokeFallback(r) \/ Handle(r) \/ BoxStep(r),
           Launch(r) => UNCHANGED box
    PROVE  Ages(r)
<1> USE DEF IInv, TypeOK, LaneInv, NoEarlyBox, Ages, execVars, runVars, storeVars,
            boxVars, Goto, Refuse, Raise, Terminated
<1>1. CASE InvokeFallback(r)
  BY <1>1 DEF InvokeFallback, Invoke
<1>2. CASE ProbeLane(r) \/ YieldLane(r) \/ AcquireLaneLease(r) \/ CheckCeiling(r)
  BY <1>2 DEF ProbeLane, YieldLane, AcquireLaneLease, CheckCeiling
<1>3. CASE Launch(r)
  BY <1>3 DEF Launch
<1>4. CASE RecordInstance(r)
  BY <1>4 DEF RecordInstance, TurnInv, LaunchedBox
<1>5. CASE SendBootstrap(r)
  BY <1>5 DEF SendBootstrap, TurnInv, LaunchedBox
<1>6. CASE KillInvocation(r)
  BY <1>6 DEF KillInvocation
<1>7. CASE Work(r)
  BY <1>7 DEF Work, FinishWork, WindDown, RunFails, BoxDies
<1>8. CASE LaneTimesOut(r) \/ ReconcileDead(r) \/ ReconcileOverdue(r)
  BY <1>8 DEF LaneTimesOut, ReconcileDead, ReconcileOverdue
<1>9. CASE Age(r) \/ Watchdog(r) \/ Reap(r) \/ LeaseExpires
  BY <1>9 DEF Age, Watchdog, Reap, LeaseExpires
<1>10. CASE Unlist(r) \/ LeaveScan(r)
  BY <1>10 DEF Unlist, LeaveScan
<1> QED
  BY <1>1, <1>2, <1>3, <1>4, <1>5, <1>6, <1>7, <1>8, <1>9, <1>10 DEF Handle, BoxStep

LEMMA AgesTurns ==
    ASSUME IInv, IInv', NEW r \in Run, Ages(r)
    PROVE  [Turns!Next]_turnVars
<1>1. UNCHANGED <<turn, sender>>
  <2>1. \A e \in Execution : TurnOf(e)' = TurnOf(e)
    BY DEF Ages, TurnOf
  <2>2. \A q \in Run : SenderOf(q)' = SenderOf(q)
    BY DEF Ages, SenderOf
  <2> QED
    BY <2>1, <2>2 DEF turn, sender
<1>2. \A q \in Run \ {r} : place'[q] = place[q]
  BY DEF Ages, place, PlaceOf, InLane, Adrift
<1>3. place'[r] = place[r] \/ (place[r] = "in" /\ place'[r] = "left")
  <2>1. box[r] \in Box /\ box'[r] \in Box
    BY DEF IInv, TypeOK
  <2>2. place[r] = PlaceOf(r) /\ place'[r] = PlaceOf(r)'
    BY DEF place
  <2>3. CASE box[r] \notin Alive
    BY <2>2, <2>3 DEF Ages, PlaceOf, InLane
  <2>4. CASE box[r] \in Alive
    <3>1. place[r] \in {"in", "left"} /\ place'[r] \in {"in", "left"}
      BY <2>1, <2>2, <2>4 DEF Ages, PlaceOf
    <3>2. r \in InLane' => r \in InLane
      BY <2>4 DEF Ages, InLane, Adrift
    <3> QED
      BY <2>2, <2>4, <3>1, <3>2 DEF Ages, PlaceOf
  <2> QED
    BY <2>1, <2>3, <2>4
<1>4. CASE place'[r] = place[r]
  <2>1. place' = place
    BY <1>2, <1>4 DEF place
  <2> QED
    BY <1>1, <2>1 DEF turnVars
<1>5. CASE place[r] = "in" /\ place'[r] = "left"
  <2>1. place' = [place EXCEPT ![r] = "left"]
    BY <1>2, <1>5 DEF place
  <2>2. Turns!Leave(r)
    BY <1>1, <1>5, <2>1 DEF Turns!Leave, turn, place, sender
  <2> QED
    BY <2>2 DEF Turns!Next
<1> QED
  BY <1>3, <1>4, <1>5

LEMMA NextTurns == IInv /\ TurnInv /\ [Next]_vars => [Turns!Next]_turnVars
<1> SUFFICES ASSUME IInv, TurnInv, [Next]_vars PROVE [Turns!Next]_turnVars
  OBVIOUS
<1>1. IInv'
  BY NextIInv
<1>2. ASSUME NEW r \in Run, InvokeFallback(r) \/ Handle(r) \/ BoxStep(r)
      PROVE  [Turns!Next]_turnVars
  BY <1>1, <1>2, LaunchTurns, RunStepAges, AgesTurns
<1>3. CASE LeaseExpires \/ UNCHANGED vars
  <2>1. UNCHANGED <<phase, owner, box, late>>
    BY <1>3 DEF LeaseExpires, vars, execVars, runVars, boxVars
  <2>3. UNCHANGED <<pc, ledger>>
    BY <1>3 DEF LeaseExpires, vars, runVars, storeVars
  <2>2. /\ \A e \in Execution : TurnOf(e)' = TurnOf(e)
        /\ \A r \in Run : PlaceOf(r)' = PlaceOf(r) /\ SenderOf(r)' = SenderOf(r)
    BY <2>1, <2>3 DEF TurnOf, PlaceOf, SenderOf, InLane, Adrift
  <2> QED
    BY <2>2 DEF turnVars, turn, place, sender
<1> QED
  BY <1>2, <1>3, NextSteps, AdvanceTurns

\* The groom dispatch implements the abstract turns: an invocation never
\* outlives the turn of the cycle it launches for, though the cycle ends it
\* only by waiting, and whoever launches comes into an empty lane.
THEOREM TurnsImplemented == Spec => ImplementsTurns
<1> QED
  BY InitTurns, NextTurns, TurnInvariance, PTL
     DEF Spec, ImplementsTurns, Turns!Spec, turnVars, turn, place, sender
=============================================================================
