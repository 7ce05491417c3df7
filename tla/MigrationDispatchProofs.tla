----------------------- MODULE MigrationDispatchProofs -----------------------
(***************************************************************************)
(* For any number of invocations, boxes, workflow runs, generations and    *)
(* kills: type correctness of the defer chain, and that it drops no        *)
(* refusal.                                                                *)
(*                                                                         *)
(* Why nothing is dropped: a box that may still refuse, and a deferred     *)
(* invocation about to launch one, each have a re-check to come - a        *)
(* pending schedule, an invocation that is about to create one, or a check *)
(* that has not read the marker yet - or an incident ended the chain.  A   *)
(* check that reads a refusal arms the next; one that reads none while an  *)
(* answer is outstanding, and that is the last, is an incident.            *)
(***************************************************************************)
EXTENDS MigrationDispatch, TLAPS

\* A re-check will come or is under way, or an incident ended the chain.
Followed ==
    \/ schedule # {} \/ incident # {}
    \/ \E i \in Invocation : pc[i] \in {"check", "arm", "armFirst"}

\* An invocation that has ended is of no generation.
IdleIsFresh == \A i \in Invocation : pc[i] = "idle" => gen[i] = 0

\* The next check is armed before a deferred invocation launches.
LaunchIsFollowed ==
    \A i \in Invocation :
        pc[i] \in {"probe", "launch", "bootstrap"} /\ gen[i] > 0 => Followed

\* A box that has yet to ask the mutex has its re-check.
BoxIsFollowed == \A b \in Box : box[b] = "bootstrapped" => Followed

\* A refusal on record is followed up.
RefusalIsFollowed == marker = "refused_mutex_active" => migrated \/ Followed

\* The checks of a chain stay within its generations.
CheckBelowLimit == \A i \in Invocation : pc[i] = "arm" => gen[i] < MaxGeneration

ChainInv == IdleIsFresh /\ LaunchIsFollowed /\ BoxIsFollowed /\ RefusalIsFollowed

-----------------------------------------------------------------------------
USE DEF InvPc, BoxState, LiveBox, Marker, Incident

TInv == TypeOK /\ CheckBelowLimit

LEMMA InitTInv == Init => TInv
<1> SUFFICES ASSUME Init PROVE TInv
  OBVIOUS
<1> USE ConstantsAssumption DEF Init
<1>1. /\ pc \in [Invocation -> InvPc] /\ gen \in [Invocation -> 0..MaxGeneration]
      /\ mine \in [Invocation -> Box \cup {NoBox}]
      /\ box \in [Box -> BoxState]
  OBVIOUS
<1>2. /\ dispatched \in 0..MaxDispatch /\ kills \in 0..MaxKill
      /\ marker \in Marker
  OBVIOUS
<1>4. /\ tagged \subseteq Box /\ schedule \subseteq 1..MaxGeneration
      /\ p1 \in BOOLEAN /\ migrated \in BOOLEAN /\ incident \subseteq Incident
  BY Zenon
<1>3. CheckBelowLimit
  BY DEF CheckBelowLimit
<1> QED
  BY <1>1, <1>2, <1>3, <1>4, Zenon DEF TInv, TypeOK

\* Incidents and schedules accumulate within their types.
LEMMA IncidentType ==
    ASSUME TInv, NEW why \in Incident,
           incident' = incident \cup {why} \/ UNCHANGED incident
    PROVE  incident' \subseteq Incident
  BY Zenon DEF TInv, TypeOK

LEMMA ScheduleType ==
    ASSUME TInv, NEW g \in 1..MaxGeneration,
           schedule' = schedule \cup {g} \/ UNCHANGED schedule
    PROVE  schedule' \subseteq 1..MaxGeneration
  BY Zenon DEF TInv, TypeOK

\* A verdict returned, benign or not.
LEMMA ReturnType ==
    ASSUME TInv, NEW i \in Invocation, NEW alarming \in BOOLEAN, Return(i, alarming)
    PROVE  /\ pc' \in [Invocation -> InvPc] /\ gen' \in [Invocation -> 0..MaxGeneration]
           /\ mine' \in [Invocation -> Box \cup {NoBox}]
           /\ p1' \in BOOLEAN
           /\ CheckBelowLimit'
<1>1. p1' \in BOOLEAN
  BY Zenon DEF Return, TInv, TypeOK
<1>2. /\ pc' = [pc EXCEPT ![i] = "idle"] /\ gen' = [gen EXCEPT ![i] = 0]
      /\ mine' = [mine EXCEPT ![i] = NoBox]
  BY DEF Return
<1> QED
  BY <1>1, <1>2, ConstantsAssumption DEF TInv, TypeOK, CheckBelowLimit

\* Any other step of an invocation, as far as its point is concerned.
LEMMA GotoType ==
    ASSUME TInv, NEW i \in Invocation, NEW point \in InvPc \ {"arm"},
           pc' = [pc EXCEPT ![i] = point], UNCHANGED gen
    PROVE  /\ pc' \in [Invocation -> InvPc] /\ gen' \in [Invocation -> 0..MaxGeneration]
           /\ CheckBelowLimit'
  BY ConstantsAssumption DEF TInv, TypeOK, CheckBelowLimit

LEMMA NextTInv == TInv /\ [Next]_vars => TInv'
<1> SUFFICES ASSUME TInv, [Next]_vars PROVE TInv'
  OBVIOUS
<1> USE ConstantsAssumption DEF TInv, TypeOK, invVars
<1>1. ASSUME NEW i \in Invocation, Dispatch(i) PROVE TInv'
  <2>1. /\ dispatched' \in 0..MaxDispatch
        /\ pc' = [pc EXCEPT ![i] = "probe"] /\ UNCHANGED <<gen, mine>>
    BY <1>1 DEF Dispatch, Goto
  <2> QED
    BY <1>1, <2>1, GotoType DEF Dispatch
<1>2. ASSUME NEW i \in Invocation, FireSchedule(i) PROVE TInv'
  BY <1>2 DEF FireSchedule, CheckBelowLimit
<1>3. ASSUME NEW i \in Invocation, ReadMarker(i) PROVE TInv'
  <2>1. ASSUME NEW alarming \in BOOLEAN, Return(i, alarming) PROVE TInv'
    BY <1>3, <2>1, ReturnType DEF ReadMarker
  <2>2. CASE gen[i] < MaxGeneration /\ Goto(i, "arm") /\ UNCHANGED <<p1, incident>>
    BY <1>3, <2>2 DEF ReadMarker, Goto, CheckBelowLimit
  <2> QED
    BY <1>3, <2>1, <2>2 DEF ReadMarker
<1>4. ASSUME NEW i \in Invocation, ArmNext(i) PROVE TInv'
  <2>1. gen[i] + 1 \in 1..MaxGeneration
    BY <1>4 DEF ArmNext, CheckBelowLimit
  <2>2. schedule' \subseteq 1..MaxGeneration /\ incident' \subseteq Incident
    BY <1>4, <2>1, ScheduleType, IncidentType, Zenon DEF ArmNext
  <2>3. CASE Return(i, TRUE)
    BY <1>4, <2>2, <2>3, ReturnType DEF ArmNext
  <2>4. CASE Goto(i, "probe") /\ UNCHANGED p1
    BY <1>4, <2>2, <2>4, GotoType DEF ArmNext, Goto
  <2> QED
    BY <1>4, <2>3, <2>4 DEF ArmNext
<1>5. ASSUME NEW i \in Invocation, ProbeLive(i) PROVE TInv'
  BY <1>5, ReturnType, GotoType DEF ProbeLive, Goto
<1>6. ASSUME NEW i \in Invocation, LaunchInstance(i) PROVE TInv'
  <2>1. CASE Return(i, TRUE)
    BY <1>6, <2>1, ReturnType DEF LaunchInstance
  <2>2. CASE pc' = [pc EXCEPT ![i] = "bootstrap"] /\ UNCHANGED <<gen, p1>>
    <3>1. mine' \in [Invocation -> Box \cup {NoBox}] /\ box' \in [Box -> BoxState]
      BY <1>6, <2>2 DEF LaunchInstance, Return
    <3> QED
      BY <1>6, <2>2, <3>1, GotoType DEF LaunchInstance
  <2> QED
    BY <1>6, <2>1, <2>2 DEF LaunchInstance
<1>7. ASSUME NEW i \in Invocation, SendBootstrap(i) PROVE TInv'
  <2>1. box' \in [Box -> BoxState]
    BY <1>7 DEF SendBootstrap
  <2>2. ASSUME NEW alarming \in BOOLEAN, Return(i, alarming) PROVE TInv'
    BY <1>7, <2>1, <2>2, ReturnType DEF SendBootstrap
  <2>3. CASE Goto(i, "armFirst") /\ UNCHANGED p1
    BY <1>7, <2>1, <2>3, GotoType DEF SendBootstrap, Goto
  <2> QED
    BY <1>7, <2>2, <2>3 DEF SendBootstrap
<1>8. ASSUME NEW i \in Invocation, ArmFirst(i) PROVE TInv'
  <2>1. schedule' \subseteq 1..MaxGeneration
    <3>1. 1 \in 1..MaxGeneration
      OBVIOUS
    <3> QED
      BY <1>8, <3>1, ScheduleType, Zenon DEF ArmFirst
  <2>2. incident' \subseteq Incident
    BY <1>8, IncidentType, Zenon DEF ArmFirst
  <2> QED
    BY <1>8, <2>1, <2>2, ReturnType DEF ArmFirst
<1>9. ASSUME NEW i \in Invocation, KillInvocation(i) PROVE TInv'
  <2>1. incident' \subseteq Incident /\ kills' \in 0..MaxKill
    <3>1. incident' = incident \cup {"killed"} \/ UNCHANGED incident
      BY <1>9, Zenon DEF KillInvocation
    <3>2. kills' \in 0..MaxKill
      BY <1>9 DEF KillInvocation
    <3> QED
      BY <3>1, <3>2, IncidentType, Zenon
  <2>2. schedule' \subseteq 1..MaxGeneration
    <3>1. CASE gen[i] > 0 /\ schedule' = schedule \cup {gen[i]}
      <4>1. gen[i] \in 1..MaxGeneration
        BY <3>1
      <4> QED
        BY <3>1, <4>1, ScheduleType, Zenon
    <3> QED
      BY <1>9, <3>1, Zenon DEF KillInvocation
  <2> QED
    BY <1>9, <2>1, <2>2, ReturnType DEF KillInvocation
<1>10. ASSUME NEW b \in Box, RunBox(b) \/ Reap(b) PROVE TInv'
  BY <1>10 DEF CheckBelowLimit, RunBox, AskMutex, FinishMigration, BoxDies, Reap
<1>11. CASE UNCHANGED vars
  BY <1>11 DEF vars, CheckBelowLimit
<1> QED
  BY <1>1, <1>2, <1>3, <1>4, <1>5, <1>6, <1>7, <1>8, <1>9, <1>10, <1>11
     DEF Next, Handle

\* Every variable of the dispatch keeps its type: in particular a chain never
\* runs past its last generation.
THEOREM TypeCorrect == Spec => []TypeOK
<1>1. Spec => []TInv
  BY InitTInv, NextTInv, PTL DEF Spec
<1> QED
  BY <1>1, PTL DEF TInv

-----------------------------------------------------------------------------
LEMMA InitChainInv == Init => ChainInv
  BY DEF Init, ChainInv, IdleIsFresh, LaunchIsFollowed, BoxIsFollowed, RefusalIsFollowed

\* What a step does to the promise of a re-check.
LEMMA NextChainInv ==
    ASSUME TInv, ChainInv, [Next]_vars
    PROVE  ChainInv'
<1> USE DEF TInv, TypeOK, ChainInv, IdleIsFresh, LaunchIsFollowed, BoxIsFollowed,
            RefusalIsFollowed, Followed, invVars
<1>1. ASSUME NEW i \in Invocation, Dispatch(i) PROVE ChainInv'
  BY <1>1 DEF Dispatch, Goto
<1>2. ASSUME NEW i \in Invocation, FireSchedule(i) PROVE ChainInv'
  <2>1. pc' = [pc EXCEPT ![i] = "check"] /\ pc'[i] = "check"
    BY <1>2 DEF FireSchedule
  <2>2. Followed'
    BY <2>1
  <2> QED
    BY <1>2, <2>1, <2>2 DEF FireSchedule
<1>3. ASSUME NEW i \in Invocation, ReadMarker(i) PROVE ChainInv'
  <2>1. CASE marker # "refused_mutex_active"
    <3>1. /\ pc' = [pc EXCEPT ![i] = "idle"] /\ gen' = [gen EXCEPT ![i] = 0]
          /\ marker' = marker /\ box' = box /\ schedule' = schedule
          /\ AnswerOutstanding /\ ~AnotherCheck(i) => incident' # {}
          /\ incident # {} => incident' # {}
      BY <1>3, <2>1 DEF ReadMarker, Return, Goto
    <3>2. AnswerOutstanding => Followed'
      BY <3>1 DEF AnotherCheck
    <3>3. IdleIsFresh'
      BY <3>1
    <3>4. LaunchIsFollowed' /\ BoxIsFollowed'
      BY <3>1, <3>2 DEF AnswerOutstanding
    <3> QED
      BY <2>1, <3>1, <3>3, <3>4
  <2>2. CASE marker = "refused_mutex_active"
    BY <1>3, <2>2 DEF ReadMarker, Goto, Return
  <2> QED
    BY <2>1, <2>2
<1>4. ASSUME NEW i \in Invocation, ArmNext(i) PROVE ChainInv'
  BY <1>4 DEF ArmNext, Goto, Return
<1>5. ASSUME NEW i \in Invocation, ProbeLive(i) PROVE ChainInv'
  BY <1>5 DEF ProbeLive, Goto, Return
<1>6. ASSUME NEW i \in Invocation, LaunchInstance(i) PROVE ChainInv'
  BY <1>6 DEF LaunchInstance, Return
<1>7. ASSUME NEW i \in Invocation, SendBootstrap(i) PROVE ChainInv'
  BY <1>7 DEF SendBootstrap, Goto, Return
<1>8. ASSUME NEW i \in Invocation, ArmFirst(i) PROVE ChainInv'
  BY <1>8 DEF ArmFirst, Return
<1>9. ASSUME NEW i \in Invocation, KillInvocation(i) PROVE ChainInv'
  BY <1>9 DEF KillInvocation, Return
<1>10. ASSUME NEW b \in Box, RunBox(b) \/ Reap(b) PROVE ChainInv'
  BY <1>10 DEF RunBox, AskMutex, FinishMigration, BoxDies, Reap
<1>11. CASE UNCHANGED vars
  BY <1>11 DEF vars
<1> QED
  BY <1>1, <1>2, <1>3, <1>4, <1>5, <1>6, <1>7, <1>8, <1>9, <1>10, <1>11
     DEF Next, Handle

LEMMA ChainInvGivesRefusal == ChainInv => RefusalIsRechecked
  BY DEF ChainInv, RefusalIsFollowed, Followed, RefusalIsRechecked, Quiet

\* A refusal is re-checked until a box migrates, or one of the incidents on
\* record ended the chain, whenever schedules fire and whoever is killed.
THEOREM RefusalsAreRechecked == Spec => []RefusalIsRechecked
<1>1. TInv /\ ChainInv /\ [Next]_vars => (TInv /\ ChainInv)'
  BY NextTInv, NextChainInv
<1>2. Init => TInv /\ ChainInv
  BY InitTInv, InitChainInv
<1> QED
  BY <1>1, <1>2, ChainInvGivesRefusal, PTL DEF Spec
=============================================================================
