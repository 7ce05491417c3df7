---------------------------- MODULE GroomDispatch ----------------------------
(***************************************************************************)
(* The backlog groom: executions of the dispatch state machine             *)
(* (infrastructure/step_function_groom.json), the Lambda that launches and *)
(* reconciles the boxes (infrastructure/lambdas/scheduled-groom-dispatcher *)
(* /index.py), and the reaper of orphaned boxes.                           *)
(*                                                                         *)
(* One lane (a tier_tag) is modelled: lanes share only the short lease     *)
(* around RunInstances and the daily ceiling, whose refusals are choices   *)
(* here.  Every Lambda invocation that may launch is a Run with its own    *)
(* run_token, and launches at most one box.  The deployed ItemSelector     *)
(* sets max_retries to 0, so a lane has one attempt and the relaunch       *)
(* ladder behind CheckRetryBudget is never entered.                        *)
(***************************************************************************)
EXTENDS Naturals, FiniteSets

CONSTANTS
    MaxExecution, \* bound: executions of the dispatch state machine
    Run,          \* bound: launching invocations, and with them boxes
    None

\* The executions in the order of their (startDate, executionArn).
Execution == 1..MaxExecution

ASSUME ConstantsAssumption ==
    MaxExecution \in Nat /\ None \notin Execution \cup Run

VARIABLES
    phase,     \* per Execution: where its state machine is
    lane,      \* per Execution: its lane's iteration of MapLaunches
    owner,     \* per Run: the execution whose task token it carries, or None
    pc,        \* per Run: the point of its Lambda invocation
    box,       \* per Run: its box
    late,      \* the runs whose MAX_RUNTIME_SECONDS have passed
    lease,     \* the lane lease: the run that holds it, or None
    ledger,    \* per Run: its dispatch-ledger entry
    latest,    \* the run whose ledger entry was written last, or None
    artifact,  \* the runs whose run artifact is in S3
    completed, \* the runs whose completion marker is in S3
    actioned   \* per Run: what the reconciler closed its expectation with

execVars == <<phase, lane>>
runVars == <<owner, pc>>
storeVars == <<lease, ledger, latest>>
boxVars == <<box, late, artifact, completed>>
vars == <<execVars, runVars, storeVars, boxVars, actioned>>

Phase == {"unstarted", "decide", "lane", "sweep", "ended", "failed"}
Lane == {"none", "waiting", "checking", "succeeded", "skipped", "failed"}
Point == {"unused", "probe", "lease", "ceiling", "launch", "record",
          "bootstrap", "returned"}
Box == {"none", "up", "working", "winding", "gone", "unlisted", "forgotten"}
Alive == {"up", "working", "winding"}
Outcome == {"open", "lane_died", "lane_reclaimed_post_run", "overdue"}

-----------------------------------------------------------------------------
Init ==
    /\ phase = [e \in Execution |-> "unstarted"]
    /\ lane = [e \in Execution |-> "none"]
    /\ owner = [r \in Run |-> None]
    /\ pc = [r \in Run |-> "unused"]
    /\ box = [r \in Run |-> "none"]
    /\ late = {} /\ lease = None
    /\ ledger = [r \in Run |-> "none"]
    /\ latest = None
    /\ artifact = {} /\ completed = {}
    /\ actioned = [r \in Run |-> "open"]

-----------------------------------------------------------------------------
(* The execution *)

Running == {e \in Execution : phase[e] \notin {"unstarted", "ended", "failed"}}

StartExecution(e) ==
    /\ phase[e] = "unstarted"
    /\ \A f \in 1..(e - 1) : phase[f] # "unstarted"
    /\ phase' = [phase EXCEPT ![e] = "decide"]
    /\ UNCHANGED <<lane, runVars, storeVars, boxVars, actioned>>

\* Mutant of Blockers: a fresh trigger preempts the cycle at work.
LaterBlockers(e) == {f \in Running : f > e}

\* _concurrent_cycle_blockers: the running executions that started earlier.
Blockers(e) == {f \in Running : f < e}

\* A new Lambda invocation for the lane, on behalf of execution e or of none.
\* Tokens not used yet are all alike, so the next one is chosen.
Invoke(r, e) ==
    /\ pc[r] = "unused" /\ r = CHOOSE q \in Run : pc[q] = "unused"
    /\ pc' = [pc EXCEPT ![r] = "probe"]
    /\ owner' = [owner EXCEPT ![r] = e]

\* DecideLaunches, then MapLaunches with the lane in it, or AllSkipped: a
\* blocker, a probe without a verdict and a backlog below the floor all mean
\* no launch.  The Lambda itself may fail: no lane, and no sweep either.
Decide(e) ==
    /\ phase[e] = "decide"
    /\ \/ /\ Blockers(e) = {}
          /\ \E r \in Run : Invoke(r, e)
          /\ phase' = [phase EXCEPT ![e] = "lane"]
          /\ lane' = [lane EXCEPT ![e] = "waiting"]
       \/ /\ phase' \in {[phase EXCEPT ![e] = "sweep"],
                         [phase EXCEPT ![e] = "failed"]}
          /\ UNCHANGED <<lane, runVars>>
    /\ UNCHANGED <<storeVars, boxVars, actioned>>

\* The task of r's token ends; a token of a task that ended is refused.
Answer(r, state) ==
    lane' = [e \in Execution |->
               IF e = owner[r] /\ lane[e] = "waiting" THEN state ELSE lane[e]]

\* Such an answer, or one that is lost on its way.
TryAnswer(r, state) == Answer(r, state) \/ UNCHANGED lane

\* Mutant of LaneTimesOut: the wait is bounded by the life of the box.
LaneEndsWithBox(r) ==
    /\ pc[r] = "returned" /\ box[r] = "gone"
    /\ \E e \in Execution : e = owner[r] /\ lane[e] = "waiting"
    /\ Answer(r, "checking")
    /\ UNCHANGED <<phase, runVars, storeVars, boxVars, actioned>>

\* Mutant of LaneTimesOut: the wait is shorter than the launching invocation.
LaneTimesOutEarly(r) ==
    /\ r \in late \/ box[r] \in {"none", "gone"}
    /\ \E e \in Execution : e = owner[r] /\ lane[e] = "waiting"
    /\ Answer(r, "checking")
    /\ UNCHANGED <<phase, runVars, storeVars, boxVars, actioned>>

\* The 13800 s of LaunchGroomSpot run from before the Lambda's first call, so
\* they are over no later than the box's.
LaneTimesOut(r) ==
    /\ pc[r] = "returned"
    /\ r \in late \/ box[r] \notin Alive
    /\ \E e \in Execution : e = owner[r] /\ lane[e] = "waiting"
    /\ Answer(r, "checking")
    /\ UNCHANGED <<phase, runVars, storeVars, boxVars, actioned>>

\* _lane_run_completed for the lane's newest ledger entry, or "": the probe
\* is best-effort.
MarkerCheck == latest \in artifact \cup completed

\* CheckCompletionMarkerTaskToken and CheckRetryBudget; there is no budget.
CheckRetryBudget(e) ==
    /\ lane[e] = "checking"
    /\ \/ MarkerCheck /\ lane' = [lane EXCEPT ![e] = "succeeded"]
       \/ lane' = [lane EXCEPT ![e] = "failed"]
    /\ UNCHANGED <<phase, runVars, storeVars, boxVars, actioned>>

\* CheckMapLaneOutcomes, DispatchEndOfSfSweep and the terminal state.  The
\* sweep box runs in a lane of its own; failing to launch it fails nothing.
Conclude(e) ==
    /\ \/ phase[e] = "sweep"
       \/ phase[e] = "lane" /\ lane[e] \in {"succeeded", "skipped", "failed"}
    /\ phase' = [phase EXCEPT ![e] =
                   IF lane[e] = "failed" THEN "failed" ELSE "ended"]
    /\ UNCHANGED <<lane, runVars, storeVars, boxVars, actioned>>

-----------------------------------------------------------------------------
(* _launch_groom_spot *)

\* A run that winds down on an exhausted quota asks for a rescue box.
InvokeFallback(r) ==
    /\ \E q \in Run : box[q] = "winding"
    /\ Invoke(r, None)
    /\ UNCHANGED <<execVars, storeVars, boxVars, actioned>>

Goto(r, point) == pc' = [pc EXCEPT ![r] = point] /\ UNCHANGED owner

\* launched: false.  The handler answers the token itself, or tries to.
Refuse(r) == Goto(r, "returned") /\ TryAnswer(r, "skipped")

\* The invocation raises or is killed: its task fails with that error.
Raise(r) == Goto(r, "returned") /\ Answer(r, "checking")

LiveBoxes == {r \in Run : box[r] \in Alive}

\* _running_tier_instance_ids fails open.
ProbeLane(r) ==
    /\ pc[r] = "probe"
    /\ \/ Refuse(r)                              \* the kill switch
       \/ LiveBoxes # {} /\ Refuse(r)            \* concurrent_tier_skip
       \/ Goto(r, "lease") /\ UNCHANGED lane
    /\ UNCHANGED <<phase, storeVars, boxVars, actioned>>

\* Mutant of AcquireLaneLease: every attempt forces its way in.
ForceLaneLease(r) ==
    /\ pc[r] = "lease"
    /\ lease' = r
    /\ Goto(r, "ceiling")
    /\ UNCHANGED <<execVars, ledger, latest, boxVars, actioned>>

\* lane_lease_yielded.
YieldLane(r) ==
    /\ pc[r] = "lease" /\ lease # None
    /\ Refuse(r)
    /\ UNCHANGED <<phase, storeVars, boxVars, actioned>>

AcquireLaneLease(r) ==
    /\ pc[r] = "lease" /\ lease = None
    /\ lease' = r
    /\ Goto(r, "ceiling")
    /\ UNCHANGED <<execVars, ledger, latest, boxVars, actioned>>

\* _prior_launch_count_today, which raises when it cannot count, with the lease
\* held; then the ledger entry without an instance, best-effort.
CheckCeiling(r) ==
    /\ pc[r] = "ceiling"
    /\ \/ /\ Goto(r, "launch")
          /\ \/ ledger' = [ledger EXCEPT ![r] = "registered"] /\ latest' = r
             \/ UNCHANGED <<ledger, latest>>
          /\ UNCHANGED <<lane, lease>>
       \/ Refuse(r) /\ lease' = None /\ UNCHANGED <<ledger, latest>>
       \/ Raise(r) /\ UNCHANGED storeVars
    /\ UNCHANGED <<phase, boxVars, actioned>>

\* RunInstances under the spot-launch lease.  Whatever makes it raise is taken
\* for "no instance exists", a call that took effect and lost its answer too:
\* the lane is given back.
Launch(r) ==
    /\ pc[r] = "launch"
    /\ \/ /\ box' = [box EXCEPT ![r] = "up"]
          /\ Goto(r, "record") /\ UNCHANGED <<lane, lease>>
       \/ /\ Raise(r) /\ lease' = None
          /\ box' \in {box, [box EXCEPT ![r] = "up"]}
    /\ UNCHANGED <<phase, ledger, latest, late, artifact, completed,
                   actioned>>

Terminated(r) == box' = [box EXCEPT ![r] = "gone"]

\* Mutant of RecordInstance: a write that fails leaves half an entry.
RecordTorn(r) ==
    /\ pc[r] = "record"
    /\ ledger' = [ledger EXCEPT ![r] = "torn"] /\ latest' = r
    /\ Goto(r, "bootstrap")
    /\ UNCHANGED <<execVars, lease, boxVars, actioned>>

\* The entry again, with instance_id, deadline and task token: or the box goes.
RecordInstance(r) ==
    /\ pc[r] = "record"
    /\ \/ /\ ledger' = [ledger EXCEPT ![r] = "recorded"] /\ latest' = r
          /\ Goto(r, "bootstrap") /\ UNCHANGED <<lane, box>>
       \/ /\ Raise(r) /\ Terminated(r)
          /\ UNCHANGED <<ledger, latest>>
    /\ UNCHANGED <<phase, lease, late, artifact, completed, actioned>>

\* SSM online and the command sent: or the box goes.  The lease stays.
SendBootstrap(r) ==
    /\ pc[r] = "bootstrap"
    /\ \/ /\ box[r] = "up"
          /\ box' = [box EXCEPT ![r] = "working"]
          /\ Goto(r, "returned") /\ UNCHANGED lane
       \/ Raise(r) /\ Terminated(r)
    /\ UNCHANGED <<phase, storeVars, late, artifact, completed, actioned>>

\* The function timeout kills the invocation; nothing of it runs any more.
KillInvocation(r) ==
    /\ pc[r] \notin {"unused", "returned"}
    /\ Raise(r)
    /\ UNCHANGED <<phase, storeVars, boxVars, actioned>>

-----------------------------------------------------------------------------
(* The box *)

\* The driver drained its queue and wrote the run artifact.
FinishWork(r) ==
    /\ box[r] = "working"
    /\ box' = [box EXCEPT ![r] = "winding"]
    /\ artifact' = artifact \cup {r}
    /\ UNCHANGED <<execVars, runVars, storeVars, late, completed, actioned>>

\* The completion marker, the callback of finish(), the end of the box.
WindDown(r) ==
    /\ box[r] = "winding"
    /\ completed' = completed \cup {r}
    /\ TryAnswer(r, "succeeded")
    /\ Terminated(r)
    /\ UNCHANGED <<phase, runVars, storeVars, late, artifact, actioned>>

\* The run exits non-zero: a completion marker all the same, and GroomFailed.
RunFails(r) ==
    /\ box[r] = "working"
    /\ completed' = completed \cup {r}
    /\ TryAnswer(r, "failed")
    /\ Terminated(r)
    /\ UNCHANGED <<phase, runVars, storeVars, late, artifact, actioned>>

\* A spot reclaim, which a bootstrapped box may announce (SpotInterrupted),
\* or any other end without a marker.
BoxDies(r) ==
    /\ box[r] \in Alive
    /\ \/ box[r] # "up" /\ Answer(r, "checking")
       \/ UNCHANGED lane
    /\ Terminated(r)
    /\ UNCHANGED <<phase, runVars, storeVars, late, artifact, completed,
                   actioned>>

\* MAX_RUNTIME_SECONDS after the lease was taken.
Age(r) ==
    /\ pc[r] = "returned" /\ r \notin late
    /\ r = lease \/ box[r] # "none"
    /\ late' = late \cup {r}
    /\ UNCHANGED <<execVars, runVars, storeVars, box, artifact, completed,
                   actioned>>

LeaseExpires ==
    /\ lease \in late
    /\ lease' = None
    /\ UNCHANGED <<execVars, runVars, ledger, latest, boxVars, actioned>>

\* The box's own watchdog, and the execution timeout of the SSM command.
Watchdog(r) ==
    /\ r \in late /\ box[r] \in {"working", "winding"}
    /\ Terminated(r)
    /\ UNCHANGED <<execVars, runVars, storeVars, late, artifact, completed,
                   actioned>>

\* Mutant of Reap: the reaper collects only boxes with a bootstrap.
ReapBootstrapped(r) ==
    /\ r \in late /\ box[r] = "working"
    /\ Terminated(r)
    /\ UNCHANGED <<execVars, runVars, storeVars, late, artifact, completed,
                   actioned>>

\* spot-orphan-reaper: a groom box has no deadline tag, so the global cap of
\* six hours and a grace applies to it.
Reap(r) ==
    /\ r \in late /\ box[r] \in Alive
    /\ Terminated(r)
    /\ UNCHANGED <<execVars, runVars, storeVars, late, artifact, completed,
                   actioned>>

-----------------------------------------------------------------------------
(* _reconcile_lane_death, one expectation of one tick *)

\* The state it finds for the entry's instance; an entry without one has none.
Seen(r) == IF ledger[r] = "recorded" THEN box[r] ELSE "absent"

Open(r) == /\ ledger[r] # "none" /\ actioned[r] = "open" /\ r \notin completed
           /\ box[r] # "forgotten"

\* One describe_instances for the instances of all open entries: an id that EC2
\* no longer lists fails the call, and the tick does nothing at all.
Blind == \E r \in Run : box[r] = "unlisted"

\* EC2 drops a terminated instance from its lists after a while.  Told apart
\* only for an instance the reconciler would still ask for.
Unlist(r) ==
    /\ box[r] = "gone" /\ ledger[r] = "recorded" /\ Open(r)
    /\ box' = [box EXCEPT ![r] = "unlisted"]
    /\ UNCHANGED <<execVars, runVars, storeVars, late, artifact, completed,
                   actioned>>

\* scan_days: today and yesterday.  The entry leaves the scan, still open.
LeaveScan(r) ==
    /\ box[r] = "unlisted"
    /\ box' = [box EXCEPT ![r] = "forgotten"]
    /\ UNCHANGED <<execVars, runVars, storeVars, late, artifact, completed,
                   actioned>>

\* The actioned marker, best-effort: without it the next tick pages again.
Close(r, outcome) == actioned' \in {actioned, [actioned EXCEPT ![r] = outcome]}

\* Mutant of ReconcileDead: only an entry without an instance is paged.
ReconcileAbsent(r) ==
    /\ ~Blind /\ Open(r) /\ Seen(r) = "absent"
    /\ Close(r, "lane_died")
    /\ UNCHANGED <<execVars, runVars, storeVars, boxVars>>

\* The box is gone: paged as a death, or as reclaimed after its run when the
\* artifact can be read; then LaneDeath to the token the entry holds.
ReconcileDead(r) ==
    /\ ~Blind /\ Open(r) /\ Seen(r) \notin Alive
    /\ \/ r \in artifact /\ Close(r, "lane_reclaimed_post_run")
       \/ Close(r, "lane_died")
    /\ IF ledger[r] = "recorded" THEN TryAnswer(r, "checking")
                                 ELSE UNCHANGED lane
    /\ UNCHANGED <<phase, runVars, storeVars, boxVars>>

\* The box runs past its deadline: paged, and left alone.
ReconcileOverdue(r) ==
    /\ ~Blind /\ Open(r) /\ Seen(r) \in Alive /\ r \in late
    /\ Close(r, "overdue")
    /\ UNCHANGED <<execVars, runVars, storeVars, boxVars>>

-----------------------------------------------------------------------------
Advance(e) == Decide(e) \/ CheckRetryBudget(e) \/ Conclude(e)

Handle(r) ==
    \/ ProbeLane(r) \/ YieldLane(r) \/ AcquireLaneLease(r) \/ CheckCeiling(r)
    \/ Launch(r) \/ RecordInstance(r) \/ SendBootstrap(r) \/ KillInvocation(r)

Work(r) == FinishWork(r) \/ WindDown(r) \/ RunFails(r) \/ BoxDies(r)

Next ==
    \/ \E e \in Execution : StartExecution(e) \/ Advance(e)
    \/ \E r \in Run :
         \/ InvokeFallback(r) \/ Handle(r) \/ Work(r)
         \/ LaneTimesOut(r) \/ Age(r) \/ Watchdog(r) \/ Reap(r)
         \/ Unlist(r) \/ LeaveScan(r)
         \/ ReconcileDead(r) \/ ReconcileOverdue(r)
    \/ LeaseExpires

Spec == Init /\ [][Next]_vars

\* State machine and Lambda run on; time passes, and what is due then comes:
\* the task timeout, the reaper and the tick of the reconciler, whose marker
\* is written if it is tried often enough.
Fairness ==
    /\ \A e \in Execution : WF_vars(Advance(e))
    /\ \A r \in Run :
         /\ WF_vars(Handle(r)) /\ WF_vars(Age(r))
         /\ WF_vars(LaneTimesOut(r)) /\ WF_vars(Reap(r))
         /\ SF_vars(ReconcileDead(r) /\ actioned'[r] # "open")

FairSpec == Spec /\ Fairness

-----------------------------------------------------------------------------
(* What the groom promises about whose turn it is *)

\* A cycle is at the lane in MapLaunches and through when it passed it by.
TurnOf(e) == IF phase[e] = "lane" THEN "lane"
             ELSE IF phase[e] \in {"unstarted", "decide"} THEN "before"
             ELSE "after"

\* A box that nobody wrote down and nobody will bootstrap: it never works.
Adrift(r) == box[r] = "up" /\ pc[r] = "returned" /\ ledger[r] # "recorded"

\* The boxes at work or on their way to it, within their runtime bound.
InLane == {r \in Run : box[r] \in Alive /\ r \notin late /\ ~Adrift(r)}

PlaceOf(r) == IF box[r] = "none" THEN "out"
              ELSE IF r \in InLane THEN "in" ELSE "left"

SenderOf(r) == IF box[r] = "none" THEN None ELSE owner[r]

Turns == INSTANCE GroomTurns WITH
           turn <- [e \in Execution |-> TurnOf(e)],
           place <- [r \in Run |-> PlaceOf(r)],
           sender <- [r \in Run |-> SenderOf(r)]

\* Cycles come to the lane in the order of their start, and a box is launched
\* into the empty lane, one for a cycle and only while it is that cycle's
\* turn: no invocation outlives its cycle to launch for it.
ImplementsTurns == Turns!Spec

-----------------------------------------------------------------------------
(* Properties *)

\* The type of every variable.
TypeOK ==
    /\ phase \in [Execution -> Phase] /\ lane \in [Execution -> Lane]
    /\ owner \in [Run -> Execution \cup {None}]
    /\ pc \in [Run -> Point]
    /\ box \in [Run -> Box] /\ late \subseteq Run
    /\ lease \in Run \cup {None} /\ latest \in Run \cup {None}
    /\ ledger \in [Run -> {"none", "registered", "recorded"}]
    /\ artifact \subseteq Run /\ completed \subseteq Run
    /\ actioned \in [Run -> Outcome]

\* The lane lease alone keeps a second box out of the lane: the probe of EC2
\* fails open and two invocations can both pass it.  Only a box past its
\* runtime bound can have a companion, until its watchdog ends it, or one that
\* came up although its launch raised: no work is ever sent to that one.
OneBoxPerLane ==
    \A r, q \in InLane : r = q

\* Two executions are never both at their lanes, although an execution is
\* started whenever a schedule or an operator says so.
OneCycleLaunches ==
    \A e, f \in Execution : phase[e] = "lane" /\ phase[f] = "lane" => e = f

\* A launched box that dies without a completion marker does not die
\* unnoticed: the reconciler comes to close its expectation.  What alone can
\* keep it from that is a death, this one or another, that stays open until
\* EC2 no longer lists the instance.
DeathIsClosed ==
    \A r \in Run : (ledger[r] = "recorded" /\ box[r] = "gone"
                      /\ r \notin completed) ~> (actioned[r] # "open" \/ Blind)

\* Every started execution ends, whatever becomes of the box it waits for and
\* of the callback that should tell it.
CycleEnds ==
    \A e \in Execution : phase[e] # "unstarted" ~> phase[e] \in {"ended", "failed"}

\* No box stays for ever: not one whose invocation was killed before the
\* bootstrap that arms watchdog and trap.
BoxEnds == \A r \in Run : box[r] \in Alive ~> box[r] = "gone"

\* "Answer the SF's ONE question before a relaunch: did this lane finish?"
\* (index.py:1796): a lane that reads as succeeded was worked by a box of its
\* own execution.
SuccessIsOwnRun ==
    \A e \in Execution : lane[e] = "succeeded" =>
        \E r \in Run : owner[r] = e /\ r \in artifact \cup completed
=============================================================================
