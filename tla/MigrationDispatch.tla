-------------------------- MODULE MigrationDispatch --------------------------
(***************************************************************************)
(* How one head of the migration chain gets its box: the workflow          *)
(* (.github/workflows/run-arctic-migrations.yml), the dispatcher Lambda    *)
(* (infrastructure/lambdas/arctic-migration-dispatcher/index.py) with its  *)
(* one-shot defer schedules, the box as the dispatcher sees it, and the    *)
(* fleet's spot reaper (infrastructure/lambdas/spot-orphan-reaper).        *)
(*                                                                         *)
(* Marker key, schedule names and the box tag all carry the head number,   *)
(* so heads do not interact here and one is modelled.  What a box does to  *)
(* the library is UniverseMigration's subject.                             *)
(***************************************************************************)
EXTENDS Naturals, FiniteSets

CONSTANTS
    Invocation,   \* bound: Lambda invocations at a time
    Box,          \* bound: EC2 instances at a time
    MaxDispatch,  \* bound: workflow runs for this head
    MaxGeneration,\* DEFER_MAX_GENERATION
    MaxKill,      \* bound: invocations that end at the Lambda timeout
    NoBox         \* the invocation has launched none

ASSUME ConstantsAssumption ==
    /\ MaxDispatch \in Nat /\ MaxKill \in Nat /\ MaxGeneration \in Nat \ {0}
    /\ NoBox \notin Box

VARIABLES
    pc, gen, mine,  \* per Invocation: its point, defer_generation, its box
    box,            \* per Box: its life
    tagged,         \* the boxes carrying the head's HEAD_TAG_KEY
    marker,         \* the completion marker of the head
    schedule,       \* the generations with a pending one-shot schedule
    dispatched,     \* number of workflow runs so far
    kills,          \* number of invocations killed so far
    p1,             \* a P1 issue was filed for this head
    migrated,       \* history: a box brought the library to this head
    incident        \* history: why a defer chain ended other than by recovery

invVars == <<pc, gen, mine>>
vars == <<invVars, box, tagged, marker, schedule, dispatched, kills, p1,
          migrated, incident>>

InvPc == {"idle", "check", "arm", "probe", "launch", "bootstrap", "armFirst"}
BoxState == {"gone", "booting", "bootstrapped", "migrating"}
LiveBox == {"booting", "bootstrapped", "migrating"}
Marker == {"none", "refused_mutex_active", "settled"}
Incident == {"defer_exhausted", "schedule_failed", "marker_unreadable", "killed",
             "overtaken"}

-----------------------------------------------------------------------------
Init ==
    /\ pc = [i \in Invocation |-> "idle"]
    /\ gen = [i \in Invocation |-> 0]
    /\ mine = [i \in Invocation |-> NoBox]
    /\ box = [b \in Box |-> "gone"]
    /\ tagged = {} /\ marker = "none" /\ schedule = {}
    /\ dispatched = 0 /\ kills = 0 /\ p1 = FALSE /\ migrated = FALSE /\ incident = {}

Goto(i, point) == pc' = [pc EXCEPT ![i] = point] /\ UNCHANGED <<gen, mine>>

\* The handler returns.  The workflow reads the verdict of its own call and
\* files a P1 for one that is neither a launch nor benign; a verdict returned
\* to the scheduler is read by nobody.
Return(i, alarming) ==
    /\ pc' = [pc EXCEPT ![i] = "idle"]
    /\ gen' = [gen EXCEPT ![i] = 0]
    /\ mine' = [mine EXCEPT ![i] = NoBox]
    /\ p1' = (p1 \/ (alarming /\ gen[i] = 0))

\* A push to main that touches migrations/, or a manual re-trigger.  The
\* workflow's concurrency group runs one synchronous invoke at a time.
Dispatch(i) ==
    /\ pc[i] = "idle" /\ dispatched < MaxDispatch
    /\ \A j \in Invocation : pc[j] # "idle" => gen[j] > 0
    /\ dispatched' = dispatched + 1
    /\ Goto(i, "probe")
    /\ UNCHANGED <<box, tagged, marker, schedule, kills, p1, migrated, incident>>

\* A one-shot schedule fires after DEFER_DELAY_SECONDS, wherever the launch it
\* was armed for stands by then, and deletes itself.
FireSchedule(i) ==
    /\ pc[i] = "idle"
    /\ \E g \in schedule :
         /\ schedule' = schedule \ {g}
         /\ gen' = [gen EXCEPT ![i] = g]
    /\ pc' = [pc EXCEPT ![i] = "check"]
    /\ UNCHANGED <<mine, box, tagged, marker, dispatched, kills, p1, migrated,
                   incident>>

\* Mutant of ReadMarker: the last generation re-launches once more.
ReadMarkerPastLimit(i) ==
    /\ pc[i] = "check"
    /\ \/ /\ marker # "refused_mutex_active"
          /\ Return(i, FALSE) /\ UNCHANGED incident
       \/ /\ marker = "refused_mutex_active"
          /\ \/ /\ gen[i] > MaxGeneration
                /\ Return(i, TRUE)
                /\ incident' = incident \cup {"defer_exhausted"}
             \/ /\ gen[i] <= MaxGeneration
                /\ Goto(i, "arm") /\ UNCHANGED <<p1, incident>>
    /\ UNCHANGED <<box, tagged, marker, schedule, dispatched, kills, migrated>>

\* An answer is outstanding: a box has yet to ask the mutex, or a deferred
\* invocation is on its way to launch one.
AnswerOutstanding ==
    \/ \E b \in Box : box[b] = "bootstrapped"
    \/ \E j \in Invocation : gen[j] > 0 /\ pc[j] \in {"probe", "launch", "bootstrap"}

\* Another check than that of i is pending, under way, or about to be armed.
AnotherCheck(i) ==
    \/ schedule # {}
    \/ \E j \in Invocation \ {i} : pc[j] \in {"check", "arm", "armFirst"}

\* _handle_deferred: only a marker that still refuses keeps the chain going.
\* A missing marker, an older one, or one that cannot be read, counts as
\* recovered - whatever a box that has not answered yet will write.
ReadMarker(i) ==
    /\ pc[i] = "check"
    /\ \/ /\ marker # "refused_mutex_active"
          /\ Return(i, FALSE)
          /\ incident' = IF AnswerOutstanding /\ ~AnotherCheck(i)
                           THEN incident \cup {"overtaken"} ELSE incident
       \/ /\ marker = "refused_mutex_active"
          /\ \/ /\ gen[i] >= MaxGeneration
                /\ Return(i, TRUE)
                /\ incident' = incident \cup {"defer_exhausted"}
             \/ /\ gen[i] < MaxGeneration
                /\ Goto(i, "arm") /\ UNCHANGED <<p1, incident>>
       \/ /\ Return(i, FALSE)
          /\ incident' = incident \cup {"marker_unreadable"}
    /\ UNCHANGED <<box, tagged, marker, schedule, dispatched, kills, migrated>>

\* Mutant of ArmNext: the next check carries the same generation.
ArmSame(i) ==
    /\ pc[i] = "arm"
    /\ schedule' = schedule \cup {gen[i]}
    /\ Goto(i, "probe")
    /\ UNCHANGED <<box, tagged, marker, dispatched, kills, migrated, p1, incident>>

\* The next schedule is created before the launch; one that exists already
\* (ConflictException) is as good.
ArmNext(i) ==
    /\ pc[i] = "arm"
    /\ \/ /\ schedule' = schedule \cup {gen[i] + 1}
          /\ Goto(i, "probe") /\ UNCHANGED <<p1, incident>>
       \/ /\ Return(i, TRUE)
          /\ incident' = incident \cup {"schedule_failed"}
          /\ UNCHANGED schedule
    /\ UNCHANGED <<box, tagged, marker, dispatched, kills, migrated>>

\* _running_instance_ids: live instances that carry the head's tag.
RunningInstances == {b \in tagged : box[b] \in LiveBox}

ProbeLive(i) ==
    /\ pc[i] = "probe"
    /\ \/ Return(i, TRUE)                                     \* probe_failed
       \/ RunningInstances # {} /\ Return(i, FALSE)           \* concurrent_skip
       \/ RunningInstances = {} /\ Goto(i, "launch") /\ UNCHANGED p1
    /\ UNCHANGED <<box, tagged, marker, schedule, dispatched, kills, migrated,
                   incident>>

\* _launch_instance gives the box its Name tag and no other.
LaunchInstance(i) ==
    /\ pc[i] = "launch"
    /\ \/ /\ \E b \in Box :
               /\ box[b] = "gone" /\ \A j \in Invocation : mine[j] # b
               /\ box' = [box EXCEPT ![b] = "booting"]
               /\ mine' = [mine EXCEPT ![i] = b]
          /\ pc' = [pc EXCEPT ![i] = "bootstrap"]
          /\ UNCHANGED <<gen, p1>>
       \/ Return(i, TRUE) /\ UNCHANGED box                    \* launch_failed
    /\ UNCHANGED <<tagged, marker, schedule, dispatched, kills, migrated, incident>>

\* Wait for SSM and send the command, or terminate the box; the terminate
\* call may itself fail.
SendBootstrap(i) ==
    /\ pc[i] = "bootstrap"
    /\ \/ /\ box' = [box EXCEPT ![mine[i]] =
                       IF @ = "booting" THEN "bootstrapped" ELSE @]
          /\ IF gen[i] = 0 THEN Goto(i, "armFirst") /\ UNCHANGED p1
                           ELSE Return(i, FALSE)
       \/ /\ box' \in {[box EXCEPT ![mine[i]] = "gone"], box}
          /\ Return(i, TRUE)                                  \* post_launch_failed
    /\ UNCHANGED <<tagged, marker, schedule, dispatched, kills, migrated, incident>>

\* Mutant of ArmFirst: a first launch arms no check.
ArmNone(i) ==
    /\ pc[i] = "armFirst"
    /\ Return(i, FALSE)
    /\ UNCHANGED <<box, tagged, marker, schedule, dispatched, kills, migrated,
                   incident>>

\* The first launch arms generation 1; a failure of that is only logged.
ArmFirst(i) ==
    /\ pc[i] = "armFirst"
    /\ Return(i, FALSE)
    /\ \/ schedule' = schedule \cup {1} /\ UNCHANGED incident
       \/ /\ incident' = incident \cup {"schedule_failed"}
          /\ UNCHANGED schedule
    /\ UNCHANGED <<box, tagged, marker, dispatched, kills, migrated>>

-----------------------------------------------------------------------------
(* The Lambda's timeout *)

\* The invocation ends where it stands, whatever it left running.  The
\* workflow's call fails.  A deferred invocation may be delivered again.
KillInvocation(i) ==
    /\ pc[i] # "idle" /\ kills < MaxKill
    /\ kills' = kills + 1
    /\ Return(i, TRUE)
    /\ \/ gen[i] > 0 /\ schedule' = schedule \cup {gen[i]} /\ UNCHANGED incident
       \/ /\ UNCHANGED schedule
          /\ incident' = IF pc[i] \in {"check", "arm", "armFirst"}
                           THEN incident \cup {"killed"} ELSE incident
    /\ UNCHANGED <<box, tagged, marker, dispatched, migrated>>

-----------------------------------------------------------------------------
(* The box: scripts/run_arctic_migrations.py as the dispatcher sees it *)

\* The mutex probe: clear, refused (exit 0), or failed (P1, exit 1).  The
\* marker PUT may fail, and so may the `gh issue create` of a P1.
AskMutex(b) ==
    /\ box[b] = "bootstrapped"
    /\ \/ /\ box' = [box EXCEPT ![b] = "migrating"]
          /\ UNCHANGED <<marker, p1>>
       \/ /\ box' = [box EXCEPT ![b] = "gone"]
          /\ marker' \in {marker, "refused_mutex_active"}
          /\ UNCHANGED p1
       \/ /\ box' = [box EXCEPT ![b] = "gone"]
          /\ marker' \in {marker, "settled"}
          /\ p1' \in {p1, TRUE}
    /\ UNCHANGED <<invVars, tagged, schedule, dispatched, kills, migrated, incident>>

\* success, noop_up_to_date, or failure (P1).
FinishMigration(b) ==
    /\ box[b] = "migrating"
    /\ box' = [box EXCEPT ![b] = "gone"]
    /\ marker' \in {marker, "settled"}
    /\ \/ migrated' = TRUE /\ UNCHANGED p1
       \/ p1' \in {p1, TRUE} /\ UNCHANGED migrated
    /\ UNCHANGED <<invVars, tagged, schedule, dispatched, kills, incident>>

\* A spot reclaim, a prelude failure or the runtime timer: no marker.
BoxDies(b) ==
    /\ box[b] \in LiveBox
    /\ box' = [box EXCEPT ![b] = "gone"]
    /\ UNCHANGED <<invVars, tagged, marker, schedule, dispatched, kills, p1, migrated,
                   incident>>

-----------------------------------------------------------------------------
(* The reaper *)

\* Mutant of Reap: it looks only at boxes that have started their work.
ReapBootstrapped(b) ==
    /\ box[b] \in {"bootstrapped", "migrating"}
    /\ \A j \in Invocation : mine[j] # b
    /\ box' = [box EXCEPT ![b] = "gone"]
    /\ UNCHANGED <<invVars, tagged, marker, schedule, dispatched, kills, p1,
                   migrated, incident>>

\* The hourly scan takes every box of the fleet by its Name tag and age; the
\* cap is far beyond the Lambda's own timeout.
Reap(b) ==
    /\ box[b] \in LiveBox
    /\ \A j \in Invocation : mine[j] # b
    /\ box' = [box EXCEPT ![b] = "gone"]
    /\ UNCHANGED <<invVars, tagged, marker, schedule, dispatched, kills, p1,
                   migrated, incident>>

-----------------------------------------------------------------------------
Handle(i) ==
    \/ ReadMarker(i) \/ ArmNext(i) \/ ProbeLive(i)
    \/ LaunchInstance(i) \/ SendBootstrap(i) \/ ArmFirst(i)

RunBox(b) == AskMutex(b) \/ FinishMigration(b) \/ BoxDies(b)

Next == \/ \E i \in Invocation : Dispatch(i) \/ FireSchedule(i) \/ Handle(i)
                                  \/ KillInvocation(i)
        \/ \E b \in Box : RunBox(b) \/ Reap(b)

Spec == Init /\ [][Next]_vars

\* A Lambda runs to its end or is killed, a box that was given its bootstrap
\* ends by its runtime timer at the latest, the reaper scans every hour, and
\* EventBridge fires a schedule that is due.
Fairness ==
    /\ \A i \in Invocation : WF_vars(Handle(i) \/ KillInvocation(i))
    /\ \A b \in Box : WF_vars(box[b] # "booting" /\ RunBox(b)) /\ WF_vars(Reap(b))
    /\ WF_vars(\E i \in Invocation : FireSchedule(i))

FairSpec == Spec /\ Fairness

-----------------------------------------------------------------------------
(* Properties *)

\* The type of every variable.
TypeOK ==
    /\ pc \in [Invocation -> InvPc]
    /\ gen \in [Invocation -> 0..MaxGeneration]
    /\ mine \in [Invocation -> Box \cup {NoBox}]
    /\ box \in [Box -> BoxState]
    /\ tagged \subseteq Box /\ marker \in Marker
    /\ schedule \subseteq 1..MaxGeneration
    /\ dispatched \in 0..MaxDispatch /\ kills \in 0..MaxKill
    /\ p1 \in BOOLEAN /\ migrated \in BOOLEAN
    /\ incident \subseteq Incident

\* Nothing more will happen for this head on its own.
Quiet == /\ schedule = {}
         /\ \A i \in Invocation : pc[i] = "idle"
         /\ \A b \in Box : box[b] \notin LiveBox

\* Defer, not drop: when everything has come to rest with the marker still
\* refusing, either a box brought the library to the head all the same, or
\* the chain ended for one of five reasons: exhausted; a schedule that could not
\* be created; a marker that could not be read; a check killed before it armed
\* the next; or the last check came due before the box had answered, and took
\* the marker that was not there yet, or an older one, for a recovery.
RefusalIsRechecked ==
    Quiet /\ marker = "refused_mutex_active" => migrated \/ incident # {}

\* The chain of re-checks and re-launches comes to an end for good, however
\* often the mutex refuses.
ChainEnds == <>[]Quiet

\* A box whose launcher was killed before it sent the bootstrap, or failed to
\* terminate it, has no runtime timer: it ends all the same.
UnstartedBoxEnds == \A b \in Box : box[b] = "booting" ~> box[b] # "booting"

\* "the SAME head must never get two" boxes at once
\* (arctic-migration-dispatcher/index.py:38).
OneBoxPerHead == Cardinality({b \in Box : box[b] \in LiveBox}) <= 1
=============================================================================
