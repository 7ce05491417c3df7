----------------------------- MODULE WeeklyRerun -----------------------------
(***************************************************************************)
(* The operator's scripts/weekly_sf_rerun.py --start beside the cadence    *)
(* executions of the same slot.  It reads the holder, decides, looks for   *)
(* RUNNING executions of the run date, deletes the item and starts a       *)
(* watch-rerun execution, which bypasses the mutex: five calls to three    *)
(* services, with the pipelines free to move between any two.              *)
(***************************************************************************)
EXTENDS WeeklyRunSlot

CONSTANTS Rerun,      \* invocations of the script
          Attended    \* nothing starts a cadence execution of this slot
                      \* between the script's first read and its start

ASSUME RerunAssumption == Attended \in BOOLEAN

VARIABLES rpc,        \* where each script is
          rseen       \* the holder it read, or Free: no item (or no access)

rerunVars == <<rpc, rseen>>
allVars == <<vars, rerunVars>>

RerunPc == {"idle", "describe", "guard", "steal", "start", "running", "end"}

RerunInit == /\ Init
             /\ rpc = [k \in Rerun |-> "idle"]
             /\ rseen = [k \in Rerun |-> Free]

\* The operator re-runs a failed execution: get_item of its run-slot.  An
\* AccessDenied is not fatal: the script goes on without the mutex.
InspectMutex(k) ==
    /\ rpc[k] = "idle"
    /\ \E e \in Execution : status[e] = "FAILED"
    /\ \E h \in {slot, Free} :
         /\ rseen' = [rseen EXCEPT ![k] = h]
         /\ rpc' = [rpc EXCEPT ![k] = IF h = Free THEN "guard" ELSE "describe"]

\* decide_mutex_action: only a holder known to be terminal-failed is stolen
\* from; any other, or one that cannot be described, aborts the script.
DecideMutexAction(k) ==
    /\ rpc[k] = "describe"
    /\ \/ status[rseen[k]] = "FAILED" /\ rpc' = [rpc EXCEPT ![k] = "guard"]
       \/ rpc' = [rpc EXCEPT ![k] = "end"]
    /\ UNCHANGED rseen

\* list_all_executions(RUNNING): none of this run date may be live.
GuardRunning(k) ==
    /\ rpc[k] = "guard"
    /\ LET clash == \/ \E e \in Execution : status[e] = "RUNNING"
                    \/ \E j \in Rerun : rpc[j] = "running"
       IN  rpc' = [rpc EXCEPT ![k] =
                     IF clash THEN "end"
                     ELSE IF rseen[k] # Free THEN "steal" ELSE "start"]
    /\ UNCHANGED rseen

\* delete_item on the key alone: no condition on the holder that was read.
StealMutex(k) ==
    /\ rpc[k] = "steal"
    /\ slot' = Free
    /\ rpc' = [rpc EXCEPT ![k] = "start"]
    /\ UNCHANGED rseen

\* start_execution with pipeline_role watch-rerun: it bypasses the mutex.
StartRerun(k) ==
    /\ rpc[k] = "start"
    /\ rpc' = [rpc EXCEPT ![k] = "running"]
    /\ UNCHANGED rseen

EndRerun(k) ==
    /\ rpc[k] = "running"
    /\ rpc' = [rpc EXCEPT ![k] = "end"]
    /\ UNCHANGED rseen

-----------------------------------------------------------------------------
AtWork(k) == rpc[k] \in {"describe", "guard", "steal", "start"}

StartBeside(e) ==
    /\ Attended => \A k \in Rerun : ~AtWork(k)
    /\ Start(e)
    /\ UNCHANGED rerunVars

Proceed(e) == pc[e] # "idle" /\ ExecutionStep(e) /\ UNCHANGED rerunVars

ExpireBeside == Expire /\ UNCHANGED rerunVars

ReadOrStart(k) ==
    /\ \/ InspectMutex(k) \/ DecideMutexAction(k) \/ GuardRunning(k)
       \/ StartRerun(k) \/ EndRerun(k)
    /\ UNCHANGED vars

Steal(k) == StealMutex(k) /\ UNCHANGED execVars

RerunNext == \/ \E e \in Execution : StartBeside(e) \/ Proceed(e)
             \/ \E k \in Rerun : ReadOrStart(k) \/ Steal(k)
             \/ ExpireBeside

RerunSpec == RerunInit /\ [][RerunNext]_allVars

-----------------------------------------------------------------------------
(* Properties *)

\* The type of every variable, the script's included.
RerunTypeOK ==
    /\ TypeOK
    /\ rpc \in [Rerun -> RerunPc]
    /\ rseen \in [Rerun -> Execution \cup {Free}]
=============================================================================
