--------------------------- MODULE DataCollection ---------------------------
(***************************************************************************)
(* One data collection and the pipeline that waits for it: the collection  *)
(* state machine (infrastructure/step-functions/data-collection.asl.json), *)
(* the boxes its dispatcher launches                                       *)
(* (infrastructure/lambdas/data-spot-dispatcher/index.py), the run         *)
(* manifests each unit files (weekly_collector.py), the predicate over     *)
(* them (data_gate/run_manifest_predicate.py) and the bounded wait of the  *)
(* weekly pipeline (infrastructure/step_function.json,                     *)
(* WaitForCollectionManifests).                                            *)
(*                                                                         *)
(* Time.  A tick is one poll interval of the consumer.  A box works for at *)
(* most Cap ticks, then its hard-stop timer ends it; what is not a box's   *)
(* work takes no time.                                                     *)
(***************************************************************************)
EXTENDS Naturals, Sequences, FiniteSets

CONSTANTS
    Unit,         \* the audit units of the collection
    UnitsOf,      \* workload number -> its units, in the order it runs them
    Verified,     \* verify_units of the schedule
    Waited,       \* the units the consumer waits for
    Ends,         \* the outcomes a run may have in this instance
    Earlier,      \* what a run earlier the same trading day may have ended as
    Escapes,      \* bound: the ways a box may escape the collection
    Box,          \* bound: EC2 instances at a time
    NoBox,
    Cap,          \* a box's launch and work, at most: 300 s + 7200 s
    Lag           \* how late the collection may start after the consumer

\* What a run may leave: `short` is an ok run whose outputs miss a key or a
\* row floor, `empty` one that published nothing and did not fail its process.
Outcome == {"ok", "short", "empty", "failed", "noop"}

ASSUME ConstantsAssumption ==
    /\ UnitsOf \in Seq(Seq(Unit)) /\ UnitsOf # <<>>
    /\ \E w \in DOMAIN UnitsOf : \E i \in DOMAIN UnitsOf[w] :
         UnitsOf[w][i] \in Waited
    /\ Verified \subseteq Unit /\ Waited \subseteq Unit
    /\ Ends \subseteq Outcome /\ Earlier \subseteq {"ok", "failed"}
    /\ NoBox \notin Box
    /\ Cap \in Nat \ {0} /\ Lag \in Nat

VARIABLES
    ppc, item, attempts, cur,   \* the collection: state, Map item, $.attempts,
                                \* the box it polls
    box,                        \* per Box
    runs,                       \* unit -> its runs of this trading day, in
                                \* run_id (start) order
    published,                  \* unit -> outcome of the last run that wrote
    cpc, polls,                 \* the consumer's wait
    stray                       \* history: how a box escaped the collection

producerVars == <<ppc, item, attempts, cur>>
consumerVars == <<cpc, polls>>
vars == <<producerVars, box, runs, published, consumerVars, stray>>

Workload == DOMAIN UnitsOf
ProducerEnded == {"succeeded", "holiday", "failed"}
ProducerPc == {"start", "launch", "poll", "verify"} \cup ProducerEnded
Decided == {"go", "refused", "exhausted"}
ConsumerPc == {"due", "waiting"} \cup Decided
BoxState == {"gone", "working", "exited", "died"}
Gone == [state |-> "gone", work |-> 0, next |-> 1, run |-> 0,
         bad |-> FALSE, age |-> 0]

\* A run whose manifest is not filed: it works, or it was cut off.
RunStatus == Outcome \cup {"unfiled"}

-----------------------------------------------------------------------------
(* The predicate over run manifests *)

Greatest(S) == CHOOSE n \in S : \A m \in S : m <= n

\* A run's manifest is written when it ends; a run cut off leaves none.
Manifests(u) == {i \in DOMAIN runs[u] : runs[u][i].status \in Outcome}

\* Mutant of Grade: a manifest of an earlier execution counts.
GradeAnyAge(u) ==
    IF Manifests(u) = {} THEN "missing"
    ELSE LET newest == Greatest(Manifests(u))
             real == {i \in Manifests(u) : runs[u][i].status # "noop"}
         IN  IF runs[u][newest].status # "noop" THEN runs[u][newest].status
             ELSE IF real = {} THEN "noop"
             ELSE runs[u][Greatest(real)].status

\* Mutant of Grade: a same-date no-op is as good as an ok run.
GradeNoopOk(u) ==
    IF Manifests(u) = {} THEN "missing"
    ELSE LET newest == Greatest(Manifests(u))
         IN  IF ~runs[u][newest].fresh THEN "missing"
             ELSE IF runs[u][newest].status = "noop" THEN "ok"
             ELSE runs[u][newest].status

\* _check_unit: the newest manifest, if it is of this cycle; a same-date no-op
\* is graded by the newest run before it that is not one.
Grade(u) ==
    IF Manifests(u) = {} THEN "missing"
    ELSE LET newest == Greatest(Manifests(u))
             real == {i \in Manifests(u) : runs[u][i].status # "noop"}
         IN  IF ~runs[u][newest].fresh THEN "missing"
             ELSE IF runs[u][newest].status # "noop" THEN runs[u][newest].status
             ELSE IF real = {} THEN "noop"
             ELSE runs[u][Greatest(real)].status

\* PRODUCER_ATTEMPTS_PER_WORKLOAD: the first launch and one retry.
ProducerAttempts == 2

FreshVisits(u) == Cardinality({i \in Manifests(u) : runs[u][i].fresh})

\* Mutant of RetryPending: the first failure is the last word.
NeverPending(u) == FALSE

\* _retry_pending: both `failed` and `empty` are filed with status failed.
RetryPending(u) == /\ Grade(u) \in {"failed", "empty"}
                   /\ FreshVisits(u) < ProducerAttempts

Passes(U) == \A u \in U : Grade(u) = "ok"
Ready == Passes(Waited)
Settled == \A u \in Waited : Grade(u) # "missing" /\ ~RetryPending(u)

\* The last workload that writes a waited unit.
LastWaited == Greatest({w \in Workload : \E i \in DOMAIN UnitsOf[w] :
                                           UnitsOf[w][i] \in Waited})

\* Mutant of MaxPolls: the last workload is not counted.
MaxPollsBefore == Lag + (LastWaited - 1) * Cap

\* The consumer's poll budget: the lag and, for every workload up to the last
\* one that writes a waited unit, one cap.
MaxPolls == Lag + LastWaited * Cap

-----------------------------------------------------------------------------
\* A unit may have run for the same trading day before this cycle.
EarlierRun == {<<>>} \cup {<<[status |-> s, fresh |-> FALSE]>> :
                              s \in Earlier}

Init ==
    /\ ppc = "start" /\ item = 1 /\ attempts = 0 /\ cur = NoBox
    /\ box = [b \in Box |-> Gone]
    /\ runs \in [Unit -> EarlierRun]
    /\ published = [u \in Unit |-> IF runs[u] = <<>> THEN "nothing"
                                   ELSE runs[u][1].status]
    /\ cpc = "due" /\ polls = 0 /\ stray = {}

-----------------------------------------------------------------------------
(* The collection state machine *)

Working(b) == box[b].state = "working"

\* The trading-day gate: open, closed, or its check failed for good.
Begin ==
    /\ ppc = "start"
    /\ ppc' \in {"launch", "holiday", "failed"}
    /\ UNCHANGED <<item, attempts, cur, box, runs, published, consumerVars,
                   stray>>

\* Mutant of CheckRetryBudget: the retry does not count itself.
RetryUncounted ==
    /\ cur' = NoBox
    /\ UNCHANGED <<item, attempts>>
    /\ ppc' = "launch"

\* Mutant of CheckRetryBudget: one retry too many.
RetryTwice ==
    /\ cur' = NoBox
    /\ UNCHANGED item
    /\ IF attempts < 2 THEN attempts' = attempts + 1 /\ ppc' = "launch"
                       ELSE UNCHANGED attempts /\ ppc' = "failed"

\* One retry of a workload, on demand.
CheckRetryBudget ==
    /\ cur' = NoBox
    /\ UNCHANGED item
    /\ IF attempts < 1 THEN attempts' = attempts + 1 /\ ppc' = "launch"
                       ELSE UNCHANGED attempts /\ ppc' = "failed"

\* The box the collection no longer polls: one that ended is forgotten.
Released == IF cur \in Box /\ ~Working(cur)
              THEN [box EXCEPT ![cur] = Gone] ELSE box

\* The collection turns away from its box, which may still be at work
\* (bound: one box escapes per behaviour).
Abandon == /\ box' = Released
           /\ IF cur \in Box /\ Working(cur)
                THEN /\ stray = {} /\ "abandoned" \in Escapes
                     /\ stray' = {"abandoned"}
                ELSE UNCHANGED stray

\* Any instance that is not in use: their names tell nothing.
NewBox == CHOOSE b \in Box : box[b] = Gone

StartBox ==
    /\ \E b \in Box : box[b] = Gone
    /\ box' = [box EXCEPT ![NewBox].state = "working", ![NewBox].work = item]

\* The dispatcher launches a box for the workload, without asking whether
\* one runs it already.
LaunchWorkload ==
    /\ ppc = "launch"
    /\ \/ /\ StartBox /\ cur' = NewBox
          /\ ppc' = "poll"
          /\ UNCHANGED <<item, attempts, stray>>
       \/ \* The launch failed and left nothing running.
          CheckRetryBudget /\ UNCHANGED <<box, stray>>
       \/ \* The answer is lost and the invocation retried (bound: once).
          /\ stray = {} /\ "unanswered" \in Escapes
          /\ StartBox
          /\ stray' = stray \cup {"unanswered"}
          /\ UNCHANGED producerVars
       \/ \* DATA_SPOT_DISPATCH_ENABLED=false
          /\ ppc' = "failed"
          /\ UNCHANGED <<item, attempts, cur, box, stray>>
    /\ UNCHANGED <<runs, published, consumerVars>>

\* Success of the command: the next workload, or the completion check.
NextWorkload ==
    /\ cur' = NoBox /\ attempts' = 0
    /\ IF item < Len(UnitsOf) THEN item' = item + 1 /\ ppc' = "launch"
                              ELSE UNCHANGED item /\ ppc' = "verify"

\* PollWorkload and CheckWorkloadStatus: Success, any other final status, or
\* a poll that fails for good whatever the box is doing.
PollWorkload ==
    /\ ppc = "poll"
    /\ \/ box[cur].state = "exited" /\ ~box[cur].bad /\ NextWorkload
       \/ CheckRetryBudget
    /\ Abandon
    /\ UNCHANGED <<runs, published, consumerVars>>

\* VerifyRunManifests: its verdict, or its failure.
VerifyRunManifests ==
    /\ ppc = "verify"
    /\ \/ Passes(Verified) /\ ppc' = "succeeded"
       \/ ppc' = "failed"
    /\ UNCHANGED <<item, attempts, cur, box, runs, published, consumerVars,
                   stray>>

\* TimeoutSeconds, or an abort: nobody stops the box.
TimedOut ==
    /\ ppc \in {"launch", "poll", "verify"}
    /\ ppc' = "failed" /\ cur' = NoBox
    /\ Abandon
    /\ UNCHANGED <<item, attempts, runs, published, consumerVars>>

-----------------------------------------------------------------------------
(* A box *)

Units(b) == UnitsOf[box[b].work]
UnitAt(b) == Units(b)[box[b].next]

StartUnit(b) ==
    /\ Working(b) /\ box[b].run = 0 /\ box[b].next <= Len(Units(b))
    /\ runs' = [runs EXCEPT ![UnitAt(b)] =
                  Append(@, [status |-> "unfiled", fresh |-> TRUE])]
    /\ box' = [box EXCEPT ![b].run = Len(runs[UnitAt(b)]) + 1]
    /\ UNCHANGED <<producerVars, published, consumerVars, stray>>

\* Another run of the day left an ok phase marker, or an ok manifest.  A run
\* that was cut off, or works still, may have left its marker already.
DoneToday(u, n) ==
    \E i \in DOMAIN runs[u] \ {n} :
        runs[u][i].status \in {"ok", "short", "empty", "unfiled"}

\* A phase of the collector ends and its manifest is filed; the process goes
\* on to the next unit and remembers a failure for its exit code.
FinishUnit(b) ==
    /\ Working(b) /\ box[b].run # 0
    /\ \E s \in Ends :
         LET u == UnitAt(b)
         IN  /\ s = "noop" => DoneToday(u, box[b].run)
             /\ runs' = [runs EXCEPT ![u][box[b].run].status = s]
             /\ published' = IF s \in {"ok", "short", "failed"}
                               THEN [published EXCEPT ![u] = s] ELSE published
             /\ box' = [box EXCEPT ![b].run = 0, ![b].next = @ + 1,
                                   ![b].bad = @ \/ s = "failed"]
    /\ UNCHANGED <<producerVars, consumerVars, stray>>

\* The instance ends; only the collection remembers the one it polls.
Ended(b, state) == IF b = cur THEN [box EXCEPT ![b].state = state]
                              ELSE [box EXCEPT ![b] = Gone]

ExitBox(b) ==
    /\ Working(b) /\ box[b].next > Len(Units(b))
    /\ box' = Ended(b, "exited")
    /\ UNCHANGED <<producerVars, runs, published, consumerVars, stray>>

\* A spot reclaim, a failed prelude or the hard-stop timer: the unit in
\* progress files no manifest.
BoxDies(b) ==
    /\ Working(b)
    /\ box' = Ended(b, "died")
    /\ UNCHANGED <<producerVars, runs, published, consumerVars, stray>>

-----------------------------------------------------------------------------
(* The consumer *)

\* WaitForCollectionManifests and the Choices after it.
Poll ==
    /\ cpc = "due"
    /\ \/ Ready /\ cpc' = "go"
       \/ ~Ready /\ Settled /\ cpc' = "refused"
       \/ \* Not settled, or the probe raised.
          cpc' = IF polls >= MaxPolls THEN "exhausted" ELSE "waiting"
    /\ UNCHANGED <<producerVars, box, runs, published, polls, stray>>

\* Nothing but a box's work is under way, and no box is over its cap.
Idle ==
    /\ cpc # "due"
    /\ \A b \in Box : Working(b) => box[b].age < Cap
    /\ \/ ppc \in ProducerEnded
       \/ ppc = "start" /\ polls < Lag
       \/ ppc = "poll" /\ Working(cur)

\* Mutant of Tick: the poll counter is seeded again.
TickUncounted ==
    /\ Idle
    /\ cpc = "waiting" \/ \E b \in Box : Working(b)
    /\ box' = [b \in Box |-> IF Working(b) THEN [box[b] EXCEPT !.age = @ + 1]
                                           ELSE box[b]]
    /\ cpc' = IF cpc = "waiting" THEN "due" ELSE cpc
    /\ UNCHANGED <<producerVars, runs, published, polls, stray>>

\* CollectionReadinessPollWait and IncrementCollectionReadinessPoll.
Tick ==
    /\ Idle
    /\ cpc = "waiting" \/ \E b \in Box : Working(b)
    /\ box' = [b \in Box |-> IF Working(b) THEN [box[b] EXCEPT !.age = @ + 1]
                                           ELSE box[b]]
    /\ IF cpc = "waiting" THEN cpc' = "due" /\ polls' = polls + 1
                          ELSE UNCHANGED <<cpc, polls>>
    /\ UNCHANGED <<producerVars, runs, published, stray>>

-----------------------------------------------------------------------------
Collect == \/ Begin \/ LaunchWorkload \/ PollWorkload \/ VerifyRunManifests
           \/ TimedOut

BoxStep(b) == StartUnit(b) \/ FinishUnit(b) \/ ExitBox(b) \/ BoxDies(b)

Next == Collect \/ (\E b \in Box : BoxStep(b)) \/ Poll \/ Tick

Spec == Init /\ [][Next]_vars

\* A state machine takes its next step, a box ends by its hard-stop timer at
\* the latest, and time goes on.  Nothing has to fail: a poll of a box at
\* work, a timeout of the execution, are not forced.
Advance == /\ Collect
           /\ ppc = "poll" => ~Working(cur)

Fairness == /\ WF_vars(Advance)
            /\ \A b \in Box : WF_vars(BoxStep(b))
            /\ WF_vars(Poll) /\ WF_vars(Tick)

FairSpec == Spec /\ Fairness

-----------------------------------------------------------------------------
(* Properties *)

\* The type of every variable.
TypeOK ==
    /\ ppc \in ProducerPc /\ item \in Workload /\ attempts \in 0..1
    /\ cur \in Box \cup {NoBox}
    /\ box \in [Box -> [state : BoxState, work : Workload \cup {0},
                        next : Nat \ {0}, run : Nat, bad : BOOLEAN,
                        age : 0..Cap]]
    /\ runs \in [Unit -> Seq([status : RunStatus, fresh : BOOLEAN])]
    /\ published \in [Unit -> {"nothing", "ok", "short", "failed"}]
    /\ cpc \in ConsumerPc /\ polls \in 0..MaxPolls
    /\ stray \subseteq {"abandoned", "unanswered"}

\* A collection that succeeded left every unit it verifies as an ok run wrote
\* it, through retries, auto-skips and carried-forward no-ops, unless a box
\* escaped it.
SuccessMeansPublished ==
    ppc = "succeeded" /\ stray = {} =>
        \A u \in Verified : published[u] = "ok"

\* The consumer goes ahead only on runs of this cycle and, unless a box
\* escaped the collection, on what an ok run wrote.
GoSeesThisCycle ==
    [][cpc # "go" /\ cpc' = "go" =>
         \A u \in Waited :
             /\ \E i \in Manifests(u) : runs[u][i].fresh
             /\ stray = {} => published[u] = "ok"]_vars

\* A refusal over failed runs is final: the retry of the producer cannot turn
\* it ready any more (alpha-engine-config-I11812), unless the dispatcher
\* launched a box the collection does not know.
FailedTwiceIsFinal ==
    [][cpc = "refused" /\ "unanswered" \notin stray
         /\ (\A u \in Waited : Grade(u) \in {"ok", "failed", "empty"}) /\ ~Ready
         => ~Ready']_vars

\* The collection ends, whatever its boxes and calls do.
CollectionEnds == <>(ppc \in ProducerEnded)

\* The consumer's wait is bounded.
WaitEnds == <>(cpc \in Decided)
=============================================================================
