# Verification of the nousergon-data control plane

`nousergon-data` collects market data on a calendar, keeps it in an ArcticDB
`universe` library on S3 and feeds the pipelines that trade on it.  Its hard
part is not the arithmetic on prices.  It is a set of independent actors - Step
Functions, Lambdas, spot instances, GitHub workflows and an operator's scripts -
that share an object store, a DynamoDB table and a library without transactions,
while spot instances disappear, calls are retried and answers get lost.  This
directory models that control plane in TLA+, checks it with TLC and proves what
can be proved for every size with TLAPS.

Paths below are relative to the repository's `src/`.

## 1. Inventory

### The parts, their state and their operations

| Part | State it keeps | Operations |
|---|---|---|
| Migration runner, `scripts/run_arctic_migrations.py`, `migrations/` | the library's symbols, the schema stamp, one completion marker per head | probe the mutex, load the pending chain, rewrite, stamp, verify, write the marker |
| Schema stamp, `store/schema_version.py` | one number in the meta library | read, write, assert |
| Producers, `builders/daily_append.py`, `builders/backfill.py` | rows of every symbol | assert the schema; read a chunk and write it; regression preflight; rewrite |
| Other writers, `builders/prune_delisted_tickers.py`, `builders/splice_rebase.py` | the same library | remove or rebase symbols |
| Migration workflow and dispatcher, `.github/workflows/run-arctic-migrations.yml`, `infrastructure/lambdas/arctic-migration-dispatcher/` | one-shot schedules, instances, P1 issues | dispatch, re-check, probe for a live box, launch, bootstrap, arm |
| Weekly pipeline, `infrastructure/step_function.json` | execution state, the run-slot item | acquire, inspect, take over, release the slot; wait for the collection; the stages |
| Rerun scripts, `scripts/weekly_sf_rerun.py`, `scripts/weekday_sf_rerun.py` | the slot item, new executions | inspect, decide, guard, steal, start |
| Collection state machine, `infrastructure/step-functions/data-collection.asl.json` | workload index, `$.attempts` | gate, launch, poll, retry, verify |
| Data spot dispatcher, `infrastructure/lambdas/data-spot-dispatcher/` | instances | launch, send the command |
| Groom dispatcher and cycle, `infrastructure/lambdas/scheduled-groom-dispatcher/`, `infrastructure/step_function_groom.json` | execution, lane lease, dispatch ledger, run artifacts, completion markers, actioned markers | decide, launch one box per lane, wait on a task token, check the marker, reconcile dead boxes |
| Spot reaper, `infrastructure/lambdas/spot-orphan-reaper/` | none (reads instances) | end instances past their age |
| Watch dispatcher | instances | launch, send the command |
| Weekly collector, `weekly_collector.py` | outputs, phase markers, run manifests | run the units, file a manifest each |
| Manifest predicate, `data_gate/run_manifest_predicate.py`, and its probe Lambda | none (reads manifests) | completion, readiness, settled or pending |
| Preopen, postclose and reconcile pipelines | as the weekly one | their own mutex and readiness waits |
| Corporate actions, `corporate_actions/`, with the writers that restate a split: `collectors/daily_closes.py`, `collectors/prices.py`, `builders/daily_append.py`, `features/compute.py`, `builders/backfill.py` | registry of actions with applied markers, daily-closes archive, universe series, price cache | scan, sync archive and universe, refetch, append, capture, snapshot, rebuild |
| Backstops, watchers, alert Lambdas | pages, issues | observe, notify |
| Other collectors, feature arithmetic, validators, RAG | tables | fetch and compute |

### How they interact

* The dispatcher and the box it launches share the head's *completion marker* (S3)
  and the head's *schedules* (EventBridge); nothing answers synchronously.
* Boxes and producers share the library and the stamp.  What keeps them apart is
  a *probe* (list the RUNNING executions of three state machines) and the calendar.
* Executions of one weekly run share one *DynamoDB item*, written conditionally
  by the pipeline and unconditionally by the operator's rerun script.
* The collection and its consumers share *run manifests*: a consumer never asks the
  collection, it polls S3 with a bounded budget.
* A groom execution and its box share a *task token*; dispatcher, box, reconciler
  and interruption watcher may each answer it, and each may fail to.
* Five tasks of a day and a week restate one split in three stores; they share the
  *registry's applied marker*, which is written after the data, in a call of its own.

### What is hard

Check-then-act across services (probe, then write; describe, then delete), calls
that take effect although their answer is lost, boxes that die between two
writes, retries beside the attempt they retry, retry budgets and poll budgets
derived in different files, and errors that a caller deliberately swallows.
`PROJECT.json` lists the hazards one by one at their lines.

### What makes each part correct

* *Library*: the stamp never promises columns a symbol lacks; a finished head is
  true of every symbol; a reported row stays; an append past its assert fits.
* *Run-slot*: one holder at work; nobody takes the slot from a live one; a
  succeeded run keeps its slot.
* *Dispatch*: a refused migration is tried again until it runs or somebody is
  told; one box per head; the chain ends.
* *Groom*: one box in a lane, one cycle at its lanes, no death unnoticed, everything
  that was started ends.
* *Split*: no history is divided twice, none after the ex-date, none for a split that
  never happened; in the end the series is on one scale.
* *Collection*: success means what it verified was published; a consumer goes only
  on this cycle's data; a refusal is final; everybody's wait is bounded.

## 2. Modules and the code they stand for

| Module | Stands for |
|---|---|
| `UniverseMigration` | migration boxes, appends and backfills over the library and its stamp |
| `UniverseLibrary` | abstract: a library that only grows, with a level all of its symbols have reached |
| `UniverseMigrationProofs`, `UniverseSchemaProofs`, `UniverseDaysProofs` | theorems about `UniverseMigration`: types, probe rows and stamp; columns and markers; rows and the refinement |
| `MigrationDispatch` | workflow, dispatcher Lambda, defer chain, the box from outside, the reaper |
| `MigrationDispatchProofs` | theorems about it |
| `RunSlot` | abstract: what the weekly run-slot promises |
| `WeeklyRunSlot` | the states CheckMutexRole ... TakeOverRunSlot and the three releases of `step_function.json` |
| `WeeklyRerun` | `WeeklyRunSlot` composed with `weekly_sf_rerun.py --start` |
| `WeeklyRunSlotProofs` | theorems about `WeeklyRunSlot` and the composition `WeeklyRerun`, the refinement included |
| `DataCollection` | collection state machine, boxes, manifests, predicate, the weekly consumer's wait |
| `CollectionBudget` | `DataCollection` with the history "was anything launched twice", for the claim about the poll budget |
| `DataCollectionProofs` | theorems about both |
| `GroomTurns` | abstract: whose turn it is at a groom lane |
| `GroomDispatch` | groom executions, the dispatcher's launches, the boxes of one lane, the reconciler, the reaper |
| `GroomDispatchProofs` | theorems about it |
| `SplitRestatement` | one split on its way through registry, archive, universe series and price cache |
| `SplitRestatementProofs` | theorems about it |
| `MC...` | symmetry sets and workload layouts for TLC |

`PROJECT.json` maps each definition to its lines.

### UniverseMigration

The migrations are additive and numbered without gaps (`validate_chain`), so a
*column set is a version number*: `ver = n` means the columns of migrations 1..n.  A
symbol's frame is its version, its real days (`rows`) and the days on which
`verify_additive` left its probe row (`probe`).  One box is one run of
`run_arctic_migrations.run`; its program counter follows probe, load, read, write,
stamp, verify, heal.  The steps that can be interrupted are separate: one symbol
read, one symbol written, the stamp, one probe row, one heal.  Three details of
the code matter and are in the model: `run()` stamps *before* `verify()`; `verify`
looks at a sample; the heal's batch results are thrown away.  Every call that may
fail has its failure, every box may die at any point without a marker, and the
marker's own PUT may be swallowed.

A producer asserts the schema once and then runs chunk after chunk.  A chunk is
read in one action and written in another, so whatever happens between them is
visible.  At the head of a symbol the row is an update that fits only a descriptor
equal to the code's; earlier days are spliced over the history read with the chunk
and replace the whole frame.  A backfill has no schema assert, only the
regression preflight on a sample.

What keeps the writers apart is not enforced by anything: the probe lists some
pipelines and is no lock, the calendar is a habit, one box at a time is what a tag
that nobody sets was meant to give, and the preflight looks at a sample.  The model
therefore lets all of it happen, with the same steps, and only *notes* it, in the
history variable `lapses`: a box starts while another is live (`boxes`), a
pipeline while another is at work (`pipelines`), one is at work beside a box past its
probe, whichever came second (`beside`), or a preflight passes over a symbol that has
days the cache lacks (`blind`).  Each property says up to which lapse it holds: `Separate`
stands for "no second writer has come".  `RowsStay` is what is lost after one.

`UniverseLibrary` leaves boxes and pipelines out: one `Append` per chunk while every
symbol is at the level, `Rewrite` of one symbol that loses no row, `Advance` of the level
when the last symbol is above it.  `UniverseMigration` implements it under `level <-
Effective`, `lib <-` each symbol's version and rows, up to the first lapse: probe rows,
snapshots and caches are not in it.

### MigrationDispatch

One head is modelled, since marker key, schedule names and tag carry the head.
An invocation of the Lambda is a process (the workflow's, or a schedule's) whose
steps are its calls: read the marker, create the schedule, describe instances, run
instances, send the command.  `gen` is `defer_generation`.  Each call has its error
return.  `p1` is set where an issue really is filed: by the workflow for its own
call's verdict, and on the box.  An invocation may also be killed at any point
(`KillInvocation`); the asynchronous call is then delivered again.  Killed between
RunInstances and the bootstrap it leaves a box without a timer, which only the
reaper's age cap ends.

A schedule fires on its clock, wherever the box it was armed for stands by then.  A
marker that is missing, older or unreadable counts as recovered, and the chain ends;
if an answer is still outstanding and no other check is on its way, a refusal written later
is dropped.  `ReadMarker` records that as the incident `overtaken`.

### RunSlot, WeeklyRunSlot, WeeklyRerun

One slot (state machine, role, run date).  `WeeklyRunSlot` has one action per ASL
task with the Choice after it, the one Retry of each PUT, and the possibility that a
PUT that reported an error was applied.  FAILED stands for FAILED, TIMED_OUT and
ABORTED.  An execution whose mutex calls failed works without the slot (the
pipeline fails open) and ends degraded.  `RunSlot` says what that is worth: the slot
has one owner, an owner changes only when it is free or its owner failed, and an
execution beside it is *visibly unchecked*.  `WeeklyRunSlot` implements it under the
mapping `owner <- slot`, `phase <- PhaseOf`.  `WeeklyRerun` adds the operator's
script, whose five calls interleave with the executions.

### DataCollection

A tick is one poll interval of the consumer.  Everything but the work of a box takes
no time; a box works `Cap` ticks at most (its hard-stop timer), and `Tick` cannot
pass it.  A run of a unit is a record in start order, because manifests are ordered
by `run_id`; it is `unfiled` until it ends and stays so if its box dies.  Outcomes
are those the predicate tells apart: `ok`, `short` (an ok run that misses an output or a
row floor), `empty` (published nothing, exit code 0), `failed`, and `noop` (an
auto-skip of something already done the same date).  `Grade` is `_check_unit` with
its carry-forward behind a no-op; `RetryPending` is the rule that a first failure is
not final.  The consumer's budget `MaxPolls` is derived the way
`tests/test_v1_collection_readiness_wait.py` derives 62.

Abstractions: a run that is cut off leaves `published` unchanged; the baseline
instants of consumer and producer are one flag, `fresh`; a degraded run counts as
`empty`; the names, key patterns and row floors are in the outcome.

### GroomDispatch

Executions are numbered in the order of their start (`startDate`, then ARN), which is
what `_concurrent_cycle_blockers` compares.  A `Run` is one launching invocation of the
Lambda with its `run_token`, and stands for the box it may launch; its steps are the
calls of `_launch_groom_spot` in their order: EC2 probe (fails open), lane lease
(conditional put), daily ceiling and first ledger entry, RunInstances, second ledger
entry, bootstrap.  Each may raise, and the invocation may be killed between any two.
A RunInstances call that took effect and lost its answer leaves a box up while the lease is
given back; nobody bootstraps it (`Adrift`).
`Age` says that a run's MAX_RUNTIME_SECONDS have passed; lease expiry, watchdog, task
timeout and reaper wait for it.  A box ends by finishing, failing, being reclaimed,
its watchdog or the reaper.  The reconciler's tick looks at one expectation and closes
it with a marker that may fail to be written.  It describes the instances of all open
entries in one call, so one instance EC2 no longer lists (`Unlist`) fails the whole tick
(`Blind`), until the entry is older than the two days the scan goes back (`LeaveScan`).
The lane of a fallback launch has no task token.

`GroomTurns` has neither lease nor token: cycles come to the lane in the order of their
start or pass.  During its turn a cycle sends at most one box, which comes into the empty
lane (`Bring`) or is lost on its way (`Lose`).  A cycle is `before`, at the `lane` or
`after` by its `phase`; a box is `in` while it lives, its runtime bound has not passed
and it is not adrift.

### SplitRestatement

One ticker, one split, five stores.  A close is reduced to its *level*: by how many
factors of the split it lies above the post-split scale.  All decisions of the code -
evidence orientation, archive classification, splice-basis guard, undo of vendor
pre-adjustment, audit - compare neighbouring closes with the factor, and are therefore
comparisons of levels.  Price evidence and audit look at the neighbouring rows at most
`Window` days from the ex-date (four calendar days in the code, `Window` here), so a
boundary farther back is invisible to them.  The day has a fixed schedule: D17 scan, sync,
refetch; D18 append of the prior day, overwriting; D19 capture; D31 snapshot; D32 append of the day;
on Saturdays refresh, build, fold, audit, rewrite.  Every scan may fail (and degrade to
"no splits"), every persisted registry read may fail - under the undo of vendor
pre-adjustment and the blocking audit too, which then let the frame pass; `blind`
remembers it of a Saturday run - every task may stop before any of
its steps, and a Saturday may come after any day.  A morning's
refetch passes over a date only when it is canonical and untouched by a split for *all*
tickers, so whether it does is a choice here.  The vendor's record may be a *phantom*
that only the vendor's adjusted bars show.

## 3. Runs

| Run | Expectation | What it shows |
|---|---|---|
| `MigrationSafe` | pass | until two writers meet, schema, rows, markers and stamp are consistent through every failure; leftover probe rows never pass for real ones; boxes and producers implement `UniverseLibrary` |
| `RunSlot` | pass | exclusion, no theft, refusal after success, and refinement, beside a rerun script |
| `MigrationDispatch` | pass | a refusal is re-checked through killed invocations or dropped for one of five reasons; the chain ends, and so does a box that never got its bootstrap (liveness) |
| `DataCollection` | pass | what success, refusal and the poll budget are worth with two workloads and earlier runs of the day |
| `EscapedBoxes` | pass | go and refusal with a box that escaped the collection, and that collection and wait end (liveness) |
| `GroomDispatch` | pass | one box per lane, one cycle at a time, implementing `GroomTurns`; deaths are closed, cycles and boxes end (liveness) |
| `SplitRestatement` | pass | nothing is restated past the ex-date, nor twice but a row before the evidence window; a phantom is not folded into a series without adjusted bars; a marked archive row is final; the Saturday rewrite of a run that could read the registry lets no half-restated frame through |
| `SplitHeals` | pass | a Saturday that gets through puts the universe series on one scale (liveness) |
| `UnguardedAppend` | violation | a collection that the mutex probe does not list loses rows to a migration |
| `TwoBoxes` | violation | one head gets two boxes: the tag is never set |
| `SuccessIsOwnRun` | violation | a lane reads as finished on the ledger entry of the cycle before |
| `MarkerMeansRestated` | violation | the evening snapshot marks a universe it has not restated |

### Bounds and environment parameters, and why they are enough

* `MigrationSafe`: two symbols, a chunk and a sample of one, two boxes, two producers,
  versions to 2, days to 2.  Two symbols are what "some are written, some are not" and
  "the sample missed it" need; two versions give a chain with a middle; two boxes give
  a crashed one and its successor.  `PreflightSize = 1` samples one symbol of the two, as
  the code samples twenty of all.
  `Explored = {"blind"}` lets a backfill pass over an unsampled symbol; a step with another
  lapse is cut off.  The properties say nothing after `boxes`, `pipelines` or `beside`, so the
  cut loses none of them but `StampAdvancesByOne` and `ProbeNeverShadows`, which hold
  beyond; both are proved (section 4).  The larger instances were checked once, without an
  error: `{"boxes"}` 1 134 985 states, `{"boxes", "blind"}` 1 371 323, `{"pipelines"}`
  794 970.  `UnguardedAppend` explores `beside`, with the probe's list left
  without the writing pipeline, and shows what is lost.
* `RunSlot`: three executions are a holder, a successor and a late taker; one script.
  `Attended = TRUE`: nothing starts a cadence execution between the script's first read
  and its start, which is the operator's promise.
* `MigrationDispatch`: two invocations, two boxes, two workflow runs, two generations
  (the code has three, `DEFER_MAX_GENERATION`; the theorem covers any number) and two
  kills.  Two runs overlap, a box at work lives beside a re-launch, and both invocations
  may be killed.  With three boxes and one kill it was checked once.
  `TwoBoxes` has the code's three generations.
* `DataCollection`: three units in two workloads, one of them neither verified nor
  waited for but failing its box all the same; one box; `Cap = 1`, `Lag = 1`: the collection may start
  one poll after the consumer, the least that the budget's lag term tells apart.  `Ends` and
  `Earlier` choose the outcomes of an instance: here without `short` and `empty`.
* `EscapedBoxes`: one unit, all five outcomes, two boxes, one escape per behaviour
  (`stray`), either a box the collection turned away from or one whose launch answer
  was lost; `Lag = 0`.
* `GroomDispatch`: two executions, two launches, one lane.  Two launches are a box and
  its competitor, from two cycles or from a cycle and a fallback; lanes do not interact
  but through refusals, which are choices.
* `SplitRestatement`: four days, the ex-date on the third: two mornings before it, one
  after, and a row 0 for the history the morning window does not reach.  `Window = 1` puts
  rows 0 and 1 outside the evidence and days 2 to 4 inside, so a boundary can lie in the window,
  at its edge and beyond it.  `Lookahead = 2`
  lets the scan know the split a day ahead.  `SplitHeals`: three days, the ex-date on
  the second; `MarkerMeansRestated`: four, the ex-date on the third.  One assumption
  on the vendor: when the morning after the ex-date of a *real* split comes, the split is
  listed and the aggregates are adjusted (`NextDay`).

Some properties have preconditions worth naming.  `SuccessMeansPublished` and the second half of `GoSeesThisCycle`
claim the published outcome only when no box escaped: with a stray box, which may
write last and file a manifest that is not the newest, the claim is
false, and the predicate cannot know.  `FailedTwiceIsFinal` claims finality of refusals over
runs that failed; a refusal over a short or no-op unit is final by decision
of the predicate (`run_manifest_predicate.py:664`), not by fact.
`BudgetCoversFirstAttempts` says nothing of a collection that used a retry: see 5.10.
`NeverTwice` leaves out a universe row from before the evidence window that the vendor had
adjusted already: its boundary is invisible when the history is restated.  `PhantomIgnored`
speaks of a series that holds no adjusted bar: see 5.5 for one that does.
`RewriteHeals` supposes that the price cache was refreshed since the ex-date, or that the run
could list the registry both times, found the split there, and its frame has a row of the
window from the ex-date on.  With neither the rewrite does write a half-restated frame: a
cache that ends before the ex-date under archive rows after it is a plain series to an
audit that has no split to look for.

Deadlock is not checked: every part stops when its work is done.

### Fairness

* `MigrationDispatch!Fairness`: a Lambda invocation runs to its end (the platform
  ends it), a box takes a step or dies by its runtime timer, an armed schedule
  fires.  Dispatches are not fair.  No particular branch of a call is.
* `DataCollection!Fairness`: a state machine takes its next transition (`Advance`
  leaves out turning away from a box that works, so failed polls and timeouts are
  possible and never forced), a box takes a step or is ended by its hard-stop timer,
  the consumer polls, time advances.

* `GroomDispatch!Fairness`: state machines and Lambda invocations run on, time
  passes, and the platform's timers fire (task timeout, reaper).  The reconciler ticks
  every few minutes; its marker write is strongly fair: tried again and again, it
  succeeds some time.  No callback, no box's own end and no announcement is fair.
* `SplitRestatement!Fairness`: the calendar goes on (a day, a weekend or a stop), and
  each step of the Saturday job, started again every week, succeeds some time (strong
  fairness).  No morning or evening task is fair: `Heals` must not need them.

The other specifications are checked for safety only and state no fairness.

## 4. Proofs

All theorems hold for every value of the constants that meets the `ASSUME`s; only the
theorems about the rerun script have a hypothesis on the environment, `Attended`.

**Run-slot** (`WeeklyRunSlotProofs`).  Mutual exclusion is not inductive: an execution that
is about to take over says nothing about the slot.  `IInv` adds that the program
counter and `DescribeExecution` agree, that the item names a started execution, that
whoever stands before the takeover has *seen an execution whose FAILED status is
final* (`SeenHolder`), and that every holder at work is the one the item names
(`HolderInSlot`).  The conditional PUT then writes only over a free item or the
failed holder.  From `IInv` follow `MutualExclusionHolds`,
`LiveHolderKeepsSlotHolds`, `SucceededSlotRefusesHolds` and `RunSlotImplemented`, in
which each step changes the phase of one execution and is mapped to the matching
abstract step or a stutter.

**The rerun script beside it** (same module), under `Attended`.  The script's delete has no
condition, so `RInv` adds what holds when it gets there: past the script's guard no
cadence execution is running, and none can start (`QuietPastGuard`), so an item deleted
then is the item of an ended one.  Hence `ExclusionBesideRerun`, `RerunNeverSteals`, `RerunSlotRefuses`
and the refinement again, `RerunImplementsRunSlot`.
`RerunTypeCorrect` needs no hypothesis.

**Types** (`UniverseMigrationProofs`).  `TypeCorrect` needs a strengthening, `TInv`: every
frame in the library, and every frame somebody may still write back to it, has a last
day (`LastDay` is a CHOOSE), and a backfill's cache has a day.  No assumption on the
environment is used.

**Probe rows** (same module), with no assumption either: `ProbesStayApart`.  A probe row that
a failed heal left behind travels - it is in what boxes and chunks read afterwards.
`PInv` carries "no day is both a real row and a probe row" through every copy somebody
may write back.

The theorems about columns, stamp and rows hold of every behaviour of the code, those
in which writers meet among them, and claim what holds *up to the step that lets them meet*.
`LapsesGrow` (what was noted stays noted) lets the invariants below be implications from
"not yet", so each is inductive without a word about calendar or mutex.

**Stamp** (same module): `StampSteps`, the stamp climbs one
migration at a time, and `FinishedIsStamped`, a head reported finished is on the stamp, until
a box starts beside another.  Only boxes write either, so `StampInv` needs just the one live
box and where its migration stands against the stamp (`StampProgress`); what the producers do
does not matter.

**Schema** (`UniverseSchemaProofs`), while `Separate`.  `SchemaInv` says: whoever is past its
guard is the only writer (`OneWriter`), because whoever would be the second is noted by the step
that makes it so;
nobody knows unmerged versions (`KnownVersions`); where each box stands between the
stamp and the symbols, including what its snapshot contains (`BoxProgress`); that a
producer's code is at or above what is on disk, and exactly at the stamp past the
assert (`ProducerFits`); that a finished head is at or below the stamp.  From it
follow `StampCovered`, `AppendsFit` and `SuccessIsReal`.

**Library** (`UniverseDaysProofs`), while `lapses = {}`.  `LibraryImplemented`: boxes and
producers implement `UniverseLibrary` up to the first lapse.  `DaysInv` adds to `SchemaInv` that
every copy somebody may still write
back - a box's snapshot (`SnapCurrent`), a chunk's history (`ChunkCurrent`) - has exactly
the rows the library has, and that a backfill's cache reaches the last day.  Each step
of a box is then a rewrite, an advance or a stutter, each chunk one append.
`AppendsStay`, a row reported as appended stays, is derived from the abstract library,
where it is an invariant at sight, and not from the mechanism.  A preflight that did not
look at a symbol ends both.

**Migration dispatch** (`MigrationDispatchProofs`).  `RefusalsAreRechecked`
for any number of invocations, boxes, workflow runs, generations and kills: the five ways in
which a refusal can be dropped are all there are.  `ChainInv`
ties a refusing marker, or an answer that is outstanding, to what follows it up: an armed
schedule, an invocation before its arm step, or a recorded incident.

**Collection** (`DataCollectionProofs`).  `SuccessIsPublished` and `GoIsThisCycle` for any
workloads and outcomes, `RefusalIsFinal` for those in which every unit the consumer waits
for is run by one workload, once (`WaitedOnce`); units nobody waits for may be shared.  `PInv`: unless a box escaped, only the polled box works, the
run in progress of a unit is its last one, and the published outcome is the one of its
newest run that wrote.  `TypeCorrect` includes that the wait's counter stays within the
derived budget; a lemma shows that a bounded non-empty set of numbers has a greatest
element, which makes the CHOOSE in `MaxPolls` and `Grade` usable.  `NInv` counts: the
runs of this cycle a unit has, those its boxes still come to, and the launches the
collection may still make for its workload are two together (`RunsBounded`), unless the
dispatcher launched a box whose answer was lost.  A refusal over a failed unit has seen two
filed (`RefusedTwice`), so no run is left that could turn it.
`BudgetSuffices`: when the budget runs out and nothing was retried, the collection has
ended, is past the last waited workload, or polls a box at its cap.  `OnSchedule` bounds
the polls made so far by the lag, the caps of the workloads done (`Spent`) and the age of
the polled box.  `CollectionDescends` is what can be proved of `CollectionEnds`: a rank of at
most twelve for each workload falls with every step of the collection and rises with no
other, so the workloads are launched twice at most and only fairness is left to TLC.

**Groom** (`GroomDispatchProofs`).  `LaneHasOneBox`: a box at work or on its way to it within its
runtime bound, and an invocation between lease and return, is the lease's holder, so two of
them are one.  A box that came up although its launch raised is not: the lease was given back.
`CyclesTakeTurns`: an execution at its lane was the earliest running one when it decided,
executions start in order, and an earlier one that ended does not run again.
`TurnsImplemented`: the mechanism implements `GroomTurns`.  New in it is `LaunchInTurn`: an
invocation on its way to RunInstances has no box yet and no ledger entry with an instance,
so nobody but itself can answer its token, and its cycle - which the lane's
time-out cannot reach before the invocation returned - still waits.  With the lease that
makes every launch that answers one `Bring` into an empty lane, and every other box one
`Lose`.

**Split** (`SplitRestatementProofs`), for any calendar, ex-date, lookahead and evidence window,
whatever tasks stop and whichever registry reads fail.  In the archive a row from before the
ex-date has one of *two* levels - 0 or 1 for a real split, -1 or 0 for a phantom - and a row
of the ex-date or later has level 0 (`Levelled`).  A universe series, and every frame in the
hands of a writer, is `Raw` - levelled, its history what the market printed - or `Flat`:
shifted once, by what its window showed, so that the window prints nothing more.  A series
that passes both evidence checks of `apply` is Raw and comes out Flat (`RestatedIsFlat`); a
Flat one never passes them (`QuietWindow`), whatever the marker says, and no later append
reaches its rows from before the ex-date (`RowsOK`).  What a restatement may divide once too
often is a row before the window that the vendor had adjusted already.  The undo of vendor
pre-adjustment and the splice guard take a row to the scale of a neighbour.  A phantom's series
without adjusted bars has no boundary at all.  `NeverTwiceHolds`, `PostExHolds`, `PhantomHolds`
and `RestatedStaysHolds` follow.
`RewriteHealsHolds` follows the Saturday frame: from a fresh cache every row is on the new
scale and stays there through fold and audit; for a run that was never `blind` the audit refuses
a frame whose step is still in it, and a frame on the tape's levels without that step is on
one scale.  `HInv` carries both halves to the rewrite.

**Model-checked only**: every liveness property (`ChainEnds`,
`UnstartedBoxEnds`, `CollectionEnds`, `WaitEnds`, `DeathIsClosed`, `CycleEnds`,
`BoxEnds`, `Heals`): liveness under fairness and ENABLED are outside the prover, and so
is induction over data.

## 5. Where code and text disagree

Shown by a run:

1. `UnguardedAppend`: `GUARDED_PIPELINES` lacks the `ne-data-collection-*` machines, which
   append: a migration can start beside one and overwrite its rows.
2. `TwoBoxes`: the one-box-per-head probe filters on a tag that nothing puts on an
   instance.
3. `SuccessIsOwnRun`: the check before a relaunch (`scheduled-groom-dispatcher/
   index.py:1795`) asks the lane's newest ledger entry.  When this cycle's invocation
   dies before its own entry, that is the previous cycle's, and its completion marker
   ends the lane as succeeded.
4. `MarkerMeansRestated`: the evening snapshot restates its own copy, passes registry and
   store to `apply` (`features/compute.py:1033`) and so marks the universe, which it
   does not write.  Until the Saturday backfill every later writer believes the
   marker (`corporate_actions/__init__.py:1208`).  `Heals` shows that the Saturday repairs it.

Read from the code, not run:

5. A phantom can reach the price level, which
   `corporate_actions/__init__.py:473` rules out: a run that cannot read the registry appends
   the vendor's adjusted bars, the only boundary left in the window is the market's way back
   up, and `apply` takes it for an inverted record and restates history and marker
   (`features/compute.py:693` describes it).  `PhantomIgnored` speaks of a series
   without such bars.
6. `run_arctic_migrations.py:552` tells the operator "Stamp left UNBUMPED", and
   `store/schema_version.py:36` says that migrations stamp only after `verify()`; the
   stamp is the last statement of `run()`, before `verify()`.
7. The stamp is called monotonic; boxes of two heads can move it back (until a box starts
   beside another it is, `StampSteps`).
8. The rerun script deletes the slot item by key, two calls after it read it.
9. The exhausted defer chain returns its verdict to the scheduler, which reads
   none; the documentation says it escalates to a P1.
10. The wait's poll budget counts one cap per workload, not the retry's: "can no
   longer turn ready by itself" holds as long as nothing is retried
   (`BudgetCoversFirstAttempts`) and not beyond.
11. A reconciler tick between the two ledger entries of a launch finds an entry without
    an instance and pages `lane_died` for a box about to start
    (`scheduled-groom-dispatcher/index.py:1652`).
12. A fallback launch asks for the lane lease without force while the exhausted run that
    asked for it still holds it: it always yields, where `index.py:3422` promises a
    rescue box.
13. "Defer, not drop": a re-check that comes due before the box it was armed for has asked the
    mutex reads no marker, or an older one, takes it for a recovery and ends the chain
    (`arctic-migration-dispatcher/index.py:354`); when that box then refuses, nobody
    tries again (`overtaken`).
14. The reconciler's comment speaks of an instance "not found in describe-instances"
    (`scheduled-groom-dispatcher/index.py:1952`).  Only an entry without an instance gets
    there: an id EC2 no longer lists makes the one call for all of them fail (line 1929), and
    no death is closed until that entry leaves the scan.
15. The backfill's regression preflight samples twenty symbols: rows of another one that the
    cache does not reach are overwritten (`blind`).

## 6. Not modelled, and why

The map covers a small share of some 187 000 implementation lines.  Most of them are
vendor I/O, table and feature arithmetic, wording of reports and pages, and observers
that read and alert; a state machine of them would have one step.  What has several
actors and state between them is what the modules above take.  In particular:

* Other collectors, feature arithmetic, validators, RAG: arithmetic on data and vendor
  I/O.  Of the corporate actions: declared actions (`apply_declared`), dividends, ticker
  holds, the D50 regrade, and factors near one.
* The universe holds, the optional writer lock and the freshness guards of
  `daily_append`; `splice_rebase` and
  `prune_delisted_tickers`, which an operator runs on a dry-run report.
* The stages of the weekly pipeline behind the wait, a long chain with skip flags; the
  preopen, postclose and reconcile pipelines and the weekday rerun, whose mutexes repeat
  the weekly one.  A redrive of a failed weekly execution keeps its earlier result and
  is documented as unsupported (`infrastructure/README.md:56`).
* Of the groom: the other lanes, the sweep box and its lane, backlog arithmetic and
  queue manifests; the relaunch ladder, which the deployed `max_retries = 0` never
  enters; Step Functions' retries of `Lambda.ServiceException` and the execution's own
  timeout.  The reaper's reasons other than age (impaired, finished execution) are an
  earlier `BoxDies`.
* Of a phantom split: a failed scan may let an adjusted bar replace the oldest archived
  row; the archive then gives false evidence and the window is overwritten.  The model
  has the behaviour; `PhantomIgnored` claims the universe store only.
* The CLI's own re-send of a request; the interruption recorder, watchers, backstops and
  alert Lambdas: they read and page.  The automation pause compares schedules with a
  file.

## 7. Plan

Done, in this order: what can lose data first (library), what lets two actors at it (slot,
dispatch), who waits for whom (collection), the groom's lanes, the split's four writers;
the theorems of section 4.  What is left:

1. *Extending.*  The missing writers of the library as further producers of
   `UniverseMigration`; the daily pipelines' fail-open waits; several groom lanes with the daily
   ceiling; the weekly stages with their skip flags and the rerun's choice of stages.
2. *Proving.*  Every safety property of the runs has its theorem, and three of the components
   implement an abstract specification.  Left: an abstract specification of the deferral that
   `MigrationDispatch` implements (a refused head is owed a re-check until it is settled
   or given up); a rank like the collection's for the defer chain and for a groom cycle;
   the Saturday rewrite of `SplitRestatement` as one step of an abstract series.
