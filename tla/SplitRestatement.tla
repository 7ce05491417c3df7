-------------------------- MODULE SplitRestatement --------------------------
(***************************************************************************)
(* How one stock split reaches the stores of one ticker: the daily-closes  *)
(* archive (staging/daily_closes), the ArcticDB universe series, and the   *)
(* ten-year price cache that the Saturday backfill rebuilds the universe   *)
(* from.  Four writers share them - the morning window collection with its *)
(* corporate_actions.sync, daily_append, the evening feature snapshot and  *)
(* the backfill - and one registry marker, "applied to arcticdb_universe", *)
(* is what keeps them from restating the same history twice.               *)
(*                                                                         *)
(* A close is abstracted to its LEVEL: the power of the split factor by    *)
(* which it exceeds the price on the post-split scale.  A row on the new   *)
(* scale has level 0, a raw row from before the ex-date of a real split    *)
(* has level 1, a row divided once too often has level -1; the market      *)
(* itself does not move.  The vendor's record may be a phantom (real =     *)
(* FALSE): then the tape never shows a split, and only the vendor's        *)
(* adjusted bars do.                                                       *)
(*                                                                         *)
(* Bounds: trading days 1..MaxDay; row 0 of a series stands for all of its *)
(* earlier history, which the morning window does not reach.  The price    *)
(* evidence is read from the rows at most Window days from the ex-date.    *)
(***************************************************************************)
EXTENDS Integers

CONSTANTS
    MaxDay,     \* the last trading day of the calendar
    Ex,         \* the ex-date of the split
    Lookahead,  \* how many days ahead the morning scan looks for ex-dates
    Window      \* how far from the ex-date the price evidence is read

ASSUME CalendarAssumption == /\ MaxDay \in Nat /\ Ex \in 2 .. MaxDay
                             /\ Lookahead \in Nat /\ Window \in Nat

VARIABLES
    real,       \* the market executes the split (FALSE: a phantom record)
    published,  \* the vendor lists the split
    adjusted,   \* the vendor's aggregates are restated for it
    day,        \* the trading day
    step,       \* the step the day's schedule is at
    at,         \* the date a per-date loop is at
    got,        \* this run's split scan returned the record
    verdict,    \* this run's memoized price-evidence verdict
    frame,      \* the series a run read and works on
    blind,      \* history: a Saturday run could not list the registry
    detected,   \* the registry holds the detected action
    marked,     \* the registry marks it applied to arcticdb_universe
    restated,   \* dates whose archive row is marked applied
    canonical,  \* archive dates whose row came from polygon
    archive,    \* staging/daily_closes: date -> level
    universe,   \* the ArcticDB symbol: date -> level
    cacheEnd    \* the last date of the price cache

vendor == <<real, published, adjusted>>
run == <<at, got, verdict, frame, blind>>
registry == <<detected, marked, restated>>
stores == <<canonical, archive, universe, cacheEnd>>
vars == <<vendor, day, step, run, registry, stores>>

Days == 0 .. MaxDay
PreEx(d) == d < Ex
Idle == "-"     \* no verdict memoized
NoFrame == <<>>

(***************************************************************************)
(* The day's schedule.  D17: scan, sync, refetch.  D18: append the prior   *)
(* day.  D19: capture.  D31: snapshot.  D32: append the day.  Saturday:    *)
(* the price cache is refreshed and the backfill rewrites the universe.    *)
(***************************************************************************)
Steps == {"scan", "syncArchive", "syncUniverse", "markUniverse", "refetch",
          "prior", "markPrior", "rowPrior", "capture", "snapshot",
          "today", "markToday", "rowToday", "close",
          "refresh", "build", "fold", "audit", "rewrite"}

\* What runs next when a step stops where it is: an error swallowed by its
\* caller, or a run that died.  Nothing it already wrote is undone.
Next1 == [s \in Steps |->
    CASE s = "scan" -> "prior"
      [] s = "syncArchive" -> "syncUniverse"
      [] s \in {"syncUniverse", "markUniverse"} -> "refetch"
      [] s = "refetch" -> "prior"
      [] s \in {"prior", "rowPrior"} -> "capture"
      [] s = "markPrior" -> "rowPrior"
      [] s = "capture" -> "snapshot"
      [] s = "snapshot" -> "today"
      [] s = "markToday" -> "rowToday"
      [] s \in {"today", "rowToday"} -> "close"
      [] s = "refresh" -> "build"
      [] OTHER -> "close"]

-----------------------------------------------------------------------------
(* Series *)

Latest(S) == CHOOSE d \in S : \A e \in S : e <= d
Last(s) == Latest(DOMAIN s)
Before(s, d) == {e \in DOMAIN s : e < d}
Upto(s, d) == [e \in {x \in DOMAIN s : x <= d} |-> s[e]]
Since(s, d) == [e \in {x \in DOMAIN s : x > d} |-> s[e]]

\* Series s with the rows of t laid over it, and with one row set.
Over(t, s) == [d \in DOMAIN s \cup DOMAIN t |-> IF d \in DOMAIN t THEN t[d] ELSE s[d]]
With(s, d, level) == Over([e \in {d} |-> level], s)

\* The moves a series prints between neighbouring rows, in factors.
Step(s, d) == s[Latest(Before(s, d))] - s[d]
Moves(s) == {Step(s, d) : d \in {e \in DOMAIN s : Before(s, e) # {}}}

\* The rows of the evidence window.
Near(d) == Ex - Window <= d /\ d <= Ex + Window
Around(s) == [d \in {e \in DOMAIN s : Near(e)} |-> s[d]]

\* price_evidence_orientation: what the closes of the window say about the
\* record.  A series the window holds fewer than two rows of says nothing.
Evidence(s) ==
    LET moves == Moves(Around(s)) \cap {1, -1}
    IN  CASE moves = {1, -1} -> "ambiguous"
          [] moves = {1} -> "direct"
          [] moves = {-1} -> "inverse"
          [] OTHER -> "none"

Evidenced == {"direct", "inverse"}

\* restate_series_for_splits by the factor the market corroborates.
Shifted(s, by) == [d \in DOMAIN s |-> IF PreEx(d) THEN s[d] + by ELSE s[d]]
Restate(s) == IF Evidence(s) = "direct" THEN Shifted(s, -1) ELSE Shifted(s, 1)

\* Mutant of Applies: the vendor's record alone decides.
AppliesRegistered(s) == TRUE

\* apply folds the action in: evidence before, no residual boundary after.
Applies(s) == Evidence(s) \in Evidenced /\ Evidence(Restate(s)) = "none"

-----------------------------------------------------------------------------
(* What the feeds say *)

Tape(d) == IF real /\ PreEx(d) THEN 1 ELSE 0
Polygon(d) == Tape(d) - (IF adjusted /\ PreEx(d) THEN 1 ELSE 0)
\* yfinance restates its history on the ex-date; asOf is when it was asked.
Yahoo(d, asOf) == IF asOf < Ex THEN Tape(d) ELSE 0
Cache == [d \in 0 .. cacheEnd |-> Yahoo(d, cacheEnd)]

\* A split scan over dates up to hi; it degrades to "no splits" on any error.
Scans(lo, hi) == {FALSE} \cup {published /\ lo <= Ex /\ Ex <= hi}

Init ==
    /\ real \in BOOLEAN
    /\ published = FALSE /\ adjusted = FALSE
    /\ day = 1 /\ step = "close"
    /\ at = 1 /\ got = FALSE /\ verdict = Idle /\ frame = NoFrame /\ blind = FALSE
    /\ detected = FALSE /\ marked = FALSE /\ restated = {}
    /\ canonical = {}
    /\ \E captured \in {{}, {1}} :
         /\ archive = [d \in captured |-> Tape(d)]
         /\ universe \in {[d \in {0} \cup appended |-> Tape(d)] : appended \in {{}, captured}}
    /\ cacheEnd = 1

-----------------------------------------------------------------------------
(* The vendor *)

Publish ==
    /\ ~published
    /\ published' = TRUE
    /\ UNCHANGED <<real, adjusted, day, step, run, registry, stores>>

\* The vendor restates its history, ahead of the ex-date or on it.
Adjust ==
    /\ published /\ ~adjusted
    /\ adjusted' = TRUE
    /\ UNCHANGED <<real, published, day, step, run, registry, stores>>

-----------------------------------------------------------------------------
(* The calendar *)

Goto(s) == step' = s

\* A task that ends forgets what its process held.
Forget ==
    /\ at' = 1 /\ got' = FALSE /\ verdict' = Idle
    /\ frame' = NoFrame /\ blind' = FALSE

\* The next trading day.  By the morning after the ex-date the vendor has
\* listed and applied a real split.
NextDay ==
    /\ step = "close" /\ day < MaxDay
    /\ real /\ day = Ex => adjusted
    /\ day' = day + 1 /\ Goto("scan")
    /\ Forget
    /\ UNCHANGED <<vendor, registry, stores>>

Weekend ==
    /\ step = "close"
    /\ Goto("refresh")
    /\ Forget
    /\ UNCHANGED <<vendor, day, registry, stores>>

Stop ==
    /\ step # "close"
    /\ Goto(Next1[step])
    /\ IF Next1[step] \in {"refetch", "syncUniverse", "rowPrior", "rowToday"}
       THEN at' = 1 /\ UNCHANGED <<got, verdict, frame, blind>>
       ELSE Forget
    /\ UNCHANGED <<vendor, day, registry, stores>>

-----------------------------------------------------------------------------
(* D17: the morning window collection *)

\* _build_corporate_action_registry: one scan, its record persisted.
Scan ==
    /\ step = "scan"
    /\ got' \in Scans(1, day - 1 + Lookahead)
    /\ detected' = (detected \/ got')
    /\ Goto(IF got' THEN "syncArchive" ELSE "refetch") /\ at' = 1
    /\ UNCHANGED <<vendor, day, verdict, frame, blind, marked, restated, stores>>

PostDates == {d \in DOMAIN archive : d >= Ex /\ d < day}
PostClose == archive[CHOOSE d \in PostDates : \A e \in PostDates : d <= e]

\* Mutant of Scale: a row is old as soon as a reference exists.
ScaleStale(d) == IF PostDates # {} THEN "old" ELSE "unknown"

\* Mutant of Scale: without a reference the registry is trusted.
ScaleTrusting(d) == IF PostDates # {} /\ PostClose = archive[d] THEN "new" ELSE "old"

\* _classify_archive_scale of the row of date d.
Scale(d) ==
    CASE PostDates # {} /\ PostClose = archive[d] - 1 -> "old"
      [] PostDates # {} /\ PostClose = archive[d] -> "new"
      [] OTHER -> "unknown"

Pending(d) == PreEx(d) /\ d < day /\ d \in DOMAIN archive \ restated

\* An old-scale row is multiplied; the marker is a write of its own, which
\* the next visit of the date makes.
SyncArchiveWrite ==
    /\ step = "syncArchive" /\ at < day
    /\ Pending(at) /\ Scale(at) = "old"
    /\ archive' = [archive EXCEPT ![at] = @ - 1]
    /\ UNCHANGED <<vendor, day, step, run, registry, canonical, universe, cacheEnd>>

\* Mutant of SyncArchiveNext: a row of unknown scale is marked all the same.
MarkUnknown ==
    /\ step = "syncArchive" /\ at < day
    /\ ~(Pending(at) /\ Scale(at) = "old")
    /\ restated' = IF Pending(at) THEN restated \cup {at} ELSE restated
    /\ at' = at + 1
    /\ UNCHANGED <<vendor, day, step, got, verdict, frame, blind, detected, marked, stores>>

\* A row already on the new scale, or just written, is marked; one whose scale
\* is unknown waits for another morning.
SyncArchiveNext ==
    /\ step = "syncArchive" /\ at < day
    /\ ~(Pending(at) /\ Scale(at) = "old")
    /\ restated' = IF Pending(at) /\ Scale(at) = "new" THEN restated \cup {at} ELSE restated
    /\ at' = at + 1
    /\ UNCHANGED <<vendor, day, step, got, verdict, frame, blind, detected, marked, stores>>

SyncArchiveDone ==
    /\ step = "syncArchive" /\ at = day
    /\ Goto("syncUniverse")
    /\ UNCHANGED <<vendor, day, run, registry, stores>>

\* _sync_arcticdb_universe, its write.
SyncUniverse ==
    /\ step = "syncUniverse"
    /\ IF ~marked /\ Applies(universe)
       THEN universe' = Restate(universe) /\ Goto("markUniverse")
       ELSE Goto("refetch") /\ UNCHANGED universe
    /\ at' = 1
    /\ UNCHANGED <<vendor, day, got, verdict, frame, blind, registry, canonical, archive, cacheEnd>>

\* ... and its marker, written after the series landed.
MarkUniverse ==
    /\ step = "markUniverse"
    /\ marked' = TRUE
    /\ Goto("refetch") /\ at' = 1
    /\ UNCHANGED <<vendor, day, got, verdict, frame, blind, detected, restated, stores>>

\* collect, polygon_only, one date of the window.  The persisted registry may
\* be unreadable: then only this run's own scan is known.  A date is skipped
\* when it is canonical and untouched by a split, for every ticker at once.
Refetch(known, skip) ==
    /\ step = "refetch" /\ at < day
    /\ skip => at \in canonical /\ ~(got /\ PreEx(at))
    /\ LET new == Polygon(at)
           matched == known /\ at \in DOMAIN archive /\ archive[at] - new \in {1, -1}
           v == IF verdict = Idle THEN Evidence(archive) ELSE verdict
           refused == matched /\ v \notin Evidenced
       IN  /\ verdict' = IF matched /\ ~skip THEN v ELSE verdict
           /\ IF skip \/ refused
              THEN UNCHANGED <<archive, canonical>>
              ELSE archive' = With(archive, at, new) /\ canonical' = canonical \cup {at}
    /\ at' = at + 1
    /\ UNCHANGED <<vendor, day, step, got, frame, blind, registry, universe, cacheEnd>>

RefetchFails ==     \* one date's fetch fails: recorded, the loop goes on
    /\ step = "refetch" /\ at < day
    /\ at' = at + 1
    /\ UNCHANGED <<vendor, day, step, got, verdict, frame, blind, registry, stores>>

RefetchDone ==
    /\ step = "refetch" /\ at = day
    /\ Goto("prior") /\ Forget
    /\ UNCHANGED <<vendor, day, registry, stores>>

-----------------------------------------------------------------------------
(* D18 and D32: daily_append of the prior day, overwriting, and of the day *)
(* itself, skipping a row that exists.                                      *)

Target == IF step \in {"prior", "markPrior", "rowPrior"} THEN day - 1 ELSE day
Skips == Target \notin DOMAIN archive \/ (step = "today" /\ Target \in DOMAIN universe)

MarkStep == IF step = "prior" THEN "markPrior" ELSE "markToday"
RowStep == IF step \in {"prior", "markPrior"} THEN "rowPrior" ELSE "rowToday"
AfterRow == Next1[step]

\* _ensure_history_restated: read, restate, rewrite.  The frame is what the
\* caller keeps when the guard raises before it returns.
Ensure ==
    /\ step \in {"prior", "today"}
    /\ frame' = IF Skips THEN NoFrame ELSE universe
    /\ IF Skips
       THEN Goto(AfterRow) /\ UNCHANGED universe
       ELSE \/ /\ detected /\ ~marked /\ Applies(universe)
               /\ universe' = Restate(universe) /\ Goto(MarkStep)
            \/ Goto(RowStep) /\ UNCHANGED universe
    /\ UNCHANGED <<vendor, day, at, got, verdict, blind, registry, canonical, archive, cacheEnd>>

MarkEnsured ==
    /\ step \in {"markPrior", "markToday"}
    /\ marked' = TRUE
    /\ frame' = universe
    /\ Goto(RowStep)
    /\ UNCHANGED <<vendor, day, at, got, verdict, blind, detected, restated, stores>>

\* Mutant of Spliced: the ex-date of the action is not asked for.
SplicedAnyDate(s, d, known) ==
    LET bar == archive[d]
        prior == Before(s, d)
        gap == s[Latest(prior)] - bar
    IN  IF prior = {} \/ gap = 0 THEN {bar}
        ELSE IF known /\ marked /\ gap = -1 THEN {bar - 1}
        ELSE IF known /\ ~marked /\ gap = 1 THEN {bar + 1}
        ELSE IF d \in DOMAIN s /\ s[d] = s[Latest(prior)] THEN {}
        ELSE {bar}

\* _splice_basis_guard of the bar of date d against the series s: the level
\* to write, or none when the bar is refused.
Spliced(s, d, known) ==
    LET bar == archive[d]
        prior == Before(s, d)
        gap == s[Latest(prior)] - bar
        ahead == known /\ d < Ex
    IN  IF prior = {} \/ gap = 0 THEN {bar}
        ELSE IF ahead /\ marked /\ gap = -1 THEN {bar - 1}     \* store leads
        ELSE IF ahead /\ ~marked /\ gap = 1 THEN {bar + 1}     \* feed leads
        ELSE IF d \in DOMAIN s /\ s[d] = s[Latest(prior)] THEN {}
        ELSE {bar}

\* _write_row_backfill_safe: an update at the head, a full rewrite of the
\* frame the run read before it otherwise.
AppendRow(known) ==
    /\ step \in {"rowPrior", "rowToday"}
    /\ LET d == Target
           spliced == Spliced(frame, d, known)
       IN  universe' = IF spliced = {} THEN universe
                       ELSE LET level == CHOOSE v \in spliced : TRUE
                            IN  With(IF d >= Last(frame) THEN universe ELSE frame, d, level)
    /\ frame' = NoFrame
    /\ Goto(AfterRow)
    /\ UNCHANGED <<vendor, day, at, got, verdict, blind, registry, canonical, archive, cacheEnd>>

-----------------------------------------------------------------------------
(* D19: the evening capture from yfinance, which fills what is missing *)

Capture ==
    /\ step = "capture"
    /\ archive' = Over(archive, [d \in 1 .. day |-> Yahoo(d, day)])
    /\ Goto("snapshot")
    /\ UNCHANGED <<vendor, day, run, registry, canonical, universe, cacheEnd>>

-----------------------------------------------------------------------------
(* _apply_daily_delta, shared by the snapshot (D31) and the backfill *)

\* _undo_vendor_preadjustment.  A delta row is on the vendor's adjusted basis
\* when its stored twin is one factor above it; a row without a twin is on its
\* predecessor's basis until the close steps by the factor.
StepInto(base, delta, d) ==
    IF Before(delta, d) # {} THEN Step(delta, d)
    ELSE IF Before(base, d) # {} THEN base[Latest(Before(base, d))] - delta[d]
    ELSE 0

Vendors(base, delta, d) ==
    IF d \in DOMAIN base THEN delta[d] = base[d] - 1 ELSE StepInto(base, delta, d) = 1

Decides(base, delta, d) == d \in DOMAIN base \/ StepInto(base, delta, d) \in {1, -1}

OnVendorBasis(base, delta, d) ==
    LET decided == {e \in DOMAIN delta : e <= d /\ Decides(base, delta, e)}
    IN  decided # {} /\ Vendors(base, delta, Latest(decided))

Undo(base, delta) ==
    [d \in DOMAIN delta |->
        IF PreEx(d) /\ OnVendorBasis(base, delta, d) THEN delta[d] + 1 ELSE delta[d]]

\* Mutant of Combined: the archive overrides the cache, as before I13095.
CombinedOverriding(base, lo, override, known) ==
    LET delta == Since(Upto(archive, day), lo)
        settled == IF known THEN Undo(base, delta) ELSE delta
    IN  Over(settled, base)

\* The base with the archive rows of (lo, day]; in the backfill a base row is
\* never overridden (override = FALSE).
Combined(base, lo, override, known) ==
    LET window == Since(Upto(archive, day), lo)
        delta == IF override THEN window ELSE Since(window, Last(base))
        settled == IF known THEN Undo(base, delta) ELSE delta
    IN  Over(settled, base)

\* D31 reads the rows before the day, overlays the archive, restates what it
\* read - and marks the universe store, which it does not write.
Snapshot(lo) ==
    /\ step = "snapshot"
    /\ LET base == Upto(universe, day - 1)
           delta == Since(Upto(archive, day), lo)
       IN  IF DOMAIN base = {} \/ lo > Last(base) \/ DOMAIN delta = {}
           THEN UNCHANGED <<detected, marked>>
           ELSE \E g \in Scans(lo, day), list \in BOOLEAN :
                  /\ detected' = (detected \/ g)
                  /\ marked' = (marked \/ (g /\ Applies(Combined(base, lo, TRUE, g \/ (list /\ detected')))))
    /\ Goto("today")
    /\ UNCHANGED <<vendor, day, run, restated, stores>>

-----------------------------------------------------------------------------
(* Saturday *)

RefreshCache ==
    /\ step = "refresh"
    /\ cacheEnd' = day
    /\ Goto("build")
    /\ UNCHANGED <<vendor, day, run, registry, canonical, archive, universe>>

\* backfill's _apply_daily_delta: the scan, and the cache extended by the delta.
BuildFrame(lo) ==
    /\ step = "build" /\ lo <= cacheEnd
    /\ got' \in Scans(lo, day)
    /\ detected' = (detected \/ got')
    /\ \E known \in {got', detected'} :
         /\ frame' = IF DOMAIN Since(Upto(archive, day), lo) = {} THEN Cache
                     ELSE Combined(Cache, lo, FALSE, known)
         /\ blind' = (known # detected')
    /\ Goto("fold")
    /\ UNCHANGED <<vendor, day, at, verdict, marked, restated, stores>>

\* ... and its restatement, which marks; a residual boundary ends the run.
Fold ==
    /\ step = "fold"
    /\ IF ~got \/ marked \/ Evidence(frame) \notin Evidenced
       THEN Goto("audit") /\ UNCHANGED <<run, marked>>
       ELSE IF Applies(frame)
       THEN /\ frame' = Restate(frame) /\ marked' = TRUE
            /\ Goto("audit") /\ UNCHANGED <<at, got, verdict, blind>>
       ELSE Goto("close") /\ Forget /\ UNCHANGED marked
    /\ UNCHANGED <<vendor, day, detected, restated, stores>>

Boundaries == {d \in DOMAIN frame : Near(d) /\ Before(frame, d) # {}}

\* Mutant of Missed: a marked split is taken to be in the frame already.
MissedUnmarked(known) == known /\ ~marked /\ \E d \in Boundaries : Step(frame, d) = 1

\* audit_action_jumps: a jump near the ex-date that the split explains.
Missed(known) == known /\ \E d \in Boundaries : Step(frame, d) = 1

\* The blocking audit and the staleness preflight, before any write.  When the
\* registry cannot be listed, no split is known and the audit lets it pass.
Audit ==
    /\ step = "audit"
    /\ \E known \in {FALSE, detected} :
         IF Missed(known) \/ Last(frame) < Last(universe)
         THEN Goto("close") /\ Forget
         ELSE /\ Goto("rewrite") /\ UNCHANGED <<at, got, verdict, frame>>
              /\ blind' = (blind \/ known # detected)
    /\ UNCHANGED <<vendor, day, registry, stores>>

Rewrite ==
    /\ step = "rewrite"
    /\ universe' = frame
    /\ Goto("close") /\ Forget
    /\ UNCHANGED <<vendor, day, registry, canonical, archive, cacheEnd>>

-----------------------------------------------------------------------------
Morning ==
    \/ Scan
    \/ SyncArchiveWrite \/ SyncArchiveNext \/ SyncArchiveDone
    \/ SyncUniverse \/ MarkUniverse
    \/ \E known \in {got, detected}, skip \in BOOLEAN : Refetch(known, skip)
    \/ RefetchFails \/ RefetchDone

Append == Ensure \/ MarkEnsured \/ \E known \in {FALSE, detected} : AppendRow(known)

Evening == Capture \/ \E lo \in 0 .. MaxDay : Snapshot(lo)

Saturday == RefreshCache \/ (\E lo \in 0 .. MaxDay : BuildFrame(lo)) \/ Fold \/ Audit \/ Rewrite

Next ==
    \/ Publish \/ Adjust
    \/ NextDay \/ Weekend \/ Stop
    \/ Morning \/ Append \/ Evening \/ Saturday

Spec == Init /\ [][Next]_vars

\* The calendar goes on, and a Saturday job that is run again and again gets
\* through each of its steps some time.
Fairness ==
    /\ WF_vars(NextDay \/ Weekend \/ Stop)
    /\ SF_vars(RefreshCache)
    /\ SF_vars(\E lo \in 0 .. MaxDay : BuildFrame(lo))
    /\ SF_vars(Fold)
    /\ SF_vars(Audit)
    /\ SF_vars(Rewrite)

FairSpec == Spec /\ Fairness

-----------------------------------------------------------------------------
(* Properties *)

Levels == -1 .. 1

\* What the variables hold; no row of any store is ever more than one factor
\* away from the scale it should have.
TypeOK ==
    /\ vendor \in BOOLEAN \X BOOLEAN \X BOOLEAN
    /\ day \in Days /\ step \in Steps /\ at \in Days
    /\ got \in BOOLEAN /\ blind \in BOOLEAN /\ verdict \in {Idle, "ambiguous", "direct", "inverse", "none"}
    /\ detected \in BOOLEAN /\ marked \in BOOLEAN
    /\ restated \subseteq Days /\ canonical \subseteq DOMAIN archive
    /\ \A s \in {archive, universe, frame} :
         DOMAIN s \subseteq Days /\ \A d \in DOMAIN s : s[d] \in Levels
    /\ cacheEnd \in Days

\* Four writers may each restate the history for a real split, any of them may
\* die between its write and its marker, and a marker may be written by a path
\* that wrote nothing: no row of the archive, no row of the universe's history
\* and none of the evidence window is divided a second time.  Only a row the
\* vendor had adjusted before the window may be, which no evidence shows.
NeverTwice ==
    real => /\ \A d \in DOMAIN archive : archive[d] >= 0
            /\ \A d \in DOMAIN universe : universe[d] < 0 => 0 < d /\ d < Ex - Window

\* No restatement, splice or undo moves a row of the ex-date or later.
PostExUntouched == \A s \in {archive, universe} : \A d \in DOMAIN s : d >= Ex => s[d] = 0

\* A split the vendor lists but the market never executed is never folded in,
\* nor marked as folded in, while the universe series itself holds no adjusted
\* bar - even though the vendor's adjusted bars stand in the archive and print a
\* jump of exactly the registered factor.  An adjusted bar that a run blind to
\* the registry appended is what can get one folded in.
PhantomIgnored ==
    [][~real /\ (\A d \in DOMAIN universe : universe[d] = 0)
         => universe'[0] = 0 /\ (marked' => marked)]_vars

\* The archive row marked applied is final: neither a later refetch of the
\* vendor's adjusted bar nor the evening's capture moves it again.
RestatedStays == [][real => \A d \in restated : archive'[d] = archive[d]]_vars

\* The universe series carries one scale, the one of the latest trading day.
OneScale == \A d \in DOMAIN universe : universe[d] = 0

\* The Saturday rewrite lands on one scale whenever the cache was refreshed
\* since the ex-date, or the run listed the registry both times it needs it,
\* found the split there and has a row of the window that follows it: a frame
\* that stands half restated - a stale cache under new archive rows, an undo
\* that met no twin, a marker another writer set - is refused, not written.
RewriteHeals ==
    [][step = "rewrite" /\ universe' # universe
         /\ \/ cacheEnd >= Ex
            \/ detected /\ ~blind /\ \E d \in DOMAIN frame : Ex <= d /\ Near(d)
       => OneScale']_vars

\* Whatever mornings and evenings made of the split - scans that failed, tasks
\* that stopped half-way, a marker set early, a phantom's bars appended - the
\* Saturday rewrite puts the whole universe series on one scale.
Heals == (day >= Ex) ~> OneScale

\* "the registry applied marker is the contract [daily_append] trusts to mean
\* the ArcticDB history is on the restated scale" (corporate_actions/
\* __init__.py:1208-1210).
MarkerMeansRestated == real /\ marked => OneScale
=============================================================================
