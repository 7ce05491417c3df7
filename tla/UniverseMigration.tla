-------------------------- MODULE UniverseMigration --------------------------
(***************************************************************************)
(* The schema of the ArcticDB `universe` library: the migration boxes that *)
(* rewrite it (scripts/run_arctic_migrations.py, migrations/), the schema  *)
(* stamp beside it (store/schema_version.py) and the producers that append *)
(* to it while pipelines run (builders/daily_append.py) or rewrite it from *)
(* the price cache (builders/backfill.py).                                 *)
(*                                                                         *)
(* Data abstraction.  The chain of additive migrations is linear, so a     *)
(* column set is the version number whose columns it has.  A symbol's      *)
(* frame is its version and its days; a day is a `row` (real values) or a  *)
(* `probe` (the copy of the last row that verify_additive appends).        *)
(***************************************************************************)
EXTENDS Naturals, FiniteSets

CONSTANTS
    Symbol,       \* the symbols of the universe library
    Runner,       \* one migration box each: one launch of the dispatcher
    Producer,     \* one pipeline execution each: it appends or backfills
    Guarded,      \* the producers whose pipeline the mutex probe lists
    Backfiller,   \* the producers that may run builders.backfill
    MaxVersion,   \* bound: migrations ever merged
    MaxDay,       \* bound: last day a producer appends
    SampleSize,   \* verify_additive's `sample`
    PreflightSize, \* builders.backfill's _REGRESSION_PREFLIGHT_SAMPLE_SIZE
    ChunkSize,    \* UNIVERSE_CHUNK_SIZE
    Explored      \* bound: the lapses that may happen

NoStamp == MaxVersion + 1      \* the meta library has no `schema_version`

ASSUME ConstantsAssumption ==
    /\ Symbol # {} /\ IsFiniteSet(Symbol)
    /\ Guarded \subseteq Producer /\ Backfiller \subseteq Producer
    /\ MaxVersion \in Nat /\ MaxDay \in Nat
    /\ SampleSize \in Nat \ {0} /\ ChunkSize \in Nat \ {0}
    /\ PreflightSize \in Nat \ {0}

VARIABLES
    main,         \* latest_version() of the main branch
    stamp,        \* universe_schema_meta.schema_version
    universe,     \* symbol -> its latest frame
    marker,       \* head -> the completion marker's state
    pc, head, mig, todo, snap, item, failed,     \* per Runner
    ppc, code, day, skip, left, hist,            \* per Producer
    appended,     \* history: <<symbol, day>> an append reported written
    lapses        \* history: what calendar, mutex and preflight let through

libVars  == <<stamp, universe>>
boxVars  == <<pc, head, mig, todo, snap, item, failed>>
prodVars == <<ppc, code, day, skip, left, hist>>
vars     == <<main, libVars, marker, boxVars, prodVars, appended, lapses>>

Version == 0..MaxVersion
Frame   == [ver : Version, rows : SUBSET Nat, probe : SUBSET Nat]
Marker  == {"none", "refused_mutex_probe_failed", "refused_mutex_active",
            "noop_up_to_date", "failure", "success"}
BoxPc   == {"idle", "probe", "load", "read", "write", "stamp", "verify",
            "heal", "done"}
ProdPc  == {"idle", "open", "read", "write", "backfill", "done"}
Lapse   == {"boxes", "pipelines", "beside", "blind"}
EmptyFrame == [ver |-> 0, rows |-> {}, probe |-> {}]
NoFrames == [s \in Symbol |-> EmptyFrame]

-----------------------------------------------------------------------------
(* Pure helpers *)

\* resolve_current_version: an absent stamp reads as the baseline, 0.
Effective == IF stamp = NoStamp THEN 0 ELSE stamp

Days(f) == f.rows \cup f.probe

LastDay(f) == CHOOSE d \in Days(f) : \A e \in Days(f) : e <= d

\* to_arctic_canonical run by code that knows versions up to c: the columns
\* of later versions are dropped, missing ones are not invented.
Canonical(v, c) == IF v > c THEN c ELSE v

\* rewrite_symbols_full of migration m in code c, on a symbol at version v:
\* m's new columns are added if the symbol lacks only those, then projected.
Rewritten(v, m, c) == Canonical(IF v + 1 = m THEN m ELSE v, c)

BoxLive(r)  == pc[r] \notin {"idle", "done"}
PastProbe(r) == BoxLive(r) /\ pc[r] # "probe"
ProdLive(p) == ppc[p] \in {"open", "read", "write", "backfill"}

\* n of the symbols S, or all of them when there are fewer: list[:n] of a
\* list whose order the storage layer or a seed chooses.
Slices(S, n) == {C \in SUBSET S : /\ C # {}
                                  /\ Cardinality(C) <= n
                                  /\ Cardinality(C) = n \/ C = S}

-----------------------------------------------------------------------------
Init ==
    /\ main = 0 /\ stamp = NoStamp
    /\ universe = [s \in Symbol |-> [ver |-> 0, rows |-> {1}, probe |-> {}]]
    /\ marker = [h \in Version |-> "none"]
    /\ pc = [r \in Runner |-> "idle"]
    /\ head = [r \in Runner |-> 0] /\ mig = [r \in Runner |-> 0]
    /\ todo = [r \in Runner |-> {}]
    /\ snap = [r \in Runner |-> NoFrames]
    /\ item = [r \in Runner |-> {}]
    /\ failed = [r \in Runner |-> FALSE]
    /\ ppc = [p \in Producer |-> "idle"]
    /\ code = [p \in Producer |-> 0] /\ day = [p \in Producer |-> 0]
    /\ skip = [p \in Producer |-> FALSE]
    /\ left = [p \in Producer |-> {}]
    /\ hist = [p \in Producer |-> NoFrames]
    /\ appended = {} /\ lapses = {}

\* A pull request that adds the next migration, and the code emitting its
\* columns, is merged.  validate_chain keeps the numbers contiguous.
Merge ==
    /\ main < MaxVersion
    /\ main' = main + 1
    /\ UNCHANGED <<libVars, marker, boxVars, prodVars, appended, lapses>>

-----------------------------------------------------------------------------
(* What nothing in the code rules out, and the writers are not made for.    *)
(* The steps that let it happen note it; what they do is the same.          *)
(*   boxes      a box starts while another one is live                      *)
(*   pipelines  a producer starts while another one is at work              *)
(*   beside     a producer is at work and a box past its mutex probe        *)
(*   blind      a preflight passes, and a symbol it did not look at has     *)
(*              days the price cache lacks                                  *)

When(kind, happens) == IF happens THEN {kind} ELSE {}

Note(new) == new \subseteq Explored /\ lapses' = lapses \cup new

-----------------------------------------------------------------------------
(* The migration box: scripts/run_arctic_migrations.py *)

\* The dispatcher starts a box pinned to a merged head (a defer re-launch
\* or a slow boot may pin one that main has moved past).
Launch(r) ==
    /\ pc[r] = "idle"
    /\ Note(When("boxes", \E q \in Runner : BoxLive(q)))
    /\ \E h \in 1..main : head' = [head EXCEPT ![r] = h]
    /\ pc' = [pc EXCEPT ![r] = "probe"]
    /\ UNCHANGED <<main, libVars, marker, mig, todo, snap, item, failed,
                   prodVars, appended>>

\* write_completion_marker swallows a failed PUT.
PutMarker(r, state) ==
    \/ marker' = [marker EXCEPT ![head[r]] = state]
    \/ UNCHANGED marker

\* The end of run(): the local state of the process is gone.
Exit(r) ==
    /\ pc' = [pc EXCEPT ![r] = "done"]
    /\ todo' = [todo EXCEPT ![r] = {}]
    /\ snap' = [snap EXCEPT ![r] = NoFrames]
    /\ item' = [item EXCEPT ![r] = {}]
    /\ failed' = [failed EXCEPT ![r] = FALSE]
    /\ head' = [head EXCEPT ![r] = 0] /\ mig' = [mig EXCEPT ![r] = 0]

\* running_pipeline_executions: clear, a guarded execution is RUNNING, or the
\* States API errors.  The answer is not a lock: pipelines are free to start
\* between it and the first read.
Probe(r) ==
    /\ pc[r] = "probe"
    /\ \/ /\ \A p \in Guarded : ~ProdLive(p)
          /\ Note(When("beside", \E p \in Producer : ProdLive(p)))
          /\ pc' = [pc EXCEPT ![r] = "load"]
          /\ UNCHANGED <<marker, head, mig, todo, snap, item, failed>>
       \/ /\ \E p \in Guarded : ProdLive(p)
          /\ PutMarker(r, "refused_mutex_active")
          /\ Exit(r) /\ UNCHANGED lapses
       \/ /\ PutMarker(r, "refused_mutex_probe_failed")
          /\ Exit(r) /\ UNCHANGED lapses
    /\ UNCHANGED <<main, libVars, prodVars, appended>>

\* Mutant of LoadPending: the chain is applied from its last migration.
LoadPendingFromHead(r) ==
    /\ pc[r] = "load"
    /\ \/ /\ head[r] <= Effective
          /\ PutMarker(r, "noop_up_to_date")
          /\ Exit(r)
       \/ /\ head[r] > Effective
          /\ mig' = [mig EXCEPT ![r] = head[r]]
          /\ pc' = [pc EXCEPT ![r] = "read"]
          /\ todo' = [todo EXCEPT ![r] = Symbol]
          /\ UNCHANGED <<marker, head, snap, item, failed>>
    /\ UNCHANGED <<main, libVars, prodVars, appended, lapses>>

\* The stamp and the pending chain, read once.
LoadPending(r) ==
    /\ pc[r] = "load"
    /\ \/ /\ head[r] <= Effective
          /\ PutMarker(r, "noop_up_to_date")
          /\ Exit(r)
       \/ /\ head[r] > Effective
          /\ mig' = [mig EXCEPT ![r] = Effective + 1]
          /\ pc' = [pc EXCEPT ![r] = "read"]
          /\ todo' = [todo EXCEPT ![r] = Symbol]
          /\ UNCHANGED <<marker, head, snap, item, failed>>
    /\ UNCHANGED <<main, libVars, prodVars, appended, lapses>>

\* apply_pending: run() or verify() raised, the chain stops here.
Fail(r) == PutMarker(r, "failure") /\ Exit(r)

\* rewrite_symbols_full reads, widens and projects one symbol.  A frame that
\* does not end at the migration's columns raises.
ReadSymbol(r) ==
    /\ pc[r] = "read"
    /\ \E s \in todo[r] :
         LET v == Rewritten(universe[s].ver, mig[r], head[r])
         IN  \/ /\ v = mig[r]
                /\ snap' = [snap EXCEPT ![r][s] =
                               [universe[s] EXCEPT !.ver = v]]
                /\ todo' = [todo EXCEPT ![r] = @ \ {s}]
                /\ UNCHANGED <<marker, pc, head, mig, item, failed>>
             \/ v # mig[r] /\ Fail(r)
    /\ UNCHANGED <<main, libVars, prodVars, appended, lapses>>

\* A storage call, or migration 0001's ETF fetch, raises: a read, the whole
\* batch of writes with some symbols written, or a read of verify.
StorageRaises(r) ==
    /\ pc[r] \in {"read", "write", "verify"}
    /\ Fail(r)
    /\ UNCHANGED <<main, libVars, prodVars, appended, lapses>>

\* Every symbol was read: write_batch starts.
StartWrite(r) ==
    /\ pc[r] = "read" /\ todo[r] = {}
    /\ pc' = [pc EXCEPT ![r] = "write"]
    /\ todo' = [todo EXCEPT ![r] = Symbol]
    /\ UNCHANGED <<main, libVars, marker, head, mig, snap, item, failed,
                   prodVars, appended, lapses>>

\* One symbol of the batch is written whole, or comes back as an error.
WriteSymbol(r) ==
    /\ pc[r] = "write"
    /\ \E s \in todo[r] :
         /\ \/ /\ universe' = [universe EXCEPT ![s] = snap[r][s]]
               /\ UNCHANGED failed
            \/ /\ failed' = [failed EXCEPT ![r] = TRUE]
               /\ UNCHANGED universe
         /\ todo' = [todo EXCEPT ![r] = @ \ {s}]
    /\ UNCHANGED <<main, stamp, marker, pc, head, mig, snap, item, prodVars,
                   appended, lapses>>

\* Mutant of EndWrite: the batch's error results are not counted.
EndWriteUncounted(r) ==
    /\ pc[r] = "write" /\ todo[r] = {}
    /\ pc' = [pc EXCEPT ![r] = "stamp"]
    /\ UNCHANGED <<main, libVars, marker, head, mig, todo, snap, item, failed,
                   prodVars, appended, lapses>>

\* The batch returned: its errors are counted, none may be left.
EndWrite(r) ==
    /\ pc[r] = "write" /\ todo[r] = {}
    /\ \/ failed[r] /\ Fail(r)
       \/ /\ ~failed[r]
          /\ pc' = [pc EXCEPT ![r] = "stamp"]
          /\ UNCHANGED <<marker, head, mig, todo, snap, item, failed>>
    /\ UNCHANGED <<main, libVars, prodVars, appended, lapses>>

\* write_schema_version, the last statement of the migration's run(): verify
\* comes after it and looks at a sample of the symbols.
Stamp(r) ==
    /\ pc[r] = "stamp"
    /\ \/ /\ stamp' = mig[r]
          /\ \E S \in Slices(Symbol, SampleSize) :
               todo' = [todo EXCEPT ![r] = S]
          /\ pc' = [pc EXCEPT ![r] = "verify"]
          /\ snap' = [snap EXCEPT ![r] = NoFrames]
          /\ UNCHANGED <<marker, head, mig, item, failed>>
       \/ Fail(r) /\ UNCHANGED stamp
    /\ UNCHANGED <<main, universe, prodVars, appended, lapses>>

\* verify_additive on one symbol: its columns are compared, then the probe
\* row is appended one day after the last.  A descriptor mismatch raises, any
\* other error result of the probe is not looked at.
VerifyProbe(r) ==
    /\ pc[r] = "verify"
    /\ \E s \in todo[r] :
         LET f == universe[s]
             d == LastDay(f) + 1
         IN  \/ /\ f.ver # mig[r]
                /\ Fail(r)
                /\ UNCHANGED universe
             \/ /\ f.ver = mig[r]
                /\ \/ universe' = [universe EXCEPT ![s].probe = @ \cup {d}]
                   \/ UNCHANGED universe
                /\ snap' = [snap EXCEPT ![r][s] = f]
                /\ todo' = [todo EXCEPT ![r] = @ \ {s}]
                /\ item' = [item EXCEPT ![r] = {s}]
                /\ pc' = [pc EXCEPT ![r] = "heal"]
                /\ UNCHANGED <<marker, head, mig, failed>>
    /\ UNCHANGED <<main, stamp, prodVars, appended, lapses>>

\* The symbol is rewritten to the frame read before the probe.  The results
\* of this write_batch are discarded, so an error of it changes nothing and
\* verification goes on; only an exception fails the run.
VerifyHeal(r) ==
    /\ pc[r] = "heal"
    /\ \E s \in item[r] :
         \/ /\ universe' = [universe EXCEPT ![s] = [snap[r][s] EXCEPT
                               !.ver = Canonical(snap[r][s].ver, head[r])]]
            /\ pc' = [pc EXCEPT ![r] = "verify"]
            /\ item' = [item EXCEPT ![r] = {}]
            /\ snap' = [snap EXCEPT ![r] = NoFrames]
            /\ UNCHANGED <<marker, head, mig, todo, failed>>
         \/ /\ UNCHANGED universe
            /\ pc' = [pc EXCEPT ![r] = "verify"]
            /\ item' = [item EXCEPT ![r] = {}]
            /\ snap' = [snap EXCEPT ![r] = NoFrames]
            /\ UNCHANGED <<marker, head, mig, todo, failed>>
         \/ Fail(r) /\ UNCHANGED universe
    /\ UNCHANGED <<main, stamp, prodVars, appended, lapses>>

\* Mutant of NextMigration: one migration past the head.
NextMigrationPastHead(r) ==
    /\ pc[r] = "verify" /\ todo[r] = {}
    /\ mig' = [mig EXCEPT ![r] = @ + 1]
    /\ pc' = [pc EXCEPT ![r] = "read"]
    /\ todo' = [todo EXCEPT ![r] = Symbol]
    /\ UNCHANGED <<main, libVars, marker, head, snap, item, failed, prodVars,
                   appended, lapses>>

\* Mutant of NextMigration: success after the first migration of the chain.
NextMigrationStops(r) ==
    /\ pc[r] = "verify" /\ todo[r] = {}
    /\ PutMarker(r, "success")
    /\ Exit(r)
    /\ UNCHANGED <<main, libVars, prodVars, appended, lapses>>

\* verify() returned: the next migration of the chain, or success.
NextMigration(r) ==
    /\ pc[r] = "verify" /\ todo[r] = {}
    /\ \/ /\ mig[r] < head[r]
          /\ mig' = [mig EXCEPT ![r] = @ + 1]
          /\ pc' = [pc EXCEPT ![r] = "read"]
          /\ todo' = [todo EXCEPT ![r] = Symbol]
          /\ UNCHANGED <<marker, head, snap, item, failed>>
       \/ /\ mig[r] = head[r]
          /\ PutMarker(r, "success")
          /\ Exit(r)
    /\ UNCHANGED <<main, libVars, prodVars, appended, lapses>>

\* A spot reclaim or the box's runtime watchdog: no marker, no clean-up.
Crash(r) ==
    /\ BoxLive(r)
    /\ Exit(r)
    /\ UNCHANGED <<main, libVars, marker, prodVars, appended, lapses>>

-----------------------------------------------------------------------------
(* The producers *)

\* Only the calendar keeps a producer that starts from the other writers.
Crossed == When("pipelines", \E q \in Producer : ProdLive(q))
              \cup When("beside", \E r \in Runner : PastProbe(r))

\* daily_append for one trading day, in the code main has when it starts.
\* The end-of-day run passes skip_if_exists, the morning run overwrites.
StartAppend(p) ==
    /\ ppc[p] = "idle" /\ Note(Crossed)
    /\ \E d \in 1..MaxDay, k \in BOOLEAN :
         /\ day' = [day EXCEPT ![p] = d]
         /\ skip' = [skip EXCEPT ![p] = k]
    /\ ppc' = [ppc EXCEPT ![p] = "open"]
    /\ code' = [code EXCEPT ![p] = main]
    /\ UNCHANGED <<main, libVars, marker, boxVars, left, hist, appended>>

\* The run is over, however it ended; what it held in memory is gone.
Finish(p) ==
    /\ ppc' = [ppc EXCEPT ![p] = "done"]
    /\ code' = [code EXCEPT ![p] = 0] /\ day' = [day EXCEPT ![p] = 0]
    /\ skip' = [skip EXCEPT ![p] = FALSE]
    /\ left' = [left EXCEPT ![p] = {}]
    /\ hist' = [hist EXCEPT ![p] = NoFrames]

\* Mutant of AssertSchema: only code behind the stamp is refused.
AssertSchemaNotBehind(p) ==
    /\ ppc[p] = "open"
    /\ \/ /\ code[p] >= Effective
          /\ ppc' = [ppc EXCEPT ![p] = "read"]
          /\ left' = [left EXCEPT ![p] = Symbol]
          /\ UNCHANGED <<code, day, skip, hist>>
       \/ code[p] < Effective /\ Finish(p)
    /\ UNCHANGED <<main, libVars, marker, boxVars, appended, lapses>>

\* assert_universe_schema_current, once, before any symbol is touched.
AssertSchema(p) ==
    /\ ppc[p] = "open"
    /\ \/ /\ code[p] = Effective
          /\ ppc' = [ppc EXCEPT ![p] = "read"]
          /\ left' = [left EXCEPT ![p] = Symbol]
          /\ UNCHANGED <<code, day, skip, hist>>
       \/ code[p] # Effective /\ Finish(p)
    /\ UNCHANGED <<main, libVars, marker, boxVars, appended, lapses>>

\* read_batch of the next chunk, or the end of the chunk loop.
ReadChunk(p) ==
    /\ ppc[p] = "read"
    /\ \/ \E C \in Slices(left[p], ChunkSize) :
            /\ hist' = [hist EXCEPT ![p] =
                          [s \in Symbol |-> IF s \in C THEN universe[s]
                                                       ELSE EmptyFrame]]
            /\ left' = [left EXCEPT ![p] = @ \ C]
            /\ ppc' = [ppc EXCEPT ![p] = "write"]
            /\ UNCHANGED <<code, day, skip>>
       \/ left[p] = {} /\ Finish(p)
    /\ UNCHANGED <<main, libVars, marker, boxVars, appended, lapses>>

\* The symbols of the chunk that get a row: not those skip_if_exists passes.
Queued(p) == {s \in Symbol : /\ Days(hist[p][s]) # {}
                             /\ ~(skip[p] /\ day[p] \in Days(hist[p][s]))}

\* Appended at the head with update_batch, or spliced and written whole.
AtHead(p, s) == \A d \in Days(hist[p][s]) : d <= day[p]

\* Mutant of WithRow: a probe row of that day stays beside the real one.
WithRowAddedOnly(f, d) == [f EXCEPT !.rows = @ \cup {d}]

\* A frame with the real row of day d, replacing a probe row of that day.
WithRow(f, d) == [f EXCEPT !.rows = @ \cup {d}, !.probe = @ \ {d}]

\* Phase 2 of a chunk.  An update is accepted only if the stored descriptor
\* is the code's; a splice lays down the code's columns over the history read
\* with the chunk.  W are the symbols written; the others came back as a
\* DataError, or the whole update batch raised StreamDescriptorMismatch.
WriteChunk(p) ==
    /\ ppc[p] = "write"
    /\ \E W \in SUBSET Queued(p), abort \in BOOLEAN :
         /\ \A s \in W : AtHead(p, s) => universe[s].ver = code[p]
         /\ abort => /\ \E s \in Queued(p) \ W :
                          AtHead(p, s) /\ universe[s].ver # code[p]
                     /\ \A s \in W : AtHead(p, s)
         /\ universe' = [s \in Symbol |->
               IF s \notin W THEN universe[s]
               ELSE IF AtHead(p, s) THEN WithRow(universe[s], day[p])
               ELSE [WithRow(hist[p][s], day[p]) EXCEPT !.ver = code[p]]]
         /\ appended' = appended \cup (W \X {day[p]})
         /\ IF abort THEN Finish(p)
                     ELSE /\ ppc' = [ppc EXCEPT ![p] = "read"]
                          /\ hist' = [hist EXCEPT ![p] = NoFrames]
                          /\ UNCHANGED <<code, day, skip, left>>
    /\ UNCHANGED <<main, stamp, marker, boxVars, lapses>>

\* Mutant of StartBackfill: no regression preflight.
StartBackfillUnchecked(p) ==
    /\ p \in Backfiller /\ ppc[p] = "idle" /\ Note(Crossed)
    /\ \E k \in 1..MaxDay : day' = [day EXCEPT ![p] = k]
    /\ ppc' = [ppc EXCEPT ![p] = "backfill"]
    /\ code' = [code EXCEPT ![p] = main]
    /\ left' = [left EXCEPT ![p] = Symbol]
    /\ UNCHANGED <<main, libVars, marker, boxVars, skip, hist, appended>>

\* builders.backfill over a price cache that ends at day k.  The regression
\* preflight compares last dates on a sample of the symbols and refuses a
\* cache that is behind one of them.  There is no schema assert here.
StartBackfill(p) ==
    /\ p \in Backfiller /\ ppc[p] = "idle"
    /\ \E k \in 1..MaxDay, S \in Slices(Symbol, PreflightSize) :
         IF \A s \in S : LastDay(universe[s]) <= k
           THEN /\ Note(Crossed \cup When("blind",
                          \E s \in Symbol : LastDay(universe[s]) > k))
                /\ ppc' = [ppc EXCEPT ![p] = "backfill"]
                /\ code' = [code EXCEPT ![p] = main]
                /\ day' = [day EXCEPT ![p] = k]
                /\ left' = [left EXCEPT ![p] = Symbol]
                /\ UNCHANGED <<skip, hist>>
           ELSE Finish(p) /\ UNCHANGED lapses
    /\ UNCHANGED <<main, libVars, marker, boxVars, appended>>

\* Mutant of BackfillSymbol: the cache's last row only, not its history.
BackfillLastRow(p) ==
    /\ ppc[p] = "backfill"
    /\ \/ \E s \in left[p] :
            /\ \/ universe' = [universe EXCEPT ![s] =
                     [ver |-> code[p], rows |-> {day[p]}, probe |-> {}]]
               \/ UNCHANGED universe
            /\ left' = [left EXCEPT ![p] = @ \ {s}]
            /\ UNCHANGED <<ppc, code, day, skip, hist>>
       \/ left[p] = {} /\ Finish(p) /\ UNCHANGED universe
    /\ UNCHANGED <<main, stamp, marker, boxVars, appended, lapses>>

\* One symbol is rebuilt from the cache and written whole, or the loop's
\* per-ticker handler counts an error and goes on.
BackfillSymbol(p) ==
    /\ ppc[p] = "backfill"
    /\ \/ \E s \in left[p] :
            /\ \/ universe' = [universe EXCEPT ![s] =
                     [ver |-> code[p], rows |-> 1..day[p], probe |-> {}]]
               \/ UNCHANGED universe
            /\ left' = [left EXCEPT ![p] = @ \ {s}]
            /\ UNCHANGED <<ppc, code, day, skip, hist>>
       \/ left[p] = {} /\ Finish(p) /\ UNCHANGED universe
    /\ UNCHANGED <<main, stamp, marker, boxVars, appended, lapses>>

\* The collection box is reclaimed, or a later guard of the run raises.
ProducerDies(p) ==
    /\ ProdLive(p)
    /\ Finish(p)
    /\ UNCHANGED <<main, libVars, marker, boxVars, appended, lapses>>

-----------------------------------------------------------------------------
BoxStep(r) ==
    \/ Launch(r) \/ Probe(r) \/ LoadPending(r)
    \/ ReadSymbol(r) \/ StorageRaises(r) \/ StartWrite(r)
    \/ WriteSymbol(r) \/ EndWrite(r) \/ Stamp(r)
    \/ VerifyProbe(r) \/ VerifyHeal(r) \/ NextMigration(r) \/ Crash(r)

ProducerStep(p) ==
    \/ StartAppend(p) \/ AssertSchema(p) \/ ReadChunk(p) \/ WriteChunk(p)
    \/ StartBackfill(p) \/ BackfillSymbol(p) \/ ProducerDies(p)

Next == \/ Merge
        \/ \E r \in Runner : BoxStep(r)
        \/ \E p \in Producer : ProducerStep(p)

Spec == Init /\ [][Next]_vars

-----------------------------------------------------------------------------
(* Properties *)

LibraryTypeOK ==
    /\ main \in Version /\ stamp \in Version \cup {NoStamp}
    /\ universe \in [Symbol -> Frame]
    /\ marker \in [Version -> Marker]
    /\ appended \subseteq Symbol \X Nat /\ lapses \subseteq Lapse

BoxTypeOK ==
    /\ pc \in [Runner -> BoxPc]
    /\ head \in [Runner -> Version] /\ mig \in [Runner -> Version]
    /\ todo \in [Runner -> SUBSET Symbol]
    /\ snap \in [Runner -> [Symbol -> Frame]]
    /\ item \in [Runner -> SUBSET Symbol]
    /\ failed \in [Runner -> BOOLEAN]

ProducerTypeOK ==
    /\ ppc \in [Producer -> ProdPc]
    /\ code \in [Producer -> Version] /\ day \in [Producer -> Nat]
    /\ skip \in [Producer -> BOOLEAN]
    /\ left \in [Producer -> SUBSET Symbol]
    /\ hist \in [Producer -> [Symbol -> Frame]]

\* The type of every variable.
TypeOK == LibraryTypeOK /\ BoxTypeOK /\ ProducerTypeOK

\* No second writer has come beside a box past its probe, a producer or a box.
Separate == lapses \subseteq {"blind"}

\* The stamp never promises columns a symbol lacks, whatever was interrupted
\* between the rewrite and the stamp: a rewrite precedes its stamp
\* (migrations/0002) and nothing lays an older frame over a stamped one.
NoSymbolBelowStamp ==
    Separate => \A s \in Symbol : Effective <= universe[s].ver

\* An append the schema assert let through meets only symbols whose
\* descriptor is its own, to the end of its chunk loop: the mass
\* StreamDescriptorMismatch of config-I3236 cannot happen past the assert.
AcceptedAppendFits ==
    Separate => \A p \in Producer : ppc[p] \in {"read", "write"} =>
                    \A s \in Symbol : universe[s].ver = code[p]

\* "never a partial/interleaved write" (run-arctic-migrations.yml:20): a row an
\* append reported written stays, whoever rewrites its symbol afterwards.
RowsStay == \A a \in appended : a[2] \in universe[a[1]].rows

\* It does until the first lapse: no rewrite from an older read, no verify
\* heal and no backfill takes an appended row out again.
NoAppendLost == lapses = {} => RowsStay

\* A head whose marker says success or noop is what the stamp says and what
\* every symbol, sampled by verify or not, has on disk.
SuccessMeansMigrated ==
    Separate => \A h \in Version :
        marker[h] \in {"success", "noop_up_to_date"} =>
            h <= Effective /\ \A s \in Symbol : h <= universe[s].ver

\* Every step that moves the stamp applies exactly the next migration, whatever
\* the producers do meanwhile, as long as boxes come one after the other.
StampAdvancesByOne ==
    [][stamp' # stamp /\ "boxes" \notin lapses => stamp' = Effective + 1]_vars

\* A probe row verify_additive left behind never stands for a real one: the
\* heal drops the error results of its write_batch (migrations/_base.py), so
\* the row may stay, and whoever reads, splices or rewrites the symbol later
\* must not find a day that is both.
ProbeNeverShadows ==
    \A s \in Symbol : universe[s].rows \cap universe[s].probe = {}

\* The library as its readers count on it: probe rows left out.
View == [s \in Symbol |-> [ver |-> universe[s].ver, rows |-> universe[s].rows]]

Library == INSTANCE UniverseLibrary WITH
    Day <- 1..MaxDay, level <- Effective, lib <- View, reported <- appended

\* Boxes and producers together are a library that only grows, until the first
\* lapse: no reader sees rows leave, the stamp run ahead of a symbol, or a row
\* appended to a library that is half migrated.
ImplementsLibrary ==
    /\ Library!Init
    /\ [][Library!Next \/ lapses' # {}]_<<Effective, View, appended>>
=============================================================================
