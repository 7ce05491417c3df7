-------------------------- MODULE UniverseDaysProofs --------------------------
(***************************************************************************)
(* Boxes and producers together implement UniverseLibrary, a library that  *)
(* only grows, for every number of symbols, boxes, producers, versions and *)
(* days, until the first lapse; and so a row an append reported written    *)
(* stays until then.                                                       *)
(*                                                                         *)
(* The argument: a frame that somebody may still write back was read by    *)
(* the library's only writer, so it has the rows the library has; and a    *)
(* backfill, which writes a cache instead of a frame it read, starts only  *)
(* if the cache reaches the last day of the symbols its preflight samples. *)
(* What the preflight passes although a symbol outside the sample has      *)
(* later days is a lapse like two writers that meet.                       *)
(***************************************************************************)
EXTENDS UniverseSchemaProofs

\* What a box read and may still write has the rows the library has.
SnapCurrent(r) ==
    \A s \in Symbol :
        \/ pc[r] = "read" /\ s \notin todo[r]
        \/ pc[r] = "write"
        \/ pc[r] = "heal" /\ s \in item[r]
        => snap[r][s].rows = universe[s].rows

\* So has what a producer read; a backfill's price cache reaches past every
\* row there is.
ChunkCurrent(p) ==
    /\ ppc[p] = "write" => \A s \in Symbol :
          Days(hist[p][s]) # {} => hist[p][s].rows = universe[s].rows
    /\ ppc[p] = "backfill" => \A s \in Symbol :
          \A d \in universe[s].rows : d <= day[p]

\* Days are counted from 1, and a producer appends one of Library's.
RealDays ==
    /\ \A s \in Symbol : 0 \notin universe[s].rows
    /\ \A p \in Producer :
          ppc[p] \in {"open", "read", "write"} => day[p] \in 1..MaxDay

DInv == /\ SInv /\ RealDays
        /\ \A r \in Runner : SnapCurrent(r)
        /\ \A p \in Producer : ChunkCurrent(p)

\* The invariant of every behaviour: DInv until the first lapse.
DaysInv == TInv /\ (lapses = {} => DInv)

-----------------------------------------------------------------------------
(* Rows *)

LEMMA WithRowRows ==
    ASSUME NEW f \in Frame, NEW d \in Nat, NEW v \in Version
    PROVE  /\ WithRow(f, d).rows = f.rows \cup {d}
           /\ [WithRow(f, d) EXCEPT !.ver = v].rows = f.rows \cup {d}
  BY DEF WithRow, Frame

LEMMA FrameRows ==
    ASSUME NEW f \in Frame, NEW v \in Version, NEW d \in Nat
    PROVE  /\ [f EXCEPT !.ver = v].rows = f.rows
           /\ [f EXCEPT !.probe = @ \cup {d}].rows = f.rows
  BY DEF Frame

LEMMA InitDInv == Init => DInv
<1> SUFFICES ASSUME Init PROVE DInv
  OBVIOUS
<1>1. SInv
  BY InitSInv
<1>2. RealDays
  BY DEF Init, RealDays
<1>3. (\A r \in Runner : SnapCurrent(r)) /\ (\A p \in Producer : ChunkCurrent(p))
  BY DEF Init, SnapCurrent, ChunkCurrent
<1> QED
  BY <1>1, <1>2, <1>3 DEF DInv

\* No step of a box changes a symbol's rows: what it writes back it has read.
LEMMA BoxStepRows ==
    ASSUME DInv, NEW r \in Runner, BoxStep(r), NEW s \in Symbol
    PROVE  universe'[s].rows = universe[s].rows
<1> USE DEF DInv, SInv, TInv, TypeOK, LibraryTypeOK, BoxTypeOK
<1>1. CASE WriteSymbol(r)
  BY <1>1 DEF WriteSymbol, SnapCurrent
<1>2. CASE VerifyProbe(r) /\ ~UNCHANGED universe
  <2>1. PICK x \in Symbol : universe' = [universe EXCEPT ![x] =
           [universe[x] EXCEPT !.probe = @ \cup {LastDay(universe[x]) + 1}]]
    BY <1>2 DEF VerifyProbe
  <2>2. LastDay(universe[x]) + 1 \in Nat
    BY LastDayIsDay DEF LastDays
  <2>3. [universe[x] EXCEPT !.probe = @ \cup {LastDay(universe[x]) + 1}].rows
           = universe[x].rows
    BY <2>2, FrameRows
  <2> QED
    BY <2>1, <2>3
<1>3. CASE VerifyHeal(r) /\ ~UNCHANGED universe
  <2>1. PICK x \in item[r] : universe' = [universe EXCEPT ![x] =
               [snap[r][x] EXCEPT !.ver = Canonical(snap[r][x].ver, head[r])]]
    BY <1>3 DEF VerifyHeal
  <2>2. Canonical(snap[r][x].ver, head[r]) \in Version
    BY DEF Canonical, Frame
  <2>3. [snap[r][x] EXCEPT !.ver = Canonical(snap[r][x].ver, head[r])].rows
           = universe[x].rows
    BY <1>3, <2>2, FrameRows DEF VerifyHeal, SnapCurrent
  <2> QED
    BY <2>1, <2>3
<1>4. CASE UNCHANGED universe
  BY <1>4
<1> QED
  BY <1>1, <1>2, <1>3, <1>4
     DEF BoxStep, Launch, Probe, LoadPending, ReadSymbol, StorageRaises,
         StartWrite, EndWrite, Stamp, NextMigration, Crash, libVars

\* A chunk adds one day to the symbols it reports, and changes no other row.
LEMMA WriteChunkRows ==
    ASSUME DInv, NEW p \in Producer, WriteChunk(p)
    PROVE  \E W \in SUBSET Symbol :
             /\ appended' = appended \cup (W \X {day[p]})
             /\ \A s \in Symbol : universe'[s].rows =
                  IF s \in W THEN universe[s].rows \cup {day[p]}
                             ELSE universe[s].rows
<1> USE DEF DInv, SInv, TInv, TypeOK, LibraryTypeOK, ProducerTypeOK
<1>1. PICK W \in SUBSET Queued(p) :
        /\ universe' = [s \in Symbol |->
                          IF s \notin W THEN universe[s] ELSE Appended(p, s)]
        /\ appended' = appended \cup (W \X {day[p]})
  BY WriteChunkUniverse
<1>2. \A s \in W : s \in Symbol /\ hist[p][s].rows = universe[s].rows
  BY <1>1 DEF Queued, WriteChunk, ChunkCurrent
<1>3. \A s \in W : Appended(p, s).rows = universe[s].rows \cup {day[p]}
  BY <1>2, WithRowRows DEF Appended
<1> QED
  BY <1>1, <1>2, <1>3

\* A backfill writes every day up to its cache's last, so no row leaves.
LEMMA BackfillRows ==
    ASSUME DInv, NEW p \in Producer, BackfillSymbol(p), NEW s \in Symbol
    PROVE  \/ universe'[s] = universe[s]
           \/ universe[s].rows \subseteq 1..day[p] /\ universe'[s].rows = 1..day[p]
<1> USE DEF DInv, SInv, TInv, TypeOK, LibraryTypeOK, ProducerTypeOK
<1>1. CASE UNCHANGED universe
  BY <1>1
<1>2. CASE ~UNCHANGED universe
  <2>1. PICK x \in Symbol : universe' = [universe EXCEPT ![x] =
               [ver |-> code[p], rows |-> 1..day[p], probe |-> {}]]
    BY <1>2 DEF BackfillSymbol
  <2>2. universe[s].rows \subseteq Nat \ {0} /\ day[p] \in Nat
    BY DEF RealDays, Frame
  <2>3. \A d \in universe[s].rows : d <= day[p]
    BY DEF BackfillSymbol, ChunkCurrent
  <2>4. universe[s].rows \subseteq 1..day[p]
    BY <2>2, <2>3
  <2> QED
    BY <2>1, <2>4
<1> QED
  BY <1>1, <1>2

\* A backfill that starts and leaves no lapse has a cache that reaches past
\* every symbol's last day, sampled or not.
LEMMA PreflightReaches ==
    ASSUME lapses' = {}, DInv, NEW p \in Producer, StartBackfill(p),
           ~Finish(p), NEW s \in Symbol, NEW d \in universe[s].rows
    PROVE  d <= day'[p]
<1> USE DEF DInv, SInv, TInv, TypeOK, LibraryTypeOK, ProducerTypeOK
<1>1. PICK k \in 1..MaxDay :
        /\ Note(Crossed \cup
                 When("blind", \E x \in Symbol : LastDay(universe[x]) > k))
        /\ day' = [day EXCEPT ![p] = k]
  BY DEF StartBackfill
<1>2. ~(\E x \in Symbol : LastDay(universe[x]) > k)
  <2>1. When("blind", \E x \in Symbol : LastDay(universe[x]) > k) = {}
    BY <1>1 DEF Note
  <2> QED
    BY <2>1 DEF When
<1>3. d \in Nat /\ d <= LastDay(universe[s]) /\ LastDay(universe[s]) \in Nat
  BY LastDayIsLast, LastDayIsDay DEF LastDays, Frame
<1>4. k \in Nat /\ ~(LastDay(universe[s]) > k)
  BY <1>2, ConstantsAssumption
<1> QED
  BY <1>1, <1>3, <1>4

\* What a step of a producer does to the rows.
LEMMA ProducerStepRows ==
    ASSUME DInv, NEW p \in Producer, ProducerStep(p), NEW s \in Symbol
    PROVE  \/ universe'[s].rows = universe[s].rows
           \/ /\ WriteChunk(p)
              /\ universe'[s].rows = universe[s].rows \cup {day[p]}
           \/ /\ BackfillSymbol(p) /\ universe[s].rows \subseteq 1..day[p]
              /\ universe'[s].rows = 1..day[p]
<1>1. WriteChunk(p) \/ BackfillSymbol(p) \/ UNCHANGED universe
  BY DEF ProducerStep, StartAppend, AssertSchema, ReadChunk, StartBackfill,
     ProducerDies, libVars
<1> QED
  BY <1>1, WriteChunkRows, BackfillRows

-----------------------------------------------------------------------------
(* The invariant *)

LEMMA BoxStepSnapCurrent ==
    ASSUME DInv, NEW r \in Runner, BoxStep(r), NEW q \in Runner
    PROVE  SnapCurrent(q)'
<1> USE DEF DInv, SInv, TInv, TypeOK, LibraryTypeOK, BoxTypeOK
<1>1. \A s \in Symbol : universe'[s].rows = universe[s].rows
  BY BoxStepRows
<1>2. CASE q # r
  BY <1>1, <1>2, BoxStepFrame DEF SnapCurrent
<1>3. CASE q = r
  <2> SUFFICES ASSUME NEW s \in Symbol,
                      \/ pc'[r] = "read" /\ s \notin todo'[r]
                      \/ pc'[r] = "write"
                      \/ pc'[r] = "heal" /\ s \in item'[r]
               PROVE  snap'[r][s].rows = universe[s].rows
    BY <1>1, <1>3 DEF SnapCurrent
  <2>1. CASE ReadSymbol(r)
    <3>1. PICK x \in todo[r] :
            /\ snap' = [snap EXCEPT ![r][x] =
                          [universe[x] EXCEPT !.ver = mig[r]]]
            /\ todo' = [todo EXCEPT ![r] = @ \ {x}]
            /\ pc' = pc /\ pc[r] = "read"
      BY <2>1 DEF ReadSymbol, Fail, Exit
    <3>2. CASE s = x
      BY <3>1, <3>2, FrameRows
    <3>3. CASE s # x
      BY <3>1, <3>3 DEF SnapCurrent
    <3> QED
      BY <3>2, <3>3
  <2>2. CASE VerifyProbe(r)
    BY <2>2 DEF VerifyProbe, Fail, Exit
  <2>3. CASE StartWrite(r) \/ WriteSymbol(r) \/ EndWrite(r)
    BY <2>3 DEF StartWrite, WriteSymbol, EndWrite, Fail, Exit, SnapCurrent
  <2>4. CASE Launch(r) \/ Probe(r) \/ LoadPending(r) \/ StorageRaises(r)
             \/ Stamp(r) \/ VerifyHeal(r) \/ NextMigration(r) \/ Crash(r)
    BY <2>4 DEF Launch, Probe, LoadPending, StorageRaises, Stamp, VerifyHeal,
       NextMigration, Crash, Fail, Exit
  <2> QED
    BY <2>1, <2>2, <2>3, <2>4 DEF BoxStep
<1> QED
  BY <1>2, <1>3

LEMMA BoxStepDInv ==
    ASSUME DInv, SInv', NEW r \in Runner, BoxStep(r)
    PROVE  DInv'
<1>1. UNCHANGED <<prodVars, appended>>
  BY BoxStepFrame DEF DInv, SInv
<1>2. \A s \in Symbol : universe'[s].rows = universe[s].rows
  BY BoxStepRows
<1>3. RealDays' /\ \A p \in Producer : ChunkCurrent(p)'
  BY <1>1, <1>2 DEF DInv, RealDays, ChunkCurrent, prodVars
<1> QED
  BY <1>3, BoxStepSnapCurrent DEF DInv

\* A producer that writes is the only one, and no box is past its probe.
LEMMA ProducerStepSnapCurrent ==
    ASSUME DInv, NEW p \in Producer, ProducerStep(p), NEW r \in Runner
    PROVE  SnapCurrent(r)'
<1>1. UNCHANGED boxVars
  BY ProducerStepFrame DEF DInv, SInv
<1>2. CASE ProdLive(p)
  <2>1. ~PastProbe(r)
    BY <1>2 DEF DInv, SInv, OneWriter
  <2> QED
    BY <1>1, <2>1 DEF PastProbe, BoxLive, SnapCurrent, boxVars
<1>3. CASE ~ProdLive(p)
  <2>1. \A s \in Symbol : universe'[s].rows = universe[s].rows
    BY <1>3, ProducerStepRows DEF ProdLive, WriteChunk, BackfillSymbol
  <2> QED
    BY <1>1, <2>1 DEF DInv, SnapCurrent, boxVars
<1> QED
  BY <1>2, <1>3

LEMMA ProducerStepRealDays ==
    ASSUME DInv, NEW p \in Producer, ProducerStep(p)
    PROVE  RealDays'
<1> USE DEF DInv, SInv, TInv, TypeOK, ProducerTypeOK
<1>1. ppc'[p] \in {"open", "read", "write"} => day'[p] \in 1..MaxDay
  BY DEF RealDays, ProducerStep, StartAppend, AssertSchema, ReadChunk,
     WriteChunk, StartBackfill, BackfillSymbol, ProducerDies, Finish
<1>2. WriteChunk(p) => day[p] # 0
  BY DEF RealDays, WriteChunk
<1>3. \A s \in Symbol : 0 \notin universe'[s].rows
  BY <1>2, ProducerStepRows DEF RealDays
<1> QED
  BY <1>1, <1>3, ProducerStepFrame DEF RealDays

LEMMA ProducerStepChunkCurrent ==
    ASSUME lapses' = {}, DInv, NEW p \in Producer, ProducerStep(p),
           NEW q \in Producer
    PROVE  ChunkCurrent(q)'
<1> USE DEF DInv, SInv, TInv, TypeOK, LibraryTypeOK, ProducerTypeOK
<1>1. CASE q # p
  <2>1. ppc'[q] = ppc[q] /\ day'[q] = day[q] /\ hist'[q] = hist[q]
    BY <1>1, ProducerStepFrame
  <2>2. CASE ProdLive(q)
    <3>1. ~ProdLive(p)
      BY <1>1, <2>2 DEF OneWriter
    <3>2. \A s \in Symbol : universe'[s].rows = universe[s].rows
      BY <3>1, ProducerStepRows DEF ProdLive, WriteChunk, BackfillSymbol
    <3> QED
      BY <2>1, <3>2 DEF ChunkCurrent
  <2>3. CASE ~ProdLive(q)
    BY <2>1, <2>3 DEF ProdLive, ChunkCurrent
  <2> QED
    BY <2>2, <2>3
<1>2. CASE q = p /\ ppc'[p] = "write"
  <2>1. ReadChunk(p) /\ ~Finish(p)
    BY <1>2 DEF ProducerStep, StartAppend, AssertSchema, ReadChunk, WriteChunk,
       StartBackfill, BackfillSymbol, ProducerDies, Finish, ProdLive
  <2>2. PICK C \in SUBSET Symbol :
          hist' = [hist EXCEPT ![p] =
              [s \in Symbol |-> IF s \in C THEN universe[s] ELSE EmptyFrame]]
    BY <2>1 DEF ReadChunk, Slices
  <2>3. universe' = universe
    BY <2>1 DEF ReadChunk, libVars
  <2>4. \A s \in Symbol : hist'[p][s] \in {universe[s], EmptyFrame}
    BY <2>2
  <2> QED
    BY <1>2, <2>3, <2>4, EmptyFrames DEF ChunkCurrent
<1>3. CASE q = p /\ ppc'[p] = "backfill"
  <2>1. CASE StartBackfill(p) /\ ~Finish(p)
    <3>1. universe' = universe
      BY <2>1 DEF StartBackfill, libVars
    <3> QED
      BY <1>3, <2>1, <3>1, PreflightReaches DEF ChunkCurrent
  <2>2. CASE BackfillSymbol(p) /\ ppc[p] = "backfill" /\ day'[p] = day[p]
    <3>1. \A s \in Symbol : \A d \in universe'[s].rows : d <= day[p]
      <4> SUFFICES ASSUME NEW s \in Symbol, NEW d \in universe'[s].rows
                   PROVE  d <= day[p]
        OBVIOUS
      <4>1. CASE universe'[s] = universe[s]
        BY <2>2, <4>1 DEF ChunkCurrent
      <4>2. CASE universe'[s].rows = 1..day[p]
        BY <4>2
      <4> QED
        BY <2>2, <4>1, <4>2, BackfillRows
    <3> QED
      BY <1>3, <2>2, <3>1 DEF ChunkCurrent
  <2> QED
    BY <1>3, <2>1, <2>2 DEF ProducerStep, StartAppend, AssertSchema, ReadChunk,
       WriteChunk, StartBackfill, BackfillSymbol, ProducerDies, Finish
<1>4. CASE q = p /\ ppc'[p] \notin {"write", "backfill"}
  BY <1>4 DEF ChunkCurrent
<1> QED
  BY <1>1, <1>2, <1>3, <1>4

LEMMA NextDInv ==
    ASSUME lapses' = {}, DInv, [Next]_vars
    PROVE  DInv'
<1>1. SInv'
  BY NextSInv DEF DInv, Separate
<1>2. CASE Merge \/ UNCHANGED vars
  BY <1>1, <1>2 DEF Merge, vars, libVars, boxVars, prodVars, DInv, RealDays,
     SnapCurrent, ChunkCurrent
<1>3. ASSUME NEW r \in Runner, BoxStep(r) PROVE DInv'
  BY <1>1, <1>3, BoxStepDInv
<1>4. ASSUME NEW p \in Producer, ProducerStep(p) PROVE DInv'
  BY <1>1, <1>4, ProducerStepRealDays, ProducerStepSnapCurrent,
     ProducerStepChunkCurrent DEF DInv
<1> QED
  BY <1>2, <1>3, <1>4 DEF Next

LEMMA DaysInvariant == Spec => []DaysInv
<1>1. Init => DaysInv
  BY InitDInv DEF DaysInv, DInv, SInv
<1>2. [Next]_vars /\ lapses' = {} => lapses = {}
  BY LapsesGrow
<1>3. DaysInv /\ [Next]_vars => DaysInv'
  BY <1>2, NextTInv, NextDInv DEF DaysInv
<1> QED
  BY <1>1, <1>3, PTL DEF Spec

-----------------------------------------------------------------------------
(* The refinement *)

LEMMA ViewOf ==
    /\ View \in [Symbol -> [ver : {universe[s].ver : s \in Symbol},
                            rows : {universe[s].rows : s \in Symbol}]]
    /\ DOMAIN View = Symbol
    /\ \A s \in Symbol : /\ View[s].ver = universe[s].ver
                         /\ View[s].rows = universe[s].rows
  BY DEF View

LEMMA InitLibrary == Init => Library!Init
<1> SUFFICES ASSUME Init PROVE Library!Init
  OBVIOUS
<1>1. Effective = 0
  BY ConstantsAssumption DEF Init, Effective, NoStamp
<1> QED
  BY <1>1 DEF Init, Library!Init, View

\* Writing one symbol, at the stamp or ahead of it, without losing a row.
LEMMA OneSymbolRewritten ==
    ASSUME DInv, DInv', UNCHANGED appended, Effective' = Effective,
           NEW s \in Symbol, NEW g, universe' = [universe EXCEPT ![s] = g],
           universe[s].rows \subseteq universe'[s].rows
    PROVE  Library!Rewrite(s)
<1>1. Effective <= universe'[s].ver
  BY DEF DInv, SInv, Covered
<1>2. \A t \in Symbol \ {s} : View'[t] = View[t]
  BY DEF View
<1>3. /\ DOMAIN View' = Symbol
      /\ View'[s].ver = universe'[s].ver /\ View'[s].rows = universe'[s].rows
      /\ View[s].rows = universe[s].rows
  BY DEF View
<1> QED
  BY <1>1, <1>2, <1>3 DEF Library!Rewrite

\* A box advances the level when it moves the stamp, and rewrites otherwise.
LEMMA BoxStepRefines ==
    ASSUME DInv, DInv', NEW r \in Runner, BoxStep(r)
    PROVE  Library!Next \/ UNCHANGED <<Effective, View, appended>>
<1>1. appended' = appended
  BY BoxStepFrame DEF DInv, SInv
<1>2. CASE /\ Stamp(r) /\ UNCHANGED universe
           /\ mig[r] = Effective + 1 /\ Effective' = mig[r]
  <2>1. \A s \in Symbol : View[s].ver = Effective + 1
    BY <1>2 DEF Stamp, DInv, SInv, BoxProgress, ProgressOf, View
  <2>2. View' = View
    BY <1>2 DEF View
  <2>3. Library!Advance
    BY <1>1, <1>2, <2>1, <2>2 DEF Library!Advance
  <2> QED
    BY <2>3 DEF Library!Next
<1>3. CASE Effective' = Effective /\ UNCHANGED universe
  BY <1>1, <1>3 DEF View
<1>4. CASE Effective' = Effective /\ ~UNCHANGED universe
  <2>1. PICK s \in Symbol, g \in Frame :
          universe' = [universe EXCEPT ![s] = g]
    BY <1>4, BoxStepUniverse DEF DInv, SInv
  <2>2. Library!Rewrite(s)
    BY <1>1, <1>4, <2>1, BoxStepRows, OneSymbolRewritten
  <2> QED
    BY <2>2 DEF Library!Next
<1> QED
  BY <1>2, <1>3, <1>4, BoxStepStamp, StampPart DEF DInv

\* The symbols of a chunk keep their columns, which are the level's.
LEMMA WriteChunkRefines ==
    ASSUME DInv, NEW p \in Producer, WriteChunk(p), ProducerStep(p)
    PROVE  Library!Next
<1>1. PICK W \in SUBSET Symbol :
        /\ appended' = appended \cup (W \X {day[p]})
        /\ \A s \in Symbol : universe'[s].rows =
             IF s \in W THEN universe[s].rows \cup {day[p]}
                        ELSE universe[s].rows
  BY WriteChunkRows
<1>2. ppc[p] = "write" /\ day[p] \in 1..MaxDay
  BY DEF WriteChunk, DInv, RealDays
<1>3. \A s \in Symbol : /\ universe[s].ver = Effective
                        /\ universe'[s].ver = universe[s].ver
  BY <1>2, AssertedFits, ProducerStepUniverse DEF DInv, SInv
<1>4. Effective' = Effective
  BY ProducerStepFrame DEF DInv, SInv, Effective
<1>5. View' = [s \in Symbol |->
                 IF s \in W THEN [View[s] EXCEPT !.rows = @ \cup {day[p]}]
                            ELSE View[s]]
  BY <1>1, <1>3 DEF View
<1>6. \A s \in Symbol : View[s].ver = Effective
  BY <1>3 DEF View
<1>7. Library!Append(W, day[p])
  BY <1>1, <1>4, <1>5, <1>6 DEF Library!Append
<1> QED
  BY <1>2, <1>7 DEF Library!Next

LEMMA ProducerStepRefines ==
    ASSUME DInv, DInv', NEW p \in Producer, ProducerStep(p)
    PROVE  Library!Next \/ UNCHANGED <<Effective, View, appended>>
<1>1. CASE WriteChunk(p)
  BY <1>1, WriteChunkRefines
<1>2. CASE ~WriteChunk(p)
  <2>1. appended' = appended /\ (BackfillSymbol(p) \/ UNCHANGED universe)
    BY <1>2 DEF ProducerStep, StartAppend, AssertSchema, ReadChunk,
       StartBackfill, BackfillSymbol, ProducerDies, libVars
  <2>2. Effective' = Effective
    BY ProducerStepFrame DEF DInv, SInv, Effective
  <2>3. CASE UNCHANGED universe
    BY <2>1, <2>2, <2>3 DEF View
  <2>4. CASE BackfillSymbol(p) /\ ~UNCHANGED universe
    <3>1. PICK s \in Symbol, g \in Frame :
            universe' = [universe EXCEPT ![s] = g]
      BY <2>4, BackfillUniverse DEF DInv, SInv
    <3>2. Library!Rewrite(s)
      BY <2>1, <2>2, <2>4, <3>1, BackfillRows, OneSymbolRewritten
    <3> QED
      BY <3>2 DEF Library!Next
  <2> QED
    BY <2>1, <2>3, <2>4
<1> QED
  BY <1>1, <1>2

LEMMA NextRefines ==
    ASSUME DInv, DInv', [Next]_vars
    PROVE  Library!Next \/ UNCHANGED <<Effective, View, appended>>
<1>1. CASE Merge \/ UNCHANGED vars
  BY <1>1 DEF Merge, vars, libVars, Effective, View
<1> QED
  BY <1>1, BoxStepRefines, ProducerStepRefines DEF Next

LEMMA NextImplements ==
    ASSUME DaysInv, DaysInv', [Next]_vars
    PROVE  [Library!Next \/ lapses' # {}]_<<Effective, View, appended>>
<1>1. CASE lapses' # {}
  BY <1>1
<1>2. CASE lapses' = {}
  <2>1. lapses = {}
    BY <1>2, LapsesGrow
  <2> QED
    BY <1>2, <2>1, NextRefines DEF DaysInv
<1> QED
  BY <1>1, <1>2

\* Migration boxes, appends and backfills, with everything they read and write
\* back later, are a library that only grows, up to the step that brings two
\* writers together or lets a backfill pass with a symbol it did not look at:
\* the level rises by one once the last symbol is there, every write keeps the
\* rows there are, and rows are appended only while every symbol is at the
\* level.
THEOREM LibraryImplemented == Spec => ImplementsLibrary
  BY InitLibrary, DaysInvariant, NextImplements, PTL
     DEF Spec, ImplementsLibrary

-----------------------------------------------------------------------------
(* What follows from it *)

\* A library that only grows keeps every row it reported.
LibraryHolds == \A a \in appended : a[2] \in View[a[1]].rows

LEMMA GrowthKeepsRows ==
    ASSUME appended \subseteq Symbol \X Nat, LibraryHolds,
           Library!Next \/ UNCHANGED <<Effective, View, appended>>
    PROVE  LibraryHolds'
<1>1. CASE UNCHANGED <<Effective, View, appended>> \/ Library!Advance
  BY <1>1 DEF LibraryHolds, Library!Advance
<1>2. ASSUME NEW s \in Symbol, Library!Rewrite(s) PROVE LibraryHolds'
  <2>1. \A t \in Symbol : View[t].rows \subseteq View'[t].rows
    BY <1>2 DEF Library!Rewrite
  <2> QED
    BY <1>2, <2>1 DEF LibraryHolds, Library!Rewrite
<1>3. ASSUME NEW S \in SUBSET Symbol, NEW d \in 1..MaxDay,
             Library!Append(S, d)
      PROVE  LibraryHolds'
  <2>1. \A t \in Symbol : View[t].rows \subseteq View'[t].rows
    BY <1>3, ViewOf DEF Library!Append
  <2>2. \A t \in S : d \in View'[t].rows
    BY <1>3, ViewOf DEF Library!Append
  <2> QED
    BY <1>3, <2>1, <2>2 DEF LibraryHolds, Library!Append
<1> QED
  BY <1>1, <1>2, <1>3 DEF Library!Next

\* A row daily_append reported written is in the library from then on, up to
\* the first lapse: no rewrite from an older read, no heal, no splice and no
\* backfill removes it.
THEOREM AppendsStay == Spec => []NoAppendLost
<1> DEFINE Held == lapses = {} => LibraryHolds
<1>1. Init => Held
  BY DEF Init, LibraryHolds
<1>2. DaysInv => appended \subseteq Symbol \X Nat
  BY DEF DaysInv, TInv, TypeOK, LibraryTypeOK
<1>3. ASSUME DaysInv, DaysInv', Held, [Next]_vars, lapses' = {}
      PROVE  LibraryHolds'
  <2>1. lapses = {}
    BY <1>3, LapsesGrow
  <2>2. DInv /\ DInv' /\ LibraryHolds
    BY <1>3, <2>1 DEF DaysInv
  <2> QED
    BY <1>2, <1>3, <2>2, NextRefines, GrowthKeepsRows
<1>4. DaysInv /\ DaysInv' /\ Held /\ [Next]_vars => Held'
  BY <1>3
<1>5. DaysInv /\ Held => NoAppendLost
  BY <1>2, ViewOf DEF LibraryHolds, NoAppendLost, RowsStay
<1> HIDE DEF Held
<1> QED
  BY <1>1, <1>4, <1>5, DaysInvariant, PTL DEF Spec
=============================================================================
