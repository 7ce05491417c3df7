------------------------ MODULE UniverseMigrationProofs ------------------------
(***************************************************************************)
(* What holds of UniverseMigration for every number of symbols, migration  *)
(* boxes, producers, versions and days, whichever writers meet: type       *)
(* correctness, that a leftover probe row is never taken for a real one,   *)
(* and, until a box first starts beside another one, that the stamp climbs *)
(* step by step and covers every finished head.  What also ends when other *)
(* writers meet is in UniverseSchemaProofs and UniverseDaysProofs.         *)
(***************************************************************************)
EXTENDS UniverseMigration, TLAPS

-----------------------------------------------------------------------------
(* Frames and their last day *)

HasLast(f) == \E d \in Days(f) : \A e \in Days(f) : e <= d

LEMMA LastDayIsDay ==
    ASSUME NEW f \in Frame, HasLast(f)
    PROVE  LastDay(f) \in Nat /\ LastDay(f) \in Days(f)
  BY DEF Frame, HasLast, LastDay, Days

LEMMA LastDayIsLast ==
    ASSUME NEW f \in Frame, HasLast(f), NEW d \in f.rows
    PROVE  d <= LastDay(f)
  BY DEF Frame, HasLast, LastDay, Days

LEMMA AddedDayHasLast ==
    ASSUME NEW D \in SUBSET Nat, NEW d \in Nat,
           D = {} \/ \E m \in D : \A e \in D : e <= m
    PROVE  \E m \in D \cup {d} : \A e \in D \cup {d} : e <= m
<1>1. CASE D = {}
  BY <1>1
<1>2. CASE \E m \in D : \A e \in D : e <= m
  <2>1. PICK m \in D : \A e \in D : e <= m
    BY <1>2
  <2>2. CASE d <= m
    BY <2>1, <2>2
  <2>3. CASE ~(d <= m)
    BY <2>1, <2>3
  <2> QED
    BY <2>2, <2>3
<1> QED
  BY <1>1, <1>2

LEMMA WithRowFrame ==
    ASSUME NEW f \in Frame, NEW d \in Nat, Days(f) = {} \/ HasLast(f)
    PROVE  WithRow(f, d) \in Frame /\ HasLast(WithRow(f, d))
           /\ WithRow(f, d).ver = f.ver
<1>1. Days(f) \in SUBSET Nat /\ Days(WithRow(f, d)) = Days(f) \cup {d}
  BY DEF Days, Frame, WithRow
<1>2. HasLast(WithRow(f, d))
  BY <1>1, AddedDayHasLast DEF HasLast
<1> QED
  BY <1>2 DEF Frame, WithRow

LEMMA ProbedFrame ==
    ASSUME NEW f \in Frame, NEW d \in Nat, HasLast(f)
    PROVE  /\ [f EXCEPT !.probe = @ \cup {d}] \in Frame
           /\ HasLast([f EXCEPT !.probe = @ \cup {d}])
           /\ [f EXCEPT !.probe = @ \cup {d}].ver = f.ver
<1> DEFINE g == [f EXCEPT !.probe = @ \cup {d}]
<1>1. Days(f) \in SUBSET Nat /\ Days(g) = Days(f) \cup {d}
  BY DEF Days, Frame
<1>2. HasLast(g)
  BY <1>1, AddedDayHasLast DEF HasLast
<1> QED
  BY <1>2 DEF Frame

LEMMA VersionedFrame ==
    ASSUME NEW f \in Frame, NEW v \in Version
    PROVE  /\ [f EXCEPT !.ver = v] \in Frame
           /\ Days([f EXCEPT !.ver = v]) = Days(f)
           /\ [f EXCEPT !.ver = v].ver = v
  BY DEF Frame, Days

LEMMA BackfilledFrame ==
    ASSUME NEW v \in Version, NEW k \in Nat \ {0}
    PROVE  LET g == [ver |-> v, rows |-> 1..k, probe |-> {}]
           IN  g \in Frame /\ HasLast(g)
<1> DEFINE g == [ver |-> v, rows |-> 1..k, probe |-> {}]
<1>1. Days(g) = 1..k
  BY DEF Days
<1>2. k \in 1..k /\ \A e \in 1..k : e <= k
  OBVIOUS
<1>3. HasLast(g)
  BY <1>1, <1>2 DEF HasLast
<1>4. g \in Frame
  BY DEF Frame
<1> QED
  BY <1>3, <1>4

LEMMA EmptyFrames ==
    /\ EmptyFrame \in Frame /\ Days(EmptyFrame) = {}
    /\ NoFrames \in [Symbol -> Frame]
    /\ \A s \in Symbol : NoFrames[s] = EmptyFrame
  BY ConstantsAssumption DEF EmptyFrame, NoFrames, Frame, Version, Days

-----------------------------------------------------------------------------
(* Type correctness *)

\* Every stored frame has a last day, and so has every frame about to be
\* written; a frame read by a producer has one unless it is empty.
LastDays ==
    /\ \A s \in Symbol : HasLast(universe[s])
    /\ \A r \in Runner, s \in Symbol :
         \/ pc[r] = "read" /\ s \notin todo[r]
         \/ pc[r] = "write"
         \/ pc[r] = "heal" /\ s \in item[r]
         => HasLast(snap[r][s])
    /\ \A p \in Producer, s \in Symbol :
         Days(hist[p][s]) = {} \/ HasLast(hist[p][s])

\* A backfill has a price cache with at least one day.
CacheHasDay == \A p \in Producer : ppc[p] = "backfill" => day[p] # 0

TInv == TypeOK /\ LastDays /\ CacheHasDay

\* What the calendar, the mutex or the preflight let through is not undone.
LEMMA LapsesGrow ==
    [Next]_vars => /\ lapses \subseteq lapses'
                   /\ lapses \subseteq Lapse => lapses' \subseteq Lapse
<1> USE DEF Note, When, Crossed, Lapse
<1>1. CASE Merge \/ UNCHANGED vars
  BY <1>1 DEF Merge, vars
<1>2. ASSUME NEW r \in Runner, BoxStep(r)
      PROVE  /\ lapses \subseteq lapses'
             /\ lapses \subseteq Lapse => lapses' \subseteq Lapse
  BY <1>2 DEF BoxStep, Launch, Probe, LoadPending, ReadSymbol, StorageRaises,
     StartWrite, WriteSymbol, EndWrite, Stamp, VerifyProbe, VerifyHeal,
     NextMigration, Crash
<1>3. ASSUME NEW p \in Producer, ProducerStep(p)
      PROVE  /\ lapses \subseteq lapses'
             /\ lapses \subseteq Lapse => lapses' \subseteq Lapse
  BY <1>3 DEF ProducerStep, StartAppend, AssertSchema, ReadChunk, WriteChunk,
     StartBackfill, BackfillSymbol, ProducerDies
<1> QED
  BY <1>1, <1>2, <1>3 DEF Next

LEMMA InitTInv == Init => TInv
<1> SUFFICES ASSUME Init PROVE TInv
  OBVIOUS
<1>1. LibraryTypeOK
  BY ConstantsAssumption
     DEF Init, LibraryTypeOK, Frame, Version, Marker, NoStamp
<1>2. BoxTypeOK /\ ProducerTypeOK
  BY ConstantsAssumption, EmptyFrames
     DEF Init, BoxTypeOK, ProducerTypeOK, Version, BoxPc, ProdPc
<1>3. ASSUME NEW s \in Symbol PROVE HasLast(universe[s])
  <2>1. Days(universe[s]) = {1}
    BY DEF Init, Days
  <2> QED
    BY <2>1 DEF HasLast
<1>4. LastDays
  BY <1>3, EmptyFrames DEF Init, LastDays
<1>5. CacheHasDay
  BY DEF Init, CacheHasDay
<1> QED
  BY <1>1, <1>2, <1>4, <1>5 DEF TInv, TypeOK

LEMMA EffectiveType == LibraryTypeOK => Effective \in Version
  BY ConstantsAssumption DEF LibraryTypeOK, Effective, Version

LEMMA MarkerType ==
    ASSUME LibraryTypeOK, NEW r \in Runner, NEW m \in Marker,
           PutMarker(r, m) \/ UNCHANGED marker
    PROVE  marker' \in [Version -> Marker]
  BY DEF LibraryTypeOK, PutMarker

\* A step of a box leaves producers, main and the other boxes alone.
LEMMA BoxStepFrame ==
    ASSUME TInv, NEW r \in Runner, BoxStep(r)
    PROVE  /\ UNCHANGED <<main, prodVars, appended>>
           /\ \A q \in Runner \ {r} :
                /\ pc'[q] = pc[q] /\ head'[q] = head[q] /\ mig'[q] = mig[q]
                /\ todo'[q] = todo[q] /\ snap'[q] = snap[q]
                /\ item'[q] = item[q] /\ failed'[q] = failed[q]
  BY DEF TInv, TypeOK, BoxTypeOK, BoxStep, Launch, Probe, LoadPending,
     ReadSymbol, StorageRaises, StartWrite, WriteSymbol, EndWrite, Stamp,
     VerifyProbe, VerifyHeal, NextMigration, Crash, Fail, Exit

\* A step of a producer leaves boxes, stamp, markers, main and the other
\* producers alone.
LEMMA ProducerStepFrame ==
    ASSUME TInv, NEW p \in Producer, ProducerStep(p)
    PROVE  /\ UNCHANGED <<main, stamp, marker, boxVars>>
           /\ \A q \in Producer \ {p} :
                /\ ppc'[q] = ppc[q] /\ code'[q] = code[q] /\ day'[q] = day[q]
                /\ hist'[q] = hist[q]
  BY DEF TInv, TypeOK, ProducerTypeOK, ProducerStep, StartAppend,
     AssertSchema, ReadChunk, WriteChunk, StartBackfill, BackfillSymbol,
     ProducerDies, Finish, libVars

\* What a step of a box does to the library and to the markers.
LEMMA BoxStepLibrary ==
    ASSUME TInv, NEW r \in Runner, BoxStep(r)
    PROVE  LibraryTypeOK'
<1> USE ConstantsAssumption, MarkerType DEF TInv, TypeOK, libVars
<1>0. lapses' \subseteq Lapse
  BY LapsesGrow DEF Next, LibraryTypeOK
<1>1. CASE Launch(r) \/ StartWrite(r) \/ Crash(r)
  BY <1>0, <1>1 DEF Launch, StartWrite, Crash, LibraryTypeOK
<1>2. CASE Probe(r) \/ LoadPending(r) \/ NextMigration(r)
  BY <1>0, <1>2 DEF Probe, LoadPending, NextMigration, LibraryTypeOK, Marker
<1>3. CASE ReadSymbol(r) \/ StorageRaises(r) \/ EndWrite(r)
  BY <1>0, <1>3 DEF ReadSymbol, StorageRaises, EndWrite, Fail, LibraryTypeOK, Marker
<1>4. CASE WriteSymbol(r)
  BY <1>0, <1>4 DEF WriteSymbol, LibraryTypeOK, BoxTypeOK
<1>5. CASE Stamp(r)
  BY <1>0, <1>5 DEF Stamp, Fail, LibraryTypeOK, BoxTypeOK, Marker
<1>6. CASE VerifyProbe(r)
  <2>1. marker' \in [Version -> Marker]
    BY <1>6 DEF VerifyProbe, Fail, Marker
  <2>2. ASSUME NEW s \in Symbol
        PROVE  [universe EXCEPT ![s].probe = @ \cup {LastDay(universe[s]) + 1}]
                  \in [Symbol -> Frame]
    <3>1. universe[s] \in Frame /\ HasLast(universe[s])
      BY DEF LibraryTypeOK, LastDays
    <3>2. LastDay(universe[s]) + 1 \in Nat
      BY <3>1, LastDayIsDay
    <3>3. [universe[s] EXCEPT !.probe = @ \cup {LastDay(universe[s]) + 1}]
             \in Frame
      BY <3>1, <3>2, ProbedFrame
    <3> QED
      BY <3>3 DEF LibraryTypeOK
  <2>3. \/ UNCHANGED universe
        \/ \E s \in Symbol : universe' =
             [universe EXCEPT ![s].probe = @ \cup {LastDay(universe[s]) + 1}]
    BY <1>6 DEF VerifyProbe, BoxTypeOK
  <2>4. universe' \in [Symbol -> Frame]
    BY <2>2, <2>3 DEF LibraryTypeOK
  <2> QED
    BY <1>0, <1>6, <2>1, <2>4 DEF VerifyProbe, LibraryTypeOK
<1>7. CASE VerifyHeal(r)
  <2>1. marker' \in [Version -> Marker]
    BY <1>7 DEF VerifyHeal, Fail, Marker
  <2>2. ASSUME NEW s \in Symbol
        PROVE  [snap[r][s] EXCEPT !.ver = Canonical(snap[r][s].ver, head[r])]
                  \in Frame
    <3>1. snap[r][s] \in Frame
      BY DEF BoxTypeOK
    <3>2. Canonical(snap[r][s].ver, head[r]) \in Version
      BY <3>1 DEF Canonical, Frame, BoxTypeOK
    <3> QED
      BY <3>1, <3>2, VersionedFrame
  <2>3. \/ UNCHANGED universe
        \/ \E s \in Symbol : universe' = [universe EXCEPT ![s] =
              [snap[r][s] EXCEPT !.ver = Canonical(snap[r][s].ver, head[r])]]
    BY <1>7 DEF VerifyHeal, BoxTypeOK
  <2>4. universe' \in [Symbol -> Frame]
    BY <2>2, <2>3 DEF LibraryTypeOK
  <2> QED
    BY <1>0, <1>7, <2>1, <2>4 DEF VerifyHeal, LibraryTypeOK
<1> QED
  BY <1>1, <1>2, <1>3, <1>4, <1>5, <1>6, <1>7 DEF BoxStep

LEMMA ExitType ==
    ASSUME BoxTypeOK, NEW r \in Runner, Exit(r)
    PROVE  BoxTypeOK'
  BY ConstantsAssumption, EmptyFrames DEF Exit, BoxTypeOK, BoxPc, Version

\* What a step of a box does to its own variables.
LEMMA BoxStepBox ==
    ASSUME TInv, NEW r \in Runner, BoxStep(r)
    PROVE  BoxTypeOK'
<1> USE ConstantsAssumption, ExitType DEF TInv, TypeOK
<1>1. CASE Launch(r)
  BY <1>1 DEF Launch, LibraryTypeOK, BoxTypeOK, BoxPc, Version
<1>2. CASE Probe(r)
  BY <1>2 DEF Probe, BoxTypeOK, BoxPc
<1>3. CASE LoadPending(r)
  <2>1. CASE Exit(r)
    BY <2>1
  <2>2. CASE ~Exit(r)
    <3>1. Effective + 1 \in Version
      BY <1>3, <2>2, EffectiveType DEF LoadPending, BoxTypeOK, Version
    <3>2. /\ mig' = [mig EXCEPT ![r] = Effective + 1]
          /\ pc' = [pc EXCEPT ![r] = "read"]
          /\ todo' = [todo EXCEPT ![r] = Symbol]
          /\ UNCHANGED <<head, snap, item, failed>>
      BY <1>3, <2>2 DEF LoadPending
    <3> QED
      BY <3>1, <3>2 DEF BoxTypeOK, BoxPc
  <2> QED
    BY <2>1, <2>2
<1>4. CASE ReadSymbol(r)
  <2>1. CASE Exit(r)
    BY <2>1
  <2>2. CASE ~Exit(r)
    <3>1. ASSUME NEW s \in Symbol
          PROVE  [universe[s] EXCEPT !.ver = mig[r]] \in Frame
      BY VersionedFrame DEF LibraryTypeOK, BoxTypeOK
    <3>2. PICK s \in todo[r] :
            /\ snap' = [snap EXCEPT ![r][s] =
                          [universe[s] EXCEPT !.ver = mig[r]]]
            /\ todo' = [todo EXCEPT ![r] = @ \ {s}]
            /\ UNCHANGED <<pc, head, mig, item, failed>>
      BY <1>4, <2>2 DEF ReadSymbol, Fail
    <3>3. snap' \in [Runner -> [Symbol -> Frame]]
      BY <3>1, <3>2 DEF BoxTypeOK
    <3> QED
      BY <3>2, <3>3 DEF BoxTypeOK
  <2> QED
    BY <2>1, <2>2
<1>5. CASE StorageRaises(r) \/ Crash(r)
  BY <1>5 DEF StorageRaises, Crash, Fail
<1>6. CASE StartWrite(r)
  BY <1>6 DEF StartWrite, BoxTypeOK, BoxPc
<1>7. CASE WriteSymbol(r)
  <2>1. PICK s \in todo[r] :
          /\ todo' = [todo EXCEPT ![r] = @ \ {s}]
          /\ failed' \in {failed, [failed EXCEPT ![r] = TRUE]}
          /\ UNCHANGED <<pc, head, mig, snap, item>>
    BY <1>7 DEF WriteSymbol
  <2> QED
    BY <2>1 DEF BoxTypeOK
<1>8. CASE EndWrite(r)
  BY <1>8 DEF EndWrite, Fail, BoxTypeOK, BoxPc
<1>9. CASE Stamp(r)
  <2>1. CASE Exit(r)
    BY <2>1
  <2>2. CASE ~Exit(r)
    <3>1. PICK S \in SUBSET Symbol :
            /\ todo' = [todo EXCEPT ![r] = S]
            /\ pc' = [pc EXCEPT ![r] = "verify"]
            /\ snap' = [snap EXCEPT ![r] = NoFrames]
            /\ UNCHANGED <<head, mig, item, failed>>
      BY <1>9, <2>2 DEF Stamp, Fail, Slices
    <3> QED
      BY <3>1, EmptyFrames DEF BoxTypeOK, BoxPc
  <2> QED
    BY <2>1, <2>2
<1>10. CASE VerifyProbe(r)
  <2>1. CASE Exit(r)
    BY <2>1
  <2>2. CASE ~Exit(r)
    <3>1. PICK s \in todo[r] :
            /\ snap' = [snap EXCEPT ![r][s] = universe[s]]
            /\ todo' = [todo EXCEPT ![r] = @ \ {s}]
            /\ item' = [item EXCEPT ![r] = {s}]
            /\ pc' = [pc EXCEPT ![r] = "heal"]
            /\ UNCHANGED <<head, mig, failed>>
      BY <1>10, <2>2 DEF VerifyProbe, Fail
    <3>2. snap' \in [Runner -> [Symbol -> Frame]]
      BY <3>1 DEF LibraryTypeOK, BoxTypeOK
    <3> QED
      BY <3>1, <3>2 DEF BoxTypeOK, BoxPc
  <2> QED
    BY <2>1, <2>2
<1>11. CASE VerifyHeal(r)
  <2>1. CASE Exit(r)
    BY <2>1
  <2>2. CASE ~Exit(r)
    <3>1. /\ pc' = [pc EXCEPT ![r] = "verify"]
          /\ item' = [item EXCEPT ![r] = {}]
          /\ snap' = [snap EXCEPT ![r] = NoFrames]
          /\ UNCHANGED <<head, mig, todo, failed>>
      BY <1>11, <2>2 DEF VerifyHeal, Fail
    <3> QED
      BY <3>1, EmptyFrames DEF BoxTypeOK, BoxPc
  <2> QED
    BY <2>1, <2>2
<1>12. CASE NextMigration(r)
  <2>1. CASE Exit(r)
    BY <2>1
  <2>2. CASE ~Exit(r)
    <3>1. /\ mig' = [mig EXCEPT ![r] = @ + 1]
          /\ pc' = [pc EXCEPT ![r] = "read"]
          /\ todo' = [todo EXCEPT ![r] = Symbol]
          /\ UNCHANGED <<head, snap, item, failed>>
          /\ mig[r] < head[r]
      BY <1>12, <2>2 DEF NextMigration
    <3>2. mig[r] + 1 \in Version
      BY <3>1 DEF BoxTypeOK, Version
    <3> QED
      BY <3>1, <3>2 DEF BoxTypeOK, BoxPc
  <2> QED
    BY <2>1, <2>2
<1> QED
  BY <1>1, <1>2, <1>3, <1>4, <1>5, <1>6, <1>7, <1>8, <1>9, <1>10, <1>11,
     <1>12 DEF BoxStep

LEMMA FinishType ==
    ASSUME ProducerTypeOK, NEW p \in Producer, Finish(p)
    PROVE  ProducerTypeOK'
  BY ConstantsAssumption, EmptyFrames DEF Finish, ProducerTypeOK, ProdPc, Version

\* What WriteChunk leaves of symbol s.
Appended(p, s) ==
    IF AtHead(p, s) THEN WithRow(universe[s], day[p])
    ELSE [WithRow(hist[p][s], day[p]) EXCEPT !.ver = code[p]]

LEMMA AppendedFrame ==
    ASSUME TInv, NEW p \in Producer, NEW s \in Symbol
    PROVE  /\ Appended(p, s) \in Frame /\ HasLast(Appended(p, s))
           /\ AtHead(p, s) => Appended(p, s).ver = universe[s].ver
           /\ ~AtHead(p, s) => Appended(p, s).ver = code[p]
<1>1. /\ universe[s] \in Frame /\ HasLast(universe[s])
      /\ hist[p][s] \in Frame
      /\ Days(hist[p][s]) = {} \/ HasLast(hist[p][s])
      /\ day[p] \in Nat /\ code[p] \in Version
  BY DEF TInv, TypeOK, LibraryTypeOK, ProducerTypeOK, LastDays
<1>2. CASE AtHead(p, s)
  BY <1>1, <1>2, WithRowFrame DEF Appended
<1>3. CASE ~AtHead(p, s)
  <2> DEFINE f == WithRow(hist[p][s], day[p])
  <2>1. f \in Frame /\ HasLast(f)
    BY <1>1, WithRowFrame
  <2>2. Appended(p, s) = [f EXCEPT !.ver = code[p]]
    BY <1>3 DEF Appended
  <2> HIDE DEF f
  <2>3. [f EXCEPT !.ver = code[p]] \in Frame
        /\ Days([f EXCEPT !.ver = code[p]]) = Days(f)
        /\ [f EXCEPT !.ver = code[p]].ver = code[p]
    BY <1>1, <2>1, VersionedFrame
  <2> QED
    BY <1>3, <2>1, <2>2, <2>3 DEF HasLast
<1> QED
  BY <1>2, <1>3

LEMMA WriteChunkUniverse ==
    ASSUME NEW p \in Producer, WriteChunk(p)
    PROVE  \E W \in SUBSET Queued(p) :
             /\ \A s \in W : AtHead(p, s) => universe[s].ver = code[p]
             /\ universe' = [s \in Symbol |->
                               IF s \notin W THEN universe[s] ELSE Appended(p, s)]
             /\ appended' = appended \cup (W \X {day[p]})
  BY DEF WriteChunk, Appended

LEMMA BackfillUniverse ==
    ASSUME TInv, NEW p \in Producer, BackfillSymbol(p)
    PROVE  \/ UNCHANGED universe
           \/ \E s \in Symbol, g \in Frame :
                /\ universe' = [universe EXCEPT ![s] = g]
                /\ g.ver = code[p] /\ HasLast(g)
<1> SUFFICES ASSUME ~UNCHANGED universe
             PROVE  \E s \in Symbol, g \in Frame :
                      /\ universe' = [universe EXCEPT ![s] = g]
                      /\ g.ver = code[p] /\ HasLast(g)
  OBVIOUS
<1> DEFINE g == [ver |-> code[p], rows |-> 1..day[p], probe |-> {}]
<1>1. PICK s \in left[p] : universe' = [universe EXCEPT ![s] = g]
  BY DEF BackfillSymbol
<1>2. code[p] \in Version /\ day[p] \in Nat \ {0} /\ s \in Symbol
  BY DEF BackfillSymbol, TInv, TypeOK, ProducerTypeOK, CacheHasDay
<1>3. g \in Frame /\ HasLast(g)
  BY <1>2, BackfilledFrame
<1> QED
  BY <1>1, <1>2, <1>3

LEMMA ProducerStepLibrary ==
    ASSUME TInv, NEW p \in Producer, ProducerStep(p)
    PROVE  LibraryTypeOK'
<1> USE DEF TInv, TypeOK, libVars
<1>0. lapses' \subseteq Lapse
  BY LapsesGrow DEF Next, LibraryTypeOK
<1>1. CASE StartAppend(p) \/ AssertSchema(p) \/ ReadChunk(p)
              \/ StartBackfill(p) \/ ProducerDies(p)
  BY <1>0, <1>1 DEF StartAppend, AssertSchema, ReadChunk, StartBackfill,
     ProducerDies, LibraryTypeOK
<1>2. CASE WriteChunk(p)
  <2>1. PICK W \in SUBSET Queued(p) :
             /\ universe' = [s \in Symbol |->
                               IF s \notin W THEN universe[s] ELSE Appended(p, s)]
             /\ appended' = appended \cup (W \X {day[p]})
    BY <1>2, WriteChunkUniverse
  <2>2. universe' \in [Symbol -> Frame]
    BY <2>1, AppendedFrame DEF LibraryTypeOK
  <2>3. appended' \subseteq Symbol \X Nat
    BY <2>1 DEF Queued, LibraryTypeOK, ProducerTypeOK
  <2> QED
    BY <1>0, <1>2, <2>2, <2>3 DEF WriteChunk, LibraryTypeOK
<1>3. CASE BackfillSymbol(p)
  BY <1>0, <1>3, BackfillUniverse DEF BackfillSymbol, LibraryTypeOK
<1> QED
  BY <1>1, <1>2, <1>3 DEF ProducerStep

LEMMA ProducerStepProducer ==
    ASSUME TInv, NEW p \in Producer, ProducerStep(p)
    PROVE  ProducerTypeOK'
<1> USE ConstantsAssumption, FinishType DEF TInv, TypeOK
<1>1. CASE Finish(p)
  BY <1>1
<1>2. CASE StartAppend(p)
  BY <1>2 DEF StartAppend, LibraryTypeOK, ProducerTypeOK, ProdPc
<1>3. CASE AssertSchema(p)
  BY <1>3 DEF AssertSchema, ProducerTypeOK, ProdPc
<1>4. CASE ReadChunk(p) /\ ~Finish(p)
  <2>1. PICK C \in SUBSET Symbol :
          /\ hist' = [hist EXCEPT ![p] =
                        [s \in Symbol |-> IF s \in C THEN universe[s]
                                                     ELSE EmptyFrame]]
          /\ left' = [left EXCEPT ![p] = @ \ C]
          /\ ppc' = [ppc EXCEPT ![p] = "write"]
          /\ UNCHANGED <<code, day, skip>>
    BY <1>4 DEF ReadChunk, Slices, ProducerTypeOK
  <2>2. hist' \in [Producer -> [Symbol -> Frame]]
    BY <2>1, EmptyFrames DEF LibraryTypeOK, ProducerTypeOK
  <2> QED
    BY <2>1, <2>2 DEF ProducerTypeOK, ProdPc
<1>5. CASE WriteChunk(p) /\ ~Finish(p)
  <2>1. /\ ppc' = [ppc EXCEPT ![p] = "read"]
        /\ hist' = [hist EXCEPT ![p] = NoFrames]
        /\ UNCHANGED <<code, day, skip, left>>
    BY <1>5 DEF WriteChunk
  <2> QED
    BY <2>1, EmptyFrames DEF ProducerTypeOK, ProdPc
<1>6. CASE StartBackfill(p) /\ ~Finish(p)
  <2>1. PICK k \in 1..MaxDay :
          /\ ppc' = [ppc EXCEPT ![p] = "backfill"]
          /\ code' = [code EXCEPT ![p] = main]
          /\ day' = [day EXCEPT ![p] = k]
          /\ left' = [left EXCEPT ![p] = Symbol]
          /\ UNCHANGED <<skip, hist>>
    BY <1>6 DEF StartBackfill
  <2> QED
    BY <2>1 DEF LibraryTypeOK, ProducerTypeOK, ProdPc
<1>7. CASE BackfillSymbol(p) /\ ~Finish(p)
  <2>1. PICK s \in left[p] :
          /\ left' = [left EXCEPT ![p] = @ \ {s}]
          /\ UNCHANGED <<ppc, code, day, skip, hist>>
    BY <1>7 DEF BackfillSymbol
  <2> QED
    BY <2>1 DEF ProducerTypeOK
<1> QED
  BY <1>1, <1>2, <1>3, <1>4, <1>5, <1>6, <1>7 DEF ProducerStep, ProducerDies

\* The three ways a box writes a symbol: the batch of the rewrite, the probe
\* row of verify and its heal.
LEMMA BoxStepUniverse ==
    ASSUME TInv, NEW r \in Runner, BoxStep(r)
    PROVE  \/ UNCHANGED universe
           \/ \E s \in Symbol, g \in Frame :
                /\ universe' = [universe EXCEPT ![s] = g] /\ HasLast(g)
                /\ \/ WriteSymbol(r) /\ s \in todo[r] /\ g = snap[r][s]
                   \/ VerifyProbe(r) /\ g.ver = universe[s].ver
                   \/ /\ VerifyHeal(r) /\ s \in item[r]
                      /\ g.ver = Canonical(snap[r][s].ver, head[r])
<1> USE DEF TInv, TypeOK, LibraryTypeOK, BoxTypeOK
<1> SUFFICES ASSUME ~UNCHANGED universe
             PROVE  \E s \in Symbol, g \in Frame :
                /\ universe' = [universe EXCEPT ![s] = g] /\ HasLast(g)
                /\ \/ WriteSymbol(r) /\ s \in todo[r] /\ g = snap[r][s]
                   \/ VerifyProbe(r) /\ g.ver = universe[s].ver
                   \/ /\ VerifyHeal(r) /\ s \in item[r]
                      /\ g.ver = Canonical(snap[r][s].ver, head[r])
  OBVIOUS
<1>1. CASE WriteSymbol(r)
  <2>1. PICK s \in todo[r] : universe' = [universe EXCEPT ![s] = snap[r][s]]
    BY <1>1 DEF WriteSymbol
  <2>2. snap[r][s] \in Frame /\ HasLast(snap[r][s])
    BY <1>1 DEF WriteSymbol, LastDays
  <2> QED
    BY <1>1, <2>1, <2>2
<1>2. CASE VerifyProbe(r)
  <2>1. PICK s \in Symbol : universe' =
             [universe EXCEPT ![s].probe = @ \cup {LastDay(universe[s]) + 1}]
    BY <1>2 DEF VerifyProbe
  <2> DEFINE g == [universe[s] EXCEPT !.probe = @ \cup {LastDay(universe[s]) + 1}]
  <2>2. universe[s] \in Frame /\ HasLast(universe[s])
    BY DEF LastDays
  <2>a. LastDay(universe[s]) + 1 \in Nat
    BY <2>2, LastDayIsDay
  <2>3. g \in Frame /\ HasLast(g) /\ g.ver = universe[s].ver
    BY <2>2, <2>a, ProbedFrame
  <2>4. universe' = [universe EXCEPT ![s] = g]
    BY <2>1
  <2> HIDE DEF g
  <2> QED
    BY <1>2, <2>3, <2>4
<1>3. CASE VerifyHeal(r)
  <2>1. PICK s \in item[r] : universe' = [universe EXCEPT ![s] =
              [snap[r][s] EXCEPT !.ver = Canonical(snap[r][s].ver, head[r])]]
    BY <1>3 DEF VerifyHeal
  <2> DEFINE v == Canonical(snap[r][s].ver, head[r])
             g == [snap[r][s] EXCEPT !.ver = v]
  <2>2. snap[r][s] \in Frame /\ HasLast(snap[r][s])
    BY <1>3 DEF VerifyHeal, LastDays
  <2>3. v \in Version
    BY <2>2 DEF Canonical, Frame
  <2>4. g \in Frame /\ Days(g) = Days(snap[r][s]) /\ g.ver = v
    BY <2>2, <2>3, VersionedFrame
  <2>5. HasLast(g)
    BY <2>2, <2>4 DEF HasLast
  <2> HIDE DEF g
  <2> QED
    BY <1>3, <2>1, <2>4, <2>5 DEF g
<1> QED
  BY <1>1, <1>2, <1>3
     DEF BoxStep, Launch, Probe, LoadPending, ReadSymbol, StorageRaises,
         StartWrite, EndWrite, Stamp, NextMigration, Crash, libVars

LEMMA BoxStepLastDays ==
    ASSUME TInv, NEW r \in Runner, BoxStep(r)
    PROVE  LastDays' /\ CacheHasDay'
<1> USE DEF TInv, TypeOK
<1>1. \A s \in Symbol : HasLast(universe'[s])
  BY BoxStepUniverse DEF LastDays, LibraryTypeOK
<1>2. UNCHANGED prodVars
  BY BoxStepFrame
<1>3. \A q \in Runner \ {r} : /\ pc'[q] = pc[q] /\ todo'[q] = todo[q]
                             /\ item'[q] = item[q] /\ snap'[q] = snap[q]
  BY BoxStepFrame
<1>4. ASSUME NEW s \in Symbol,
             \/ pc'[r] = "read" /\ s \notin todo'[r]
             \/ pc'[r] = "write"
             \/ pc'[r] = "heal" /\ s \in item'[r]
      PROVE  HasLast(snap'[r][s])
  <2>1. CASE ReadSymbol(r)
    <3>1. PICK x \in todo[r] :
            /\ snap' = [snap EXCEPT ![r][x] =
                          [universe[x] EXCEPT !.ver = mig[r]]]
            /\ todo' = [todo EXCEPT ![r] = @ \ {x}]
      BY <1>4, <2>1 DEF ReadSymbol, Fail, Exit, BoxTypeOK
    <3>2. HasLast([universe[x] EXCEPT !.ver = mig[r]])
      BY VersionedFrame DEF HasLast, LastDays, LibraryTypeOK, BoxTypeOK
    <3>3. CASE s = x
      BY <3>1, <3>2, <3>3 DEF BoxTypeOK
    <3>4. CASE s # x
      BY <1>4, <2>1, <3>1, <3>4 DEF ReadSymbol, Fail, Exit, BoxTypeOK, LastDays
    <3> QED
      BY <3>3, <3>4
  <2>2. CASE VerifyProbe(r)
    BY <1>4, <2>2 DEF VerifyProbe, Fail, Exit, BoxTypeOK, LastDays
  <2>3. CASE StartWrite(r) \/ WriteSymbol(r) \/ EndWrite(r)
    BY <1>4, <2>3 DEF StartWrite, WriteSymbol, EndWrite, Fail, Exit,
       BoxTypeOK, LastDays
  <2>4. CASE Launch(r) \/ Probe(r) \/ LoadPending(r) \/ StorageRaises(r)
             \/ Stamp(r) \/ VerifyHeal(r) \/ NextMigration(r) \/ Crash(r)
    BY <1>4, <2>4 DEF Launch, Probe, LoadPending, StorageRaises, Stamp,
       VerifyHeal, NextMigration, Crash, Fail, Exit, BoxTypeOK
  <2> QED
    BY <2>1, <2>2, <2>3, <2>4 DEF BoxStep
<1>5. LastDays'
  BY <1>1, <1>2, <1>3, <1>4 DEF LastDays, prodVars
<1> QED
  BY <1>2, <1>5 DEF CacheHasDay, prodVars

LEMMA ProducerStepUniverse ==
    ASSUME TInv, NEW p \in Producer, ProducerStep(p), NEW s \in Symbol
    PROVE  /\ HasLast(universe'[s])
           /\ \/ universe'[s] = universe[s]
              \/ universe'[s].ver = universe[s].ver
              \/ /\ WriteChunk(p) \/ BackfillSymbol(p)
                 /\ universe'[s].ver = code[p]
<1> USE DEF TInv, TypeOK, LibraryTypeOK
<1>1. CASE WriteChunk(p)
  <2>1. PICK W \in SUBSET Queued(p) : universe' =
              [x \in Symbol |-> IF x \notin W THEN universe[x]
                                            ELSE Appended(p, x)]
    BY <1>1, WriteChunkUniverse
  <2>2. universe'[s] = IF s \notin W THEN universe[s] ELSE Appended(p, s)
    BY <2>1
  <2> QED
    BY <1>1, <2>2, AppendedFrame DEF LastDays
<1>2. CASE BackfillSymbol(p)
  BY <1>2, BackfillUniverse DEF LastDays
<1>3. CASE UNCHANGED universe
  BY <1>3 DEF LastDays
<1> QED
  BY <1>1, <1>2, <1>3 DEF ProducerStep, StartAppend, AssertSchema, ReadChunk,
     StartBackfill, ProducerDies, libVars

LEMMA ProducerStepLastDays ==
    ASSUME TInv, NEW p \in Producer, ProducerStep(p)
    PROVE  LastDays' /\ CacheHasDay'
<1> USE DEF TInv, TypeOK
<1>1. UNCHANGED boxVars
  BY ProducerStepFrame
<1>2. \A q \in Producer \ {p} : /\ ppc'[q] = ppc[q] /\ day'[q] = day[q]
                               /\ hist'[q] = hist[q]
  BY ProducerStepFrame
<1>3. \A s \in Symbol : Days(hist'[p][s]) = {} \/ HasLast(hist'[p][s])
  <2>1. CASE ReadChunk(p)
    <3>1. CASE Finish(p)
      BY <3>1, EmptyFrames DEF Finish, ProducerTypeOK
    <3>2. CASE ~Finish(p)
      <4>1. PICK C \in SUBSET Symbol : hist' = [hist EXCEPT ![p] =
              [s \in Symbol |-> IF s \in C THEN universe[s] ELSE EmptyFrame]]
        BY <2>1, <3>2 DEF ReadChunk, Slices, ProducerTypeOK
      <4>2. \A s \in Symbol : hist'[p][s] \in {universe[s], EmptyFrame}
        BY <4>1 DEF ProducerTypeOK
      <4> QED
        BY <4>2, EmptyFrames DEF LastDays
    <3> QED
      BY <3>1, <3>2
  <2>2. CASE ~ReadChunk(p)
    BY <2>2, EmptyFrames
       DEF ProducerTypeOK, ProducerStep, StartAppend, AssertSchema,
           WriteChunk, StartBackfill, BackfillSymbol, ProducerDies, Finish,
           LastDays
  <2> QED
    BY <2>1, <2>2
<1>4. ppc'[p] = "backfill" => day'[p] # 0
  <2>1. CASE StartBackfill(p)
    <3>1. Finish(p) \/ \E k \in 1..MaxDay : day' = [day EXCEPT ![p] = k]
      BY <2>1 DEF StartBackfill
    <3> QED
      BY <3>1 DEF Finish, ProducerTypeOK
  <2>2. CASE ~StartBackfill(p)
    BY <2>2 DEF CacheHasDay, ProducerTypeOK, ProducerStep, StartAppend,
       AssertSchema, ReadChunk, WriteChunk, BackfillSymbol, ProducerDies,
       Finish
  <2> QED
    BY <2>1, <2>2
<1>5. CacheHasDay'
  BY <1>2, <1>4 DEF CacheHasDay
<1>6. LastDays'
  BY <1>1, <1>2, <1>3, ProducerStepUniverse DEF LastDays, boxVars
<1> QED
  BY <1>5, <1>6

LEMMA NextTInv == TInv /\ [Next]_vars => TInv'
<1> SUFFICES ASSUME TInv, [Next]_vars PROVE TInv'
  OBVIOUS
<1> USE DEF TInv, TypeOK
<1>1. CASE Merge
  <2>1. UNCHANGED <<libVars, marker, boxVars, prodVars, appended, lapses>>
        /\ main' \in Version
    BY <1>1, ConstantsAssumption DEF Merge, LibraryTypeOK, Version
  <2>2. LibraryTypeOK' /\ BoxTypeOK' /\ ProducerTypeOK'
    BY <2>1 DEF libVars, boxVars, prodVars, LibraryTypeOK, BoxTypeOK,
       ProducerTypeOK
  <2>3. LastDays' /\ CacheHasDay'
    BY <2>1 DEF libVars, boxVars, prodVars, LastDays, CacheHasDay
  <2> QED
    BY <2>2, <2>3
<1>2. ASSUME NEW r \in Runner, BoxStep(r) PROVE TInv'
  <2>1. UNCHANGED prodVars
    BY <1>2, BoxStepFrame
  <2>2. ProducerTypeOK'
    BY <2>1 DEF ProducerTypeOK, prodVars
  <2> QED
    BY <1>2, <2>2, BoxStepLibrary, BoxStepBox, BoxStepLastDays
<1>3. ASSUME NEW p \in Producer, ProducerStep(p) PROVE TInv'
  <2>1. UNCHANGED boxVars
    BY <1>3, ProducerStepFrame
  <2>2. BoxTypeOK'
    BY <2>1 DEF BoxTypeOK, boxVars
  <2> QED
    BY <1>3, <2>2, ProducerStepLibrary, ProducerStepProducer,
       ProducerStepLastDays
<1>4. CASE UNCHANGED vars
  BY <1>4 DEF vars, libVars, boxVars, prodVars, LibraryTypeOK, BoxTypeOK,
     ProducerTypeOK, LastDays, CacheHasDay
<1> QED
  BY <1>1, <1>2, <1>3, <1>4 DEF Next

LEMMA TypeInvariant == Spec => []TInv
  BY InitTInv, NextTInv, PTL DEF Spec

\* Every variable keeps its type, whatever boxes, producers and merges do to
\* each other.
THEOREM TypeCorrect == Spec => []TypeOK
<1>1. TInv => TypeOK
  BY DEF TInv
<1> QED
  BY <1>1, TypeInvariant, PTL

-----------------------------------------------------------------------------
(* Probe rows stay apart from real ones *)

Apart(f) == f.rows \cap f.probe = {}

\* In the library and in whatever somebody read from it and may write back.
PInv == /\ TInv
        /\ \A s \in Symbol : Apart(universe[s])
        /\ \A r \in Runner, s \in Symbol : Apart(snap[r][s])
        /\ \A p \in Producer, s \in Symbol : Apart(hist[p][s])

LEMMA EmptyApart == \A s \in Symbol : Apart(NoFrames[s])
  BY DEF Apart, NoFrames, EmptyFrame

LEMMA WithRowApart ==
    ASSUME NEW f \in Frame, Apart(f), NEW d \in Nat, NEW v \in Version
    PROVE  Apart(WithRow(f, d)) /\ Apart([WithRow(f, d) EXCEPT !.ver = v])
  BY DEF Apart, WithRow, Frame

LEMMA VersionedApart ==
    ASSUME NEW f \in Frame, Apart(f), NEW v \in Version
    PROVE  Apart([f EXCEPT !.ver = v])
  BY DEF Apart, Frame

\* The probe is one day after the last: no row has that day.
LEMMA ProbedApart ==
    ASSUME NEW f \in Frame, Apart(f), HasLast(f)
    PROVE  Apart([f EXCEPT !.probe = @ \cup {LastDay(f) + 1}])
<1>1. LastDay(f) \in Nat /\ \A d \in f.rows : d \in Nat /\ d <= LastDay(f)
  BY LastDayIsDay, LastDayIsLast DEF Frame
<1>2. LastDay(f) + 1 \notin f.rows
  BY <1>1
<1>3. /\ [f EXCEPT !.probe = @ \cup {LastDay(f) + 1}].rows = f.rows
      /\ [f EXCEPT !.probe = @ \cup {LastDay(f) + 1}].probe
            = f.probe \cup {LastDay(f) + 1}
  BY DEF Frame
<1> QED
  BY <1>2, <1>3 DEF Apart

LEMMA InitPInv == Init => PInv
<1> SUFFICES ASSUME Init PROVE PInv
  OBVIOUS
<1>1. \A s \in Symbol : Apart(universe[s])
  BY DEF Init, Apart
<1> QED
  BY <1>1, InitTInv, EmptyApart DEF Init, PInv

LEMMA BoxStepApart ==
    ASSUME PInv, NEW r \in Runner, BoxStep(r), NEW s \in Symbol
    PROVE  Apart(universe'[s])
<1> USE DEF PInv, TInv, TypeOK, LibraryTypeOK, BoxTypeOK
<1>1. CASE WriteSymbol(r)
  BY <1>1 DEF WriteSymbol
<1>2. CASE VerifyProbe(r) /\ ~UNCHANGED universe
  <2>1. PICK x \in Symbol : universe' = [universe EXCEPT ![x] =
           [universe[x] EXCEPT !.probe = @ \cup {LastDay(universe[x]) + 1}]]
    BY <1>2 DEF VerifyProbe
  <2>2. Apart([universe[x] EXCEPT !.probe = @ \cup {LastDay(universe[x]) + 1}])
    BY ProbedApart DEF LastDays
  <2> QED
    BY <2>1, <2>2
<1>3. CASE VerifyHeal(r) /\ ~UNCHANGED universe
  <2>1. PICK x \in item[r] : universe' = [universe EXCEPT ![x] =
              [snap[r][x] EXCEPT !.ver = Canonical(snap[r][x].ver, head[r])]]
    BY <1>3 DEF VerifyHeal
  <2>2. Canonical(snap[r][x].ver, head[r]) \in Version
    BY DEF Canonical, Frame
  <2>3. Apart([snap[r][x] EXCEPT !.ver = Canonical(snap[r][x].ver, head[r])])
    BY <2>2, VersionedApart
  <2> QED
    BY <2>1, <2>3
<1>4. CASE UNCHANGED universe
  BY <1>4
<1> QED
  BY <1>1, <1>2, <1>3, <1>4
     DEF BoxStep, Launch, Probe, LoadPending, ReadSymbol, StorageRaises,
         StartWrite, EndWrite, Stamp, NextMigration, Crash, libVars

LEMMA BoxStepSnapApart ==
    ASSUME PInv, NEW r \in Runner, BoxStep(r), NEW q \in Runner,
           NEW s \in Symbol
    PROVE  Apart(snap'[q][s])
<1> USE DEF PInv, TInv, TypeOK, LibraryTypeOK, BoxTypeOK
<1>1. CASE ReadSymbol(r) /\ ~Exit(r)
  <2>1. PICK x \in Symbol : snap' = [snap EXCEPT ![r][x] =
                                [universe[x] EXCEPT !.ver = mig[r]]]
    BY <1>1 DEF ReadSymbol, Fail
  <2>2. Apart([universe[x] EXCEPT !.ver = mig[r]])
    BY VersionedApart
  <2> QED
    BY <2>1, <2>2
<1>2. CASE VerifyProbe(r) /\ ~Exit(r)
  <2>1. PICK x \in Symbol : snap' = [snap EXCEPT ![r][x] = universe[x]]
    BY <1>2 DEF VerifyProbe, Fail
  <2> QED
    BY <2>1
<1>3. CASE snap' = snap \/ snap' = [snap EXCEPT ![r] = NoFrames]
  BY <1>3, EmptyApart
<1> QED
  BY <1>1, <1>2, <1>3
     DEF BoxStep, Launch, Probe, LoadPending, ReadSymbol, StorageRaises,
         StartWrite, WriteSymbol, EndWrite, Stamp, VerifyProbe, VerifyHeal,
         NextMigration, Crash, Fail, Exit

LEMMA ProducerStepApart ==
    ASSUME PInv, NEW p \in Producer, ProducerStep(p), NEW s \in Symbol
    PROVE  Apart(universe'[s]) /\ Apart(hist'[p][s])
<1> USE DEF PInv, TInv, TypeOK, LibraryTypeOK, ProducerTypeOK
<1>1. Apart(universe'[s])
  <2>1. CASE WriteChunk(p)
    <3>1. PICK W \in SUBSET Queued(p) : universe' =
                [x \in Symbol |-> IF x \notin W THEN universe[x]
                                              ELSE Appended(p, x)]
      BY <2>1, WriteChunkUniverse
    <3>2. Apart(Appended(p, s))
      BY WithRowApart DEF Appended
    <3> QED
      BY <3>1, <3>2
  <2>2. CASE BackfillSymbol(p) /\ ~UNCHANGED universe
    <3>1. PICK x \in Symbol : universe' = [universe EXCEPT ![x] =
                     [ver |-> code[p], rows |-> 1..day[p], probe |-> {}]]
      BY <2>2 DEF BackfillSymbol
    <3> QED
      BY <3>1 DEF Apart
  <2>3. CASE UNCHANGED universe
    BY <2>3
  <2> QED
    BY <2>1, <2>2, <2>3 DEF ProducerStep, StartAppend, AssertSchema, ReadChunk,
       StartBackfill, ProducerDies, libVars
<1>2. Apart(hist'[p][s])
  <2>1. CASE ReadChunk(p) /\ ~Finish(p)
    <3>1. PICK C \in SUBSET Symbol : hist' = [hist EXCEPT ![p] =
              [x \in Symbol |-> IF x \in C THEN universe[x] ELSE EmptyFrame]]
      BY <2>1 DEF ReadChunk, Slices
    <3> QED
      BY <3>1, EmptyApart, EmptyFrames
  <2>2. CASE hist' = hist \/ hist' = [hist EXCEPT ![p] = NoFrames]
    BY <2>2, EmptyApart
  <2> QED
    BY <2>1, <2>2 DEF ProducerStep, StartAppend, AssertSchema, ReadChunk,
       WriteChunk, StartBackfill, BackfillSymbol, ProducerDies, Finish
<1> QED
  BY <1>1, <1>2

LEMMA NextPInv == PInv /\ [Next]_vars => PInv'
<1> SUFFICES ASSUME PInv, [Next]_vars PROVE PInv'
  OBVIOUS
<1>1. TInv'
  BY NextTInv DEF PInv
<1>2. CASE Merge \/ UNCHANGED vars
  BY <1>1, <1>2 DEF Merge, PInv, vars, libVars, boxVars, prodVars
<1>3. ASSUME NEW r \in Runner, BoxStep(r) PROVE PInv'
  <2>1. UNCHANGED hist
    BY <1>3, BoxStepFrame DEF PInv, prodVars
  <2> QED
    BY <1>1, <1>3, <2>1, BoxStepApart, BoxStepSnapApart DEF PInv
<1>4. ASSUME NEW p \in Producer, ProducerStep(p) PROVE PInv'
  <2>1. UNCHANGED snap /\ \A q \in Producer \ {p} : hist'[q] = hist[q]
    BY <1>4, ProducerStepFrame DEF PInv, boxVars
  <2> QED
    BY <1>1, <1>4, <2>1, ProducerStepApart DEF PInv
<1> QED
  BY <1>2, <1>3, <1>4 DEF Next

\* A probe row the heal of verify_additive failed to take out is never a day
\* that also has a real row, with any number of boxes, appends and backfills
\* at work at once: an append of that day replaces it, a copy keeps both
\* apart, a backfill removes it.
THEOREM ProbesStayApart == Spec => []ProbeNeverShadows
<1>1. PInv => ProbeNeverShadows
  BY DEF PInv, Apart, ProbeNeverShadows
<1> QED
  BY <1>1, InitPInv, NextPInv, PTL DEF Spec

-----------------------------------------------------------------------------
(* The stamp, while boxes come one after the other and whatever the         *)
(* producers do: nobody else writes it, so what LoadPending read still      *)
(* holds when it is moved.                                                  *)

Serial == "boxes" \notin lapses

OneBox == \A r, q \in Runner : BoxLive(r) /\ BoxLive(q) => r = q

\* Where a box's migration stands against the stamp.
StampProgress ==
    \A r \in Runner :
        /\ pc[r] \in {"read", "write", "stamp"} => mig[r] = Effective + 1
        /\ pc[r] \in {"verify", "heal"} => mig[r] = Effective

\* A finished head is at or below the stamp.
MarkersBelowStamp ==
    \A h \in Version :
        marker[h] \in {"success", "noop_up_to_date"} => h <= Effective

AInv == TInv /\ OneBox /\ StampProgress /\ MarkersBelowStamp

\* The invariant of every behaviour: AInv up to the first box beside a box.
StampInv == TInv /\ (Serial => AInv)

LEMMA InitAInv == Init => AInv
  BY InitTInv DEF Init, AInv, OneBox, BoxLive, StampProgress, MarkersBelowStamp

LEMMA LaunchAlone ==
    ASSUME NEW r \in Runner, Launch(r), Serial'
    PROVE  \A q \in Runner : ~BoxLive(q)
  BY DEF Launch, Note, When, Serial

LEMMA BoxStepOneBox ==
    ASSUME Serial', AInv, NEW r \in Runner, BoxStep(r)
    PROVE  OneBox'
<1>1. \A q \in Runner \ {r} : pc'[q] = pc[q]
  BY BoxStepFrame DEF AInv
<1>2. BoxLive(r)' => BoxLive(r) \/ Launch(r)
  BY DEF AInv, TInv, TypeOK, BoxTypeOK, BoxLive, BoxStep, Probe,
     LoadPending, ReadSymbol, StorageRaises, StartWrite, WriteSymbol, EndWrite,
     Stamp, VerifyProbe, VerifyHeal, NextMigration, Crash, Fail, Exit
<1> QED
  BY <1>1, <1>2, LaunchAlone DEF AInv, OneBox, BoxLive

\* The stamp moves only in Stamp, by one migration.
LEMMA BoxStepStamp ==
    ASSUME AInv, NEW r \in Runner, BoxStep(r)
    PROVE  \/ UNCHANGED stamp /\ Effective' = Effective
           \/ /\ Stamp(r) /\ stamp' = mig[r] /\ UNCHANGED universe
              /\ mig[r] = Effective + 1 /\ Effective' = mig[r]
<1>1. CASE UNCHANGED stamp
  BY <1>1 DEF Effective
<1>2. CASE ~UNCHANGED stamp
  <2>1. Stamp(r) /\ stamp' = mig[r] /\ UNCHANGED universe
    BY <1>2 DEF BoxStep, Launch, Probe, LoadPending, ReadSymbol, StorageRaises,
       StartWrite, WriteSymbol, EndWrite, Stamp, VerifyProbe, VerifyHeal,
       NextMigration, Crash, libVars
  <2>2. mig[r] = Effective + 1
    BY <2>1 DEF Stamp, AInv, StampProgress
  <2>3. mig[r] \in Version /\ mig[r] # NoStamp
    BY ConstantsAssumption
       DEF AInv, TInv, TypeOK, BoxTypeOK, Version, NoStamp
  <2> QED
    BY <2>1, <2>2, <2>3 DEF Effective
<1> QED
  BY <1>1, <1>2

LEMMA BoxStepStampProgress ==
    ASSUME AInv, NEW r \in Runner, BoxStep(r)
    PROVE  StampProgress'
<1> USE DEF AInv, TInv, TypeOK, BoxTypeOK
<1>1. /\ BoxLive(r) \/ Launch(r)
      /\ Stamp(r) => pc[r] = "stamp"
  BY DEF BoxLive, BoxStep, Probe, LoadPending, ReadSymbol, StorageRaises, StartWrite,
     WriteSymbol, EndWrite, Stamp, VerifyProbe, VerifyHeal, NextMigration, Crash
<1>2. ASSUME NEW q \in Runner, q # r
      PROVE  /\ pc'[q] \in {"read", "write", "stamp"} => mig'[q] = Effective' + 1
             /\ pc'[q] \in {"verify", "heal"} => mig'[q] = Effective'
  <2>1. pc'[q] = pc[q] /\ mig'[q] = mig[q]
    BY <1>2, BoxStepFrame
  <2>2. CASE BoxLive(r)
    <3>1. ~BoxLive(q)
      BY <1>2, <2>2 DEF OneBox
    <3> QED
      BY <2>1, <3>1 DEF BoxLive
  <2>3. CASE Launch(r)
    <3>1. Effective' = Effective
      BY <2>3 DEF Launch, libVars, Effective
    <3> QED
      BY <2>1, <3>1 DEF StampProgress
  <2> QED
    BY <1>1, <2>2, <2>3
<1>3. /\ pc'[r] \in {"read", "write", "stamp"} => mig'[r] = Effective' + 1
      /\ pc'[r] \in {"verify", "heal"} => mig'[r] = Effective'
  <2>1. \/ UNCHANGED stamp /\ Effective' = Effective
        \/ Stamp(r) /\ stamp' = mig[r] /\ Effective' = mig[r]
    BY BoxStepStamp
  <2>2. CASE pc'[r] \in {"done", "probe", "load"}
    BY <2>2
  <2>3. CASE Stamp(r) /\ pc'[r] \notin {"done", "probe", "load"}
    <3>1. pc'[r] = "verify" /\ mig'[r] = mig[r] /\ stamp' = mig[r]
      BY <2>3 DEF Stamp, Fail, Exit
    <3>2. mig[r] \in Version /\ mig[r] # NoStamp
      BY ConstantsAssumption DEF Version, NoStamp
    <3> QED
      BY <3>1, <3>2 DEF Effective
  <2>4. CASE LoadPending(r) /\ pc'[r] \notin {"done", "probe", "load"}
    BY <2>4 DEF LoadPending, Exit, libVars, Effective
  <2>5. CASE NextMigration(r) /\ pc'[r] \notin {"done", "probe", "load"}
    <3>1. pc'[r] = "read" /\ mig'[r] = mig[r] + 1 /\ pc[r] = "verify" /\ UNCHANGED stamp
      BY <2>5 DEF NextMigration, Exit, libVars
    <3>2. mig[r] = Effective
      BY <3>1 DEF StampProgress
    <3> QED
      BY <3>1, <3>2 DEF Effective
  <2>6. CASE /\ ~Stamp(r) /\ ~LoadPending(r) /\ ~NextMigration(r)
             /\ pc'[r] \notin {"done", "probe", "load"}
    <3>1. /\ mig'[r] = mig[r]
          /\ \/ pc[r] \in {"read", "write"} /\ pc'[r] \in {"read", "write", "stamp"}
             \/ pc[r] \in {"verify", "heal"} /\ pc'[r] \in {"verify", "heal"}
      BY <2>6 DEF BoxStep, Launch, Probe, ReadSymbol, StorageRaises, StartWrite,
         WriteSymbol, EndWrite, VerifyProbe, VerifyHeal, Crash, Fail, Exit
    <3>2. Effective' = Effective
      BY <2>1, <2>6
    <3> QED
      BY <3>1, <3>2 DEF StampProgress
  <2> QED
    BY <2>2, <2>3, <2>4, <2>5, <2>6
<1> QED
  BY <1>2, <1>3 DEF StampProgress

\* A head is reported finished by a box that has it on the stamp.
LEMMA BoxStepMarkers ==
    ASSUME AInv, NEW r \in Runner, BoxStep(r)
    PROVE  MarkersBelowStamp'
<1>1. Effective \in Nat /\ Effective' \in Nat /\ Effective <= Effective'
  <2>1. Effective \in Nat /\ mig[r] \in Nat
    BY EffectiveType DEF Version, AInv, TInv, TypeOK, BoxTypeOK
  <2> QED
    BY <2>1, BoxStepStamp
<1>2. \/ UNCHANGED marker
      \/ \E m \in Marker \ {"success", "noop_up_to_date"} : PutMarker(r, m)
      \/ PutMarker(r, "noop_up_to_date") /\ head[r] <= Effective
      \/ PutMarker(r, "success") /\ head[r] = mig[r] /\ pc[r] = "verify"
  BY DEF Marker, BoxStep, Launch, Probe, LoadPending, ReadSymbol, StorageRaises,
     StartWrite, WriteSymbol, EndWrite, Stamp, VerifyProbe, VerifyHeal,
     NextMigration, Crash, Fail
<1>3. pc[r] = "verify" => mig[r] = Effective
  BY DEF AInv, StampProgress
<1>4. \/ marker' = marker
      \/ \E m \in Marker \ {"success", "noop_up_to_date"} :
           marker' = [marker EXCEPT ![head[r]] = m]
      \/ \E m \in Marker : /\ marker' = [marker EXCEPT ![head[r]] = m]
                           /\ head[r] <= Effective
  BY <1>1, <1>2, <1>3 DEF PutMarker, Marker
<1>5. ASSUME NEW h \in Version,
             marker'[h] \in {"success", "noop_up_to_date"}
      PROVE  h <= Effective
  BY <1>4, <1>5
     DEF AInv, MarkersBelowStamp, TInv, TypeOK, LibraryTypeOK
<1>6. \A h \in Version : h <= Effective => h <= Effective'
  BY <1>1 DEF Version
<1> QED
  BY <1>5, <1>6 DEF MarkersBelowStamp

LEMMA NextAInv ==
    ASSUME Serial', AInv, [Next]_vars
    PROVE  AInv'
<1>1. TInv'
  BY NextTInv DEF AInv
<1>2. ASSUME NEW r \in Runner, BoxStep(r) PROVE AInv'
  BY <1>1, <1>2, BoxStepOneBox, BoxStepStampProgress, BoxStepMarkers DEF AInv
<1>3. CASE UNCHANGED <<stamp, marker, boxVars>>
  BY <1>1, <1>3 DEF AInv, OneBox, BoxLive, StampProgress, MarkersBelowStamp,
     Effective, boxVars
<1>4. (\E r \in Runner : BoxStep(r)) \/ UNCHANGED <<stamp, marker, boxVars>>
  BY ProducerStepFrame DEF AInv, Next, Merge, vars, libVars
<1> QED
  BY <1>2, <1>3, <1>4

LEMMA StampInvariant == Spec => []StampInv
<1>1. Init => StampInv
  BY InitAInv DEF StampInv, AInv
<1>2. StampInv /\ [Next]_vars => StampInv'
  <2> SUFFICES ASSUME StampInv, [Next]_vars PROVE StampInv'
    OBVIOUS
  <2>1. TInv'
    BY NextTInv DEF StampInv
  <2>2. Serial' => Serial
    BY LapsesGrow DEF Serial
  <2> QED
    BY <2>1, <2>2, NextAInv DEF StampInv
<1> QED
  BY <1>1, <1>2, PTL DEF Spec

\* The stamp moves by one migration at a time, so it never skips or repeats
\* one and never goes back, whichever pipelines append or backfill meanwhile
\* and until a box starts beside another one, which nothing rules out.
THEOREM StampSteps == Spec => StampAdvancesByOne
<1>1. ASSUME StampInv, [Next]_vars
      PROVE  [stamp' # stamp /\ "boxes" \notin lapses
                => stamp' = Effective + 1]_vars
  <2> SUFFICES ASSUME stamp' # stamp, Serial
               PROVE  stamp' = Effective + 1
    BY DEF Serial
  <2>1. AInv
    BY <1>1 DEF StampInv
  <2>2. ASSUME NEW p \in Producer, ProducerStep(p) PROVE FALSE
    BY <2>1, <2>2, ProducerStepFrame DEF AInv
  <2>3. PICK r \in Runner : BoxStep(r)
    BY <1>1, <2>2 DEF Next, Merge, vars, libVars
  <2> QED
    BY <2>1, <2>3, BoxStepStamp
<1> QED
  BY <1>1, StampInvariant, PTL DEF Spec, StampAdvancesByOne

\* A head whose marker says success or noop is on the stamp, whichever
\* pipelines were at work beside its box, until a box starts beside another.
THEOREM FinishedIsStamped == Spec => [](Serial => MarkersBelowStamp)
<1>1. StampInv => (Serial => MarkersBelowStamp)
  BY DEF StampInv, AInv
<1> QED
  BY <1>1, StampInvariant, PTL
=============================================================================
