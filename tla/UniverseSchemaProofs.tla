-------------------------- MODULE UniverseSchemaProofs --------------------------
(***************************************************************************)
(* The schema stamp and the symbols' columns agree, for every number of    *)
(* symbols, boxes, producers and versions, until two writers first meet.   *)
(* Nothing in the code keeps them from it: the invariant says what each    *)
(* writer relies on and which step takes it away, a box or a producer that *)
(* starts beside another writer (the lapses of UniverseMigration).         *)
(*                                                                         *)
(* The argument: until then whoever is past its guard (a box past the      *)
(* probe, a producer at work) is the library's only writer, so what it     *)
(* read still holds when it writes; a box has every symbol one version     *)
(* above the stamp before it moves the stamp; a producer's code knows at   *)
(* least the columns on disk, and exactly the stamped ones once it passed  *)
(* the assert.                                                             *)
(***************************************************************************)
EXTENDS UniverseMigrationProofs

\* At most one box is live, at most one producer, and no producer is while a
\* box is past its probe.
OneWriter ==
    /\ \A r, q \in Runner : BoxLive(r) /\ BoxLive(q) => r = q
    /\ \A p, q \in Producer : ProdLive(p) /\ ProdLive(q) => p = q
    /\ \A r \in Runner, p \in Producer : PastProbe(r) => ~ProdLive(p)

\* Stamp, symbols, boxes and producers know merged versions only.
KnownVersions ==
    /\ Effective <= main
    /\ \A s \in Symbol : universe[s].ver <= main
    /\ \A r \in Runner : head[r] <= main
    /\ \A p \in Producer : code[p] <= main

\* Where a box is in migration mig, against the stamp and the symbols.
ProgressOf(r) ==
    /\ pc[r] \in {"read", "write", "stamp"} =>
          mig[r] = Effective + 1 /\ mig[r] <= head[r]
    /\ pc[r] = "read" => \A s \in Symbol :
          s \notin todo[r] => snap[r][s].ver = mig[r]
    /\ pc[r] = "write" => \A s \in Symbol :
          /\ snap[r][s].ver = mig[r]
          /\ s \notin todo[r] /\ ~failed[r] => universe[s].ver = mig[r]
    /\ pc[r] = "stamp" => \A s \in Symbol : universe[s].ver = mig[r]
    /\ pc[r] \in {"verify", "heal"} =>
          mig[r] = Effective /\ mig[r] <= head[r]
    /\ pc[r] = "heal" => \A s \in item[r] : snap[r][s].ver = mig[r]

BoxProgress == \A r \in Runner : ProgressOf(r)

\* A producer at work runs code at or above stamp and symbols, and at the
\* stamp once it passed the assert.
ProducerFits ==
    \A p \in Producer :
        /\ ProdLive(p) => /\ Effective <= code[p]
                          /\ \A s \in Symbol : universe[s].ver <= code[p]
        /\ ppc[p] \in {"read", "write"} => code[p] = Effective

Covered == \A s \in Symbol : Effective <= universe[s].ver

SInv == /\ TInv /\ OneWriter /\ KnownVersions /\ BoxProgress /\ ProducerFits
        /\ MarkersBelowStamp /\ Covered

\* The invariant of every behaviour: SInv until two writers meet.
SchemaInv == TInv /\ (Separate => SInv)

\* What holds of the stamp with one box at a time holds here.
LEMMA StampPart == SInv => AInv
  BY DEF SInv, AInv, OneWriter, OneBox, BoxProgress, ProgressOf, StampProgress

-----------------------------------------------------------------------------
LEMMA InitSInv == Init => SInv
<1> SUFFICES ASSUME Init PROVE SInv
  OBVIOUS
<1>1. TInv
  BY InitTInv
<1>2. Effective = 0 /\ main = 0
  BY ConstantsAssumption DEF Init, Effective, NoStamp
<1>3. OneWriter
  BY DEF Init, OneWriter, BoxLive, ProdLive, PastProbe
<1>4. KnownVersions /\ Covered
  BY <1>2 DEF Init, KnownVersions, Covered
<1>5. BoxProgress /\ ProducerFits /\ MarkersBelowStamp
  BY DEF Init, BoxProgress, ProgressOf, ProducerFits, ProdLive,
     MarkersBelowStamp
<1> QED
  BY <1>1, <1>3, <1>4, <1>5 DEF SInv

-----------------------------------------------------------------------------
(* One writer *)

LEMMA ProbeAlone ==
    ASSUME NEW r \in Runner, Probe(r), Separate', pc'[r] = "load", BoxTypeOK
    PROVE  \A p \in Producer : ~ProdLive(p)
  BY DEF Probe, Exit, Note, When, Separate, BoxTypeOK

LEMMA SeparateLaunch == Separate' => Serial'
  BY DEF Separate, Serial

LEMMA BoxStepOneWriter ==
    ASSUME Separate', TInv, OneWriter, NEW r \in Runner, BoxStep(r)
    PROVE  OneWriter'
<1>1. UNCHANGED prodVars /\ \A q \in Runner \ {r} : pc'[q] = pc[q]
  BY BoxStepFrame
<1>2. BoxLive(r)' => BoxLive(r) \/ \A q \in Runner : ~BoxLive(q)
  <2>1. BoxLive(r)' => BoxLive(r) \/ Launch(r)
    BY DEF TInv, TypeOK, BoxTypeOK, BoxLive, BoxStep, Probe, LoadPending,
       ReadSymbol, StorageRaises, StartWrite, WriteSymbol, EndWrite, Stamp,
       VerifyProbe, VerifyHeal, NextMigration, Crash, Fail, Exit
  <2> QED
    BY <2>1, LaunchAlone, SeparateLaunch
<1>3. PastProbe(r)' => PastProbe(r) \/ \A p \in Producer : ~ProdLive(p)
  <2>1. CASE Probe(r)
    <3>1. pc'[r] \in {"load", "done"}
      BY <2>1 DEF Probe, Exit, TInv, TypeOK, BoxTypeOK
    <3>2. PastProbe(r)' => pc'[r] = "load"
      BY <3>1 DEF PastProbe, BoxLive
    <3> QED
      BY <2>1, <3>2, ProbeAlone DEF TInv, TypeOK
  <2>2. CASE Launch(r)
    BY <2>2 DEF Launch, TInv, TypeOK, BoxTypeOK, PastProbe, BoxLive
  <2>3. CASE Crash(r)
    BY <2>3 DEF Crash, Exit, TInv, TypeOK, BoxTypeOK, PastProbe, BoxLive
  <2>4. CASE ~Probe(r) /\ ~Launch(r) /\ ~Crash(r)
    BY <2>4 DEF PastProbe, BoxLive, BoxStep, LoadPending, ReadSymbol,
       StorageRaises, StartWrite, WriteSymbol, EndWrite, Stamp, VerifyProbe,
       VerifyHeal, NextMigration
  <2> QED
    BY <2>1, <2>2, <2>3, <2>4
<1>4. \A q, x \in Runner : BoxLive(q)' /\ BoxLive(x)' => q = x
  BY <1>1, <1>2 DEF OneWriter, BoxLive
<1>5. \A p \in Producer : ProdLive(p)' <=> ProdLive(p)
  BY <1>1 DEF ProdLive, prodVars
<1>6. \A q \in Runner, p \in Producer : PastProbe(q)' => ~ProdLive(p)'
  BY <1>1, <1>3, <1>5 DEF OneWriter, PastProbe, BoxLive
<1> QED
  BY <1>4, <1>5, <1>6 DEF OneWriter

LEMMA CrossedNothing ==
    ASSUME Separate', Note(Crossed)
    PROVE  /\ \A q \in Producer : ~ProdLive(q)
           /\ \A r \in Runner : ~PastProbe(r)
  BY DEF Separate, Note, Crossed, When

LEMMA CrossedNothingBlind ==
    ASSUME Separate', NEW B, Note(Crossed \cup B)
    PROVE  /\ \A q \in Producer : ~ProdLive(q)
           /\ \A r \in Runner : ~PastProbe(r)
  BY DEF Separate, Note, Crossed, When

LEMMA ProducerStartsAlone ==
    ASSUME Separate', TInv, NEW p \in Producer, ProducerStep(p),
           ProdLive(p)', ~ProdLive(p)
    PROVE  /\ \A q \in Producer : ~ProdLive(q)
           /\ \A r \in Runner : ~PastProbe(r)
<1>1. StartAppend(p) \/ (StartBackfill(p) /\ ~Finish(p))
  BY DEF TInv, TypeOK, ProducerTypeOK, ProdLive, ProducerStep, AssertSchema,
     ReadChunk, WriteChunk, BackfillSymbol, ProducerDies, Finish
<1>2. CASE StartAppend(p)
  BY <1>2, CrossedNothing DEF StartAppend
<1>3. CASE StartBackfill(p) /\ ~Finish(p)
  <2>1. \E B : Note(Crossed \cup B)
    BY <1>3 DEF StartBackfill
  <2> QED
    BY <2>1, CrossedNothingBlind
<1> QED
  BY <1>1, <1>2, <1>3

LEMMA ProducerStepOneWriter ==
    ASSUME Separate', TInv, OneWriter, NEW p \in Producer, ProducerStep(p)
    PROVE  OneWriter'
<1>1. UNCHANGED boxVars /\ \A q \in Producer \ {p} : ppc'[q] = ppc[q]
  BY ProducerStepFrame
<1>2. ProdLive(p)' => \/ ProdLive(p)
                      \/ /\ \A q \in Producer : ~ProdLive(q)
                         /\ \A r \in Runner : ~PastProbe(r)
  BY ProducerStartsAlone
<1>3. \A q, x \in Producer : ProdLive(q)' /\ ProdLive(x)' => q = x
  BY <1>1, <1>2 DEF OneWriter, ProdLive
<1>4. \A r, q \in Runner : BoxLive(r)' /\ BoxLive(q)' => r = q
  BY <1>1 DEF OneWriter, BoxLive, boxVars
<1>5. ASSUME NEW r \in Runner, NEW q \in Producer, PastProbe(r)'
      PROVE  ~ProdLive(q)'
  <2>1. PastProbe(r)
    BY <1>1, <1>5 DEF PastProbe, BoxLive, boxVars
  <2>2. ~ProdLive(q) /\ ~ProdLive(p)
    BY <2>1 DEF OneWriter
  <2> QED
    BY <1>1, <1>2, <2>1, <2>2 DEF ProdLive
<1> QED
  BY <1>3, <1>4, <1>5 DEF OneWriter

-----------------------------------------------------------------------------
(* Steps of a box *)

\* What a box writes has the version it is migrating to or the one it found.
LEMMA BoxStepVersions ==
    ASSUME SInv, NEW r \in Runner, BoxStep(r), NEW s \in Symbol
    PROVE  \/ universe'[s].ver = universe[s].ver
           \/ /\ universe'[s].ver = mig[r] /\ mig[r] <= head[r]
              /\ \/ WriteSymbol(r) /\ mig[r] = Effective + 1
                 \/ VerifyHeal(r) /\ mig[r] = Effective
<1> USE DEF SInv, TInv, TypeOK, LibraryTypeOK, BoxTypeOK
<1>1. CASE UNCHANGED universe
  BY <1>1
<1>2. ASSUME NEW x \in Symbol, NEW g \in Frame,
             universe' = [universe EXCEPT ![x] = g],
             WriteSymbol(r), x \in todo[r], g = snap[r][x]
      PROVE  \/ universe'[s].ver = universe[s].ver
             \/ /\ universe'[s].ver = mig[r] /\ mig[r] <= head[r]
                /\ mig[r] = Effective + 1
  BY <1>2 DEF WriteSymbol, BoxProgress, ProgressOf
<1>3. ASSUME NEW x \in Symbol, NEW g \in Frame,
             universe' = [universe EXCEPT ![x] = g],
             VerifyProbe(r), g.ver = universe[x].ver
      PROVE  universe'[s].ver = universe[s].ver
  BY <1>3
<1>4. ASSUME NEW x \in Symbol, NEW g \in Frame,
             universe' = [universe EXCEPT ![x] = g],
             VerifyHeal(r), x \in item[r],
             g.ver = Canonical(snap[r][x].ver, head[r])
      PROVE  \/ universe'[s].ver = universe[s].ver
             \/ /\ universe'[s].ver = mig[r] /\ mig[r] <= head[r]
                /\ mig[r] = Effective
  <2>1. snap[r][x].ver = mig[r] /\ mig[r] <= head[r] /\ mig[r] = Effective
    BY <1>4 DEF VerifyHeal, BoxProgress, ProgressOf
  <2>2. g.ver = mig[r]
    BY <1>4, <2>1, ConstantsAssumption DEF Canonical, Version
  <2> QED
    BY <1>4, <2>1, <2>2
<1> QED
  BY <1>1, <1>2, <1>3, <1>4, BoxStepUniverse

LEMMA BoxStepKnown ==
    ASSUME SInv, NEW r \in Runner, BoxStep(r)
    PROVE  KnownVersions' /\ Covered'
<1>1. main' = main /\ main \in Nat /\ Effective \in Nat
      /\ \A q \in Runner : head[q] \in Nat /\ mig[q] \in Nat
      /\ \A s \in Symbol : universe[s].ver \in Nat
  <2>1. main' = main
    BY BoxStepFrame DEF SInv
  <2>2. main \in Nat /\ Effective \in Nat
    BY EffectiveType DEF SInv, TInv, TypeOK, LibraryTypeOK, Version
  <2>3. \A q \in Runner : head[q] \in Nat /\ mig[q] \in Nat
    BY DEF SInv, TInv, TypeOK, BoxTypeOK, Version
  <2>4. \A s \in Symbol : universe[s].ver \in Nat
    BY DEF SInv, TInv, TypeOK, LibraryTypeOK, Frame, Version
  <2> QED
    BY <2>1, <2>2, <2>3, <2>4
<1>2. head'[r] <= main
  <2>1. CASE Launch(r)
    <3>1. PICK h \in 1..main : head' = [head EXCEPT ![r] = h]
      BY <2>1 DEF Launch
    <3> QED
      BY <1>1, <3>1 DEF SInv, TInv, TypeOK, BoxTypeOK
  <2>2. CASE ~Launch(r)
    <3>1. head' \in {head, [head EXCEPT ![r] = 0]}
      BY <2>2 DEF BoxStep, Probe, LoadPending, ReadSymbol, StorageRaises,
         StartWrite, WriteSymbol, EndWrite, Stamp, VerifyProbe, VerifyHeal,
         NextMigration, Crash, Fail, Exit
    <3> QED
      BY <1>1, <3>1 DEF SInv, KnownVersions, TInv, TypeOK, BoxTypeOK
  <2> QED
    BY <2>1, <2>2
<1>3. \A q \in Runner : head'[q] <= main
  BY <1>2, BoxStepFrame DEF SInv, KnownVersions
<1>4. \A s \in Symbol : universe'[s].ver <= main
  BY <1>1, BoxStepVersions DEF SInv, KnownVersions
<1>5. Effective' <= main
  BY <1>1, BoxStepStamp, StampPart DEF SInv, KnownVersions, BoxProgress, ProgressOf, Stamp
<1>6. \A s \in Symbol : Effective' <= universe'[s].ver
  <2>1. CASE Effective' = Effective
    BY <1>1, <2>1, BoxStepVersions DEF SInv, Covered
  <2>2. CASE Stamp(r) /\ UNCHANGED universe /\ Effective' = mig[r]
    BY <1>1, <2>2 DEF Stamp, SInv, BoxProgress, ProgressOf
  <2> QED
    BY <2>1, <2>2, BoxStepStamp, StampPart
<1>7. \A p \in Producer : code'[p] <= main
  BY BoxStepFrame DEF SInv, KnownVersions, prodVars
<1> QED
  BY <1>1, <1>3, <1>4, <1>5, <1>6, <1>7 DEF KnownVersions, Covered

\* The other boxes: one that is live sees only a Launch, which writes nothing.
LEMMA BoxStepOtherProgress ==
    ASSUME SInv, NEW r \in Runner, BoxStep(r), NEW q \in Runner \ {r}
    PROVE  ProgressOf(q)'
<1>1. /\ pc'[q] = pc[q] /\ head'[q] = head[q] /\ mig'[q] = mig[q]
      /\ todo'[q] = todo[q] /\ snap'[q] = snap[q]
      /\ item'[q] = item[q] /\ failed'[q] = failed[q]
  BY BoxStepFrame DEF SInv
<1>2. CASE BoxLive(q)
  <2>1. ~BoxLive(r)
    BY <1>2 DEF SInv, OneWriter
  <2>2. Launch(r)
    BY <2>1 DEF BoxLive, BoxStep, Probe, LoadPending, ReadSymbol, StorageRaises,
       StartWrite, WriteSymbol, EndWrite, Stamp, VerifyProbe, VerifyHeal,
       NextMigration, Crash
  <2>3. UNCHANGED <<stamp, universe>>
    BY <2>2 DEF Launch, libVars
  <2> QED
    BY <1>1, <2>3 DEF SInv, BoxProgress, ProgressOf, Effective
<1>3. CASE ~BoxLive(q)
  BY <1>1, <1>3 DEF BoxLive, ProgressOf
<1> QED
  BY <1>2, <1>3

\* A box whose run ends, or that has not asked the mutex, has made no progress.
LEMMA IdleProgress ==
    ASSUME NEW r \in Runner, pc'[r] \in {"done", "idle", "probe", "load"}
    PROVE  ProgressOf(r)'
  BY DEF ProgressOf

LEMMA ExitProgress ==
    ASSUME TInv, NEW r \in Runner, Exit(r)
    PROVE  ProgressOf(r)'
<1>1. pc'[r] = "done"
  BY DEF Exit, TInv, TypeOK, BoxTypeOK
<1> QED
  BY <1>1, IdleProgress

\* The box that moves.
LEMMA BoxStepOwnProgress ==
    ASSUME SInv, NEW r \in Runner, BoxStep(r)
    PROVE  ProgressOf(r)'
<1> USE DEF SInv, TInv, TypeOK, BoxTypeOK, LibraryTypeOK
<1>1. ProgressOf(r) /\ Effective \in Nat /\ mig[r] \in Nat /\ head[r] \in Nat
  BY EffectiveType, ConstantsAssumption DEF BoxProgress, Version
<1>2. CASE Exit(r)
  BY <1>2, ExitProgress
<1>3. CASE Launch(r) \/ Probe(r)
  <2>1. pc'[r] \in {"done", "probe", "load"}
    BY <1>3 DEF Launch, Probe, Exit
  <2> QED
    BY <2>1, IdleProgress
<1>4. CASE LoadPending(r) /\ ~Exit(r)
  <2>1. /\ mig'[r] = Effective + 1 /\ pc'[r] = "read" /\ todo'[r] = Symbol
        /\ head'[r] = head[r] /\ head[r] > Effective /\ UNCHANGED stamp
    BY <1>4 DEF LoadPending, libVars
  <2> QED
    BY <1>1, <2>1 DEF ProgressOf, Effective
<1>5. CASE ReadSymbol(r) /\ ~Exit(r)
  <2>1. PICK x \in todo[r] :
          /\ snap' = [snap EXCEPT ![r][x] = [universe[x] EXCEPT !.ver = mig[r]]]
          /\ todo' = [todo EXCEPT ![r] = @ \ {x}]
          /\ UNCHANGED <<pc, head, mig, stamp>> /\ pc[r] = "read"
    BY <1>5 DEF ReadSymbol, Fail, libVars
  <2>2. snap'[r][x].ver = mig[r]
    BY <2>1, VersionedFrame
  <2>3. \A s \in Symbol \ {x} : snap'[r][s] = snap[r][s]
    BY <2>1
  <2>4. \A s \in Symbol : s \notin todo'[r] => snap'[r][s].ver = mig[r]
    BY <1>1, <2>1, <2>2, <2>3 DEF ProgressOf
  <2> QED
    BY <1>1, <2>1, <2>4 DEF ProgressOf, Effective
<1>6. CASE StartWrite(r)
  BY <1>1, <1>6 DEF StartWrite, ProgressOf, Effective, libVars
<1>7. CASE WriteSymbol(r)
  <2>1. UNCHANGED <<pc, head, mig, snap, stamp>> /\ pc[r] = "write"
    BY <1>7 DEF WriteSymbol
  <2>2. ASSUME NEW s \in Symbol, s \notin todo'[r], ~failed'[r]
        PROVE  universe'[s].ver = mig[r]
    <3>1. PICK x \in todo[r] :
            /\ \/ universe' = [universe EXCEPT ![x] = snap[r][x]]
                  /\ UNCHANGED failed
               \/ failed' = [failed EXCEPT ![r] = TRUE]
            /\ todo' = [todo EXCEPT ![r] = @ \ {x}]
      BY <1>7 DEF WriteSymbol
    <3>2. universe' = [universe EXCEPT ![x] = snap[r][x]] /\ ~failed[r]
      BY <2>2, <3>1
    <3>3. snap[r][x].ver = mig[r]
      BY <1>1, <2>1 DEF ProgressOf
    <3>4. CASE s = x
      BY <3>2, <3>3, <3>4
    <3>5. CASE s # x
      BY <1>1, <2>1, <2>2, <3>1, <3>2, <3>5 DEF ProgressOf
    <3> QED
      BY <3>4, <3>5
  <2> QED
    BY <1>1, <2>1, <2>2 DEF ProgressOf, Effective
<1>8. CASE EndWrite(r) /\ ~Exit(r)
  BY <1>1, <1>8 DEF EndWrite, Fail, ProgressOf, Effective, libVars
<1>9. CASE Stamp(r) /\ ~Exit(r)
  <2>1. pc'[r] = "verify" /\ mig'[r] = mig[r] /\ head'[r] = head[r]
        /\ stamp' = mig[r]
    BY <1>9 DEF Stamp, Fail
  <2>2. Effective' = mig[r]
    BY <2>1, ConstantsAssumption DEF Effective, NoStamp, Version
  <2> QED
    BY <1>1, <1>9, <2>1, <2>2 DEF Stamp, ProgressOf
<1>10. CASE VerifyProbe(r) /\ ~Exit(r)
  <2>1. PICK x \in todo[r] :
          /\ universe[x].ver = mig[r] /\ snap' = [snap EXCEPT ![r][x] = universe[x]]
          /\ item' = [item EXCEPT ![r] = {x}]
          /\ pc' = [pc EXCEPT ![r] = "heal"]
          /\ UNCHANGED <<head, mig, stamp>> /\ pc[r] = "verify"
    BY <1>10 DEF VerifyProbe, Fail
  <2> QED
    BY <1>1, <2>1 DEF ProgressOf, Effective
<1>11. CASE VerifyHeal(r) /\ ~Exit(r)
  <2>1. /\ pc'[r] = "verify" /\ pc[r] = "heal"
        /\ UNCHANGED <<head, mig, stamp>>
    BY <1>11 DEF VerifyHeal, Fail
  <2> QED
    BY <1>1, <2>1 DEF ProgressOf, Effective
<1>12. CASE NextMigration(r) /\ ~Exit(r)
  <2>1. /\ mig'[r] = mig[r] + 1 /\ mig[r] < head[r] /\ head'[r] = head[r]
        /\ pc'[r] = "read" /\ pc[r] = "verify" /\ todo'[r] = Symbol
        /\ UNCHANGED stamp
    BY <1>12 DEF NextMigration, libVars
  <2> QED
    BY <1>1, <2>1 DEF ProgressOf, Effective
<1> QED
  BY <1>2, <1>3, <1>4, <1>5, <1>6, <1>7, <1>8, <1>9, <1>10, <1>11, <1>12
     DEF BoxStep, StorageRaises, Crash, Fail

LEMMA BoxStepProgress ==
    ASSUME SInv, NEW r \in Runner, BoxStep(r)
    PROVE  BoxProgress'
  BY BoxStepOtherProgress, BoxStepOwnProgress DEF BoxProgress

\* While a producer is at work a box writes nothing.
LEMMA BoxStepProducers ==
    ASSUME SInv, NEW r \in Runner, BoxStep(r)
    PROVE  ProducerFits'
<1>1. UNCHANGED prodVars
  BY BoxStepFrame DEF SInv
<1>2. ASSUME NEW p \in Producer, ProdLive(p)
      PROVE  UNCHANGED <<stamp, universe>>
  <2>1. ~PastProbe(r)
    BY <1>2 DEF SInv, OneWriter
  <2> QED
    BY <2>1 DEF PastProbe, BoxLive, BoxStep, Launch, Probe, LoadPending, ReadSymbol,
       StorageRaises, StartWrite, WriteSymbol, EndWrite, Stamp, VerifyProbe,
       VerifyHeal, NextMigration, Crash, libVars
<1>3. ASSUME NEW p \in Producer, ProdLive(p)'
      PROVE  /\ Effective' <= code'[p]
             /\ \A s \in Symbol : universe'[s].ver <= code'[p]
             /\ ppc'[p] \in {"read", "write"} => code'[p] = Effective'
  <2>1. ProdLive(p) /\ ppc'[p] = ppc[p] /\ code'[p] = code[p]
    BY <1>1, <1>3 DEF ProdLive, prodVars
  <2>2. UNCHANGED <<stamp, universe>>
    BY <1>2, <2>1
  <2> QED
    BY <2>1, <2>2 DEF SInv, ProducerFits, Effective
<1> QED
  BY <1>3 DEF ProducerFits, ProdLive

-----------------------------------------------------------------------------
(* Steps of a producer *)

\* A producer that writes, or that starts, has no box past its probe beside
\* it, and it knows every column that is on disk.
LEMMA ProducerStepSymbols ==
    ASSUME SInv, NEW p \in Producer, ProducerStep(p), NEW s \in Symbol
    PROVE  \/ universe'[s].ver = universe[s].ver
           \/ /\ ProdLive(p) /\ universe'[s].ver = code[p]
              /\ universe[s].ver <= code[p] /\ Effective <= code[p]
<1>1. WriteChunk(p) \/ BackfillSymbol(p) => ProdLive(p)
  BY DEF WriteChunk, BackfillSymbol, ProdLive
<1> QED
  BY <1>1, ProducerStepUniverse DEF SInv, ProducerFits

LEMMA ProducerStepCode ==
    ASSUME SInv, NEW p \in Producer, ProducerStep(p), NEW q \in Producer
    PROVE  /\ code'[q] <= main
           /\ ProdLive(q)' => \/ ProdLive(q) /\ code'[q] = code[q]
                              \/ code'[q] = main
<1>1. CASE q # p
  BY <1>1, ProducerStepFrame DEF SInv, KnownVersions, ProdLive
<1>2. CASE q = p
  <2>1. \/ code' = code /\ (ProdLive(p)' => ProdLive(p))
        \/ code' = [code EXCEPT ![p] = main]
        \/ code' = [code EXCEPT ![p] = 0] /\ ppc'[p] = "done"
    <3>1. CASE StartAppend(p)
      BY <3>1 DEF StartAppend
    <3>2. CASE StartBackfill(p)
      BY <3>2 DEF StartBackfill, Finish, SInv, TInv, TypeOK, ProducerTypeOK
    <3>3. CASE ~StartAppend(p) /\ ~StartBackfill(p)
      BY <3>3 DEF ProdLive, SInv, TInv, TypeOK, ProducerTypeOK, ProducerStep,
         AssertSchema, ReadChunk, WriteChunk, BackfillSymbol, ProducerDies,
         Finish
    <3> QED
      BY <3>1, <3>2, <3>3
  <2> QED
    BY <1>2, <2>1 DEF SInv, KnownVersions, ProdLive, TInv, TypeOK,
       ProducerTypeOK, LibraryTypeOK, Version
<1> QED
  BY <1>1, <1>2

LEMMA ProducerStepKnown ==
    ASSUME SInv, NEW p \in Producer, ProducerStep(p)
    PROVE  KnownVersions' /\ Covered'
<1>1. UNCHANGED <<main, stamp, boxVars>>
  BY ProducerStepFrame DEF SInv
<1>2. Effective' = Effective /\ head' = head
  BY <1>1 DEF Effective, boxVars
<1>3. code[p] <= main
  BY DEF SInv, KnownVersions
<1>4. main \in Nat /\ Effective \in Nat /\ code[p] \in Nat
      /\ \A s \in Symbol : universe[s].ver \in Nat
  BY EffectiveType
     DEF SInv, TInv, TypeOK, LibraryTypeOK, ProducerTypeOK, Frame, Version
<1>5. ASSUME NEW s \in Symbol
      PROVE  universe'[s].ver <= main /\ Effective <= universe'[s].ver
  BY <1>3, <1>4, ProducerStepSymbols
     DEF SInv, KnownVersions, Covered
<1> QED
  BY <1>1, <1>2, <1>5, ProducerStepCode
     DEF SInv, KnownVersions, Covered

\* A box past its probe has no producer beside it: what it relies on stays.
LEMMA ProducerStepProgress ==
    ASSUME SInv, NEW p \in Producer, ProducerStep(p)
    PROVE  BoxProgress'
<1>1. UNCHANGED <<stamp, boxVars>>
  BY ProducerStepFrame DEF SInv
<1>2. ASSUME NEW r \in Runner PROVE ProgressOf(r)'
  <2>1. CASE PastProbe(r)
    <3>1. ~ProdLive(p)
      BY <2>1 DEF SInv, OneWriter
    <3>2. UNCHANGED universe
      BY <3>1 DEF ProdLive, ProducerStep, StartAppend, AssertSchema,
         ReadChunk, WriteChunk, StartBackfill, BackfillSymbol, ProducerDies,
         libVars
    <3> QED
      BY <1>1, <3>2 DEF SInv, BoxProgress, ProgressOf, Effective, boxVars
  <2>2. CASE ~PastProbe(r)
    BY <1>1, <2>2 DEF PastProbe, BoxLive, ProgressOf, boxVars
  <2> QED
    BY <2>1, <2>2
<1> QED
  BY <1>2 DEF BoxProgress

LEMMA ProducerStepProducers ==
    ASSUME SInv, NEW p \in Producer, ProducerStep(p)
    PROVE  ProducerFits'
<1> SUFFICES ASSUME NEW q \in Producer
             PROVE  /\ ProdLive(q)' =>
                         /\ Effective <= code'[q]
                         /\ \A s \in Symbol : universe'[s].ver <= code'[q]
                    /\ ppc'[q] \in {"read", "write"} => code'[q] = Effective
  <2>1. Effective' = Effective
    BY ProducerStepFrame DEF SInv, Effective
  <2> QED
    BY <2>1 DEF ProducerFits
<1>1. ASSUME ProdLive(q)'
      PROVE  Effective <= code'[q]
             /\ \A s \in Symbol : universe'[s].ver <= code'[q]
  <2>1. CASE code'[q] = main
    BY <2>1, ProducerStepKnown, ProducerStepFrame
       DEF SInv, KnownVersions, Effective
  <2>2. CASE ProdLive(q) /\ code'[q] = code[q]
    <3>1. ASSUME NEW s \in Symbol, universe'[s].ver # universe[s].ver
          PROVE  q = p
      BY <2>2, <3>1, ProducerStepSymbols DEF SInv, OneWriter
    <3>2. ASSUME NEW s \in Symbol PROVE universe'[s].ver <= code[q]
      <4>1. CASE universe'[s].ver = universe[s].ver
        BY <2>2, <4>1 DEF SInv, ProducerFits
      <4>2. CASE universe'[s].ver # universe[s].ver
        <5>1. universe'[s].ver = code[q] /\ code[q] \in Nat
          BY <3>1, <4>2, ProducerStepSymbols
             DEF SInv, TInv, TypeOK, ProducerTypeOK, Version
        <5> QED
          BY <5>1
      <4> QED
        BY <4>1, <4>2
    <3> QED
      BY <2>2, <3>2 DEF SInv, ProducerFits
  <2> QED
    BY <1>1, <2>1, <2>2, ProducerStepCode
<1>2. ASSUME ppc'[q] \in {"read", "write"} PROVE code'[q] = Effective
  <2>1. CASE q # p
    BY <1>2, <2>1, ProducerStepFrame DEF SInv, ProducerFits
  <2>2. CASE q = p
    BY <1>2, <2>2 DEF SInv, ProducerFits, TInv, TypeOK, ProducerTypeOK,
       ProducerStep, StartAppend, AssertSchema, ReadChunk, WriteChunk,
       StartBackfill, BackfillSymbol, ProducerDies, Finish
  <2> QED
    BY <2>1, <2>2
<1> QED
  BY <1>1, <1>2

-----------------------------------------------------------------------------
(* Every step *)

LEMMA NextSInv ==
    ASSUME Separate', SInv, [Next]_vars
    PROVE  SInv'
<1>1. TInv'
  BY NextTInv DEF SInv
<1>2. CASE Merge
  <2>1. UNCHANGED <<stamp, universe, marker, boxVars, prodVars>>
        /\ main' = main + 1 /\ main \in Nat
    BY <1>2 DEF Merge, libVars, SInv, TInv, TypeOK, LibraryTypeOK, Version
  <2>2. Effective' = Effective /\ Effective \in Nat
    BY <2>1, EffectiveType
       DEF Effective, SInv, TInv, TypeOK, Version
  <2>3. OneWriter' /\ BoxProgress' /\ ProducerFits'
    BY <2>1, <2>2 DEF SInv, OneWriter, BoxLive, ProdLive, PastProbe,
       BoxProgress, ProgressOf, ProducerFits, boxVars, prodVars
  <2>4. MarkersBelowStamp' /\ Covered'
    BY <2>1, <2>2 DEF SInv, MarkersBelowStamp, Covered
  <2>5. KnownVersions'
    BY <2>1, <2>2 DEF SInv, TInv, TypeOK, LibraryTypeOK, BoxTypeOK,
       ProducerTypeOK, Frame, Version, KnownVersions, boxVars, prodVars
  <2> QED
    BY <1>1, <2>3, <2>4, <2>5 DEF SInv
<1>3. ASSUME NEW r \in Runner, BoxStep(r) PROVE SInv'
  BY <1>1, <1>3, BoxStepOneWriter, BoxStepKnown, BoxStepProgress,
     BoxStepProducers, BoxStepMarkers, StampPart DEF SInv
<1>4. ASSUME NEW p \in Producer, ProducerStep(p) PROVE SInv'
  <2>1. MarkersBelowStamp'
    BY <1>4, ProducerStepFrame DEF SInv, MarkersBelowStamp, Effective
  <2> QED
    BY <1>1, <1>4, <2>1, ProducerStepOneWriter, ProducerStepKnown,
       ProducerStepProgress, ProducerStepProducers DEF SInv
<1>5. CASE UNCHANGED vars
  <2>1. UNCHANGED <<main, stamp, universe, marker, boxVars, prodVars>>
    BY <1>5 DEF vars, libVars
  <2>2. Effective' = Effective
    BY <2>1 DEF Effective
  <2>3. OneWriter' /\ KnownVersions' /\ BoxProgress' /\ ProducerFits'
    BY <2>1, <2>2 DEF SInv, OneWriter, BoxLive, ProdLive, PastProbe,
       KnownVersions, BoxProgress, ProgressOf, ProducerFits, boxVars, prodVars
  <2>4. MarkersBelowStamp' /\ Covered'
    BY <2>1, <2>2 DEF SInv, MarkersBelowStamp, Covered
  <2> QED
    BY <1>1, <2>3, <2>4 DEF SInv
<1> QED
  BY <1>2, <1>3, <1>4, <1>5 DEF Next

LEMMA StaysSeparate == [Next]_vars /\ Separate' => Separate
  BY LapsesGrow DEF Separate

LEMMA SchemaInvariant == Spec => []SchemaInv
<1>1. Init => SchemaInv
  BY InitSInv DEF SchemaInv, SInv
<1>2. SchemaInv /\ [Next]_vars => SchemaInv'
  BY NextTInv, StaysSeparate, NextSInv DEF SchemaInv
<1> QED
  BY <1>1, <1>2, PTL DEF Spec

-----------------------------------------------------------------------------
(* The theorems *)

\* The stamp never promises columns a symbol lacks, whatever failed and
\* wherever, up to the step that brings two writers together.
THEOREM StampCovered == Spec => []NoSymbolBelowStamp
<1>1. SchemaInv => NoSymbolBelowStamp
  BY DEF SchemaInv, SInv, Covered, NoSymbolBelowStamp
<1> QED
  BY <1>1, SchemaInvariant, PTL

\* A producer past the assert: its code is the stamp's, and so is every frame,
\* which is not below the stamp and not above what the code knows.
LEMMA AssertedFits ==
    ASSUME SInv, NEW p \in Producer, ppc[p] \in {"read", "write"},
           NEW s \in Symbol
    PROVE  universe[s].ver = Effective /\ code[p] = Effective
<1>1. code[p] = Effective /\ universe[s].ver <= code[p]
  BY DEF SInv, ProducerFits, ProdLive
<1>2. Effective <= universe[s].ver
  BY DEF SInv, Covered
<1>3. universe[s].ver \in Nat /\ code[p] \in Nat
  BY DEF SInv, TInv, TypeOK, LibraryTypeOK, ProducerTypeOK, Frame, Version
<1> QED
  BY <1>1, <1>2, <1>3

\* A daily_append past its schema assert meets only frames of its own columns,
\* to the end of its chunk loop, up to the step that brings writers together.
THEOREM AppendsFit == Spec => []AcceptedAppendFits
<1>1. SchemaInv => AcceptedAppendFits
  BY AssertedFits DEF SchemaInv, AcceptedAppendFits
<1> QED
  BY <1>1, SchemaInvariant, PTL

\* A head reported finished is on the stamp and on every symbol, up to the
\* step that brings writers together.
THEOREM SuccessIsReal == Spec => []SuccessMeansMigrated
<1>1. ASSUME SchemaInv PROVE SuccessMeansMigrated
  <2> SUFFICES ASSUME Separate, NEW h \in Version,
                      marker[h] \in {"success", "noop_up_to_date"},
                      NEW s \in Symbol
               PROVE  h <= Effective /\ h <= universe[s].ver
    BY ConstantsAssumption DEF SuccessMeansMigrated
  <2>1. SInv
    BY <1>1 DEF SchemaInv
  <2>2. h <= Effective
    BY <2>1 DEF SInv, MarkersBelowStamp
  <2>3. Effective <= universe[s].ver
    BY <2>1 DEF SInv, Covered
  <2>4. h \in Nat /\ Effective \in Nat /\ universe[s].ver \in Nat
    BY <2>1, EffectiveType
       DEF SInv, TInv, TypeOK, LibraryTypeOK, Frame, Version
  <2> QED
    BY <2>2, <2>3, <2>4
<1> QED
  BY <1>1, SchemaInvariant, PTL
=============================================================================
