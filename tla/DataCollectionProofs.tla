------------------------- MODULE DataCollectionProofs -------------------------
(***************************************************************************)
(* The collection and its consumer, for every number of units, workloads,  *)
(* boxes and outcomes and every cap and lag.                               *)
(*                                                                         *)
(* The argument for what an ok grade is worth: unless a box escaped the    *)
(* collection, the only box at work is the one it polls (OnlyCurWorks), so *)
(* the run in progress of a unit is its last one (RunIsLast), and the      *)
(* outputs of a unit are those of its newest run that wrote any            *)
(* (OutputsAreNewest).  A unit graded ok, be it through no-ops, has an ok  *)
(* run and after it only runs that wrote nothing.                          *)
(*                                                                         *)
(* The argument for the finality of a refusal stands where it is used.     *)
(***************************************************************************)
EXTENDS CollectionBudget, SequenceTheorems, FiniteSetTheorems,
        WellFoundedInduction, TLAPS

RunRec == [status : RunStatus, fresh : BOOLEAN]
BoxRec == [state : BoxState, work : Workload \cup {0}, next : Nat \ {0},
           run : Nat, bad : BOOLEAN, age : 0..Cap]

-----------------------------------------------------------------------------
(* Greatest, a CHOOSE, on bounded sets of numbers *)

LEMMA GreatestExists ==
    ASSUME NEW n \in Nat, NEW S \in SUBSET (0..n), S # {}
    PROVE  Greatest(S) \in S /\ \A m \in S : m <= Greatest(S)
<1> DEFINE T == {k \in Nat : n - k \in S}
           R == OpToRel(<, Nat)
<1>1. T \subseteq Nat /\ T # {}
  <2>1. PICK i \in S : TRUE
    OBVIOUS
  <2>2. n - i \in T
    BY <2>1
  <2> QED
    BY <2>2
<1>2. IsWellFoundedOn(R, Nat)
  BY NatLessThanWellFounded
<1>3. \A x, y \in Nat : x < y => <<x, y>> \in R
  BY DEF OpToRel
<1> HIDE DEF R, T
<1>4. PICK x \in T : \A y \in T : ~(<<y, x>> \in R)
  BY <1>1, <1>2, WFMin
<1>5. \A y \in T : x <= y
  <2> SUFFICES ASSUME NEW y \in T, y < x PROVE FALSE
    BY <1>1
  <2>1. <<y, x>> \in R
    BY <1>1, <1>3
  <2> QED
    BY <1>4, <2>1
<1>6. n - x \in S
  BY DEF T
<1>7. ASSUME NEW m \in S PROVE m <= n - x
  <2>1. n - m \in T
    BY DEF T
  <2> QED
    BY <1>1, <1>5, <2>1
<1> QED
  BY <1>6, <1>7 DEF Greatest

\* Some workload writes a unit that is waited for, so the budget is a number.
LEMMA LastWaitedType == LastWaited \in Workload /\ LastWaited \in Nat \ {0}
<1> DEFINE S == {w \in Workload :
                   \E i \in DOMAIN UnitsOf[w] : UnitsOf[w][i] \in Waited}
<1>1. Len(UnitsOf) \in Nat /\ Workload = 1..Len(UnitsOf)
  BY ConstantsAssumption, LenProperties DEF Workload
<1>2. S \in SUBSET (0..Len(UnitsOf)) /\ S \subseteq Workload /\ S # {}
  BY <1>1, ConstantsAssumption DEF Workload
<1>3. LastWaited = Greatest(S)
  BY DEF LastWaited
<1> HIDE DEF S
<1>4. LastWaited \in S
  BY <1>1, <1>2, <1>3, GreatestExists
<1> QED
  BY <1>1, <1>2, <1>4

LEMMA MaxPollsType == MaxPolls \in Nat
<1>1. \A i, j \in Nat : i * j \in Nat
  OBVIOUS
<1>2. LastWaited * Cap \in Nat
  BY <1>1, LastWaitedType, ConstantsAssumption
<1> QED
  BY <1>2, ConstantsAssumption DEF MaxPolls

-----------------------------------------------------------------------------
(* Type correctness *)

\* A box at work stands in the unit list of its workload, and the run it is
\* in is one of that unit's.
BoxFits ==
    \A b \in Box : Working(b) =>
        /\ box[b].work \in Workload
        /\ box[b].next \in 1..(Len(Units(b)) + 1)
        /\ box[b].run # 0 => /\ box[b].next <= Len(Units(b))
                             /\ box[b].run \in 1..Len(runs[UnitAt(b)])

\* The collection has a box exactly while it polls one.
CurFits == IF ppc = "poll" THEN cur \in Box ELSE cur = NoBox

\* Whoever waits has a poll left.
WaitFits == cpc = "waiting" => polls < MaxPolls

TInv == TypeOK /\ BoxFits /\ CurFits /\ WaitFits

LEMMA GoneType == Gone \in BoxRec /\ Gone.state = "gone"
  BY ConstantsAssumption DEF Gone, BoxRec, BoxState

LEMMA InitTInv == Init => TInv
<1> SUFFICES ASSUME Init PROVE TInv
  OBVIOUS
<1>1. Len(UnitsOf) \in Nat /\ Workload = 1..Len(UnitsOf) /\ 1 \in Workload
  BY ConstantsAssumption, LenProperties, EmptySeq DEF Workload
<1>2. ASSUME NEW u \in Unit
      PROVE  /\ runs[u] \in Seq(RunRec)
             /\ runs[u] = <<>> \/ runs[u][1].status \in {"ok", "failed"}
  <2>1. CASE runs[u] = <<>>
    BY <2>1, EmptySeq
  <2>2. CASE runs[u] # <<>>
    <3>1. PICK s \in Earlier : runs[u] = <<[status |-> s, fresh |-> FALSE]>>
      BY <2>2 DEF Init, EarlierRun
    <3>2. [status |-> s, fresh |-> FALSE] \in RunRec /\ s \in {"ok", "failed"}
      BY ConstantsAssumption DEF RunRec, RunStatus, Outcome
    <3> QED
      BY <3>1, <3>2
  <2> QED
    BY <2>1, <2>2
<1>3. runs \in [Unit -> Seq(RunRec)]
  BY <1>2 DEF Init
<1>4. published \in [Unit -> {"nothing", "ok", "short", "failed"}]
  BY <1>2 DEF Init
<1>5. box \in [Box -> BoxRec]
  BY GoneType DEF Init
<1>6. TypeOK
  <2>1. polls \in 0..MaxPolls /\ attempts \in 0..1
    BY MaxPollsType DEF Init
  <2>2. /\ ppc \in ProducerPc /\ cpc \in ConsumerPc
        /\ item \in Workload /\ cur \in Box \cup {NoBox}
        /\ stray \subseteq {"abandoned", "unanswered"}
    BY <1>1 DEF Init, ProducerPc, ConsumerPc
  <2> QED
    BY <1>3, <1>4, <1>5, <2>1, <2>2 DEF TypeOK, RunRec, BoxRec
<1>7. BoxFits /\ CurFits /\ WaitFits
  BY GoneType DEF Init, BoxFits, CurFits, WaitFits, Working
<1> QED
  BY <1>6, <1>7 DEF TInv

\* A box that is at work after a step was at work before it, in the same run
\* of the same unit.
CarriesOn(b) ==
    Working(b)' => /\ Working(b)
                   /\ box'[b].work = box[b].work
                   /\ box'[b].next = box[b].next
                   /\ box'[b].run = box[b].run

LEMMA CarryOnFits ==
    ASSUME BoxFits, UNCHANGED runs, \A b \in Box : CarriesOn(b)
    PROVE  BoxFits'
  BY DEF BoxFits, CarriesOn, Units, UnitAt

LEMMA StartBoxStep ==
    ASSUME TInv, StartBox, UNCHANGED runs
    PROVE  /\ NewBox \in Box /\ box' \in [Box -> BoxRec] /\ BoxFits'
           /\ box'[NewBox].run = 0 /\ box'[NewBox].work = item /\ box' # box
           /\ \A b \in Box \ {NewBox} : box'[b] = box[b]
<1>1. NewBox \in Box /\ box[NewBox] = Gone
  BY DEF StartBox, NewBox
<1>2. /\ box \in [Box -> BoxRec] /\ item \in Workload
      /\ box' = [box EXCEPT ![NewBox] =
                   [Gone EXCEPT !.state = "working", !.work = item]]
  BY <1>1 DEF StartBox, TInv, TypeOK, BoxRec
<1>3. [Gone EXCEPT !.state = "working", !.work = item] \in BoxRec
  BY <1>2, GoneType DEF BoxRec, BoxState
<1>4. box' \in [Box -> BoxRec]
  BY <1>1, <1>2, <1>3
<1>5. /\ box'[NewBox].work = item /\ box'[NewBox].next = 1
      /\ box'[NewBox].run = 0 /\ box'[NewBox].state = "working"
      /\ \A b \in Box \ {NewBox} : box'[b] = box[b]
  BY <1>1, <1>2 DEF Gone
<1>8. box' # box
  BY <1>1, <1>5, GoneType
<1>6. Len(UnitsOf[item]) \in Nat
  BY <1>2, ConstantsAssumption, LenProperties, ElementOfSeq DEF Workload
<1>7. BoxFits'
  BY <1>1, <1>2, <1>5, <1>6 DEF TInv, BoxFits, Working, Units, UnitAt
<1> QED
  BY <1>1, <1>4, <1>5, <1>7, <1>8

LEMMA AbandonStep ==
    ASSUME TInv, Abandon
    PROVE  /\ box' \in [Box -> BoxRec]
           /\ \A b \in Box : CarriesOn(b)
           /\ stray' \subseteq {"abandoned", "unanswered"}
           /\ stray' = {} => stray = {} /\ ~(cur \in Box /\ Working(cur))
<1>1. box \in [Box -> BoxRec] /\ stray \subseteq {"abandoned", "unanswered"}
  BY DEF TInv, TypeOK, BoxRec
<1>2. box' = box \/ (cur \in Box /\ box' = [box EXCEPT ![cur] = Gone])
  BY DEF Abandon, Released
<1>3. box' \in [Box -> BoxRec]
  BY <1>1, <1>2, GoneType
<1>4. \A b \in Box : box'[b] = box[b] \/ box'[b].state = "gone"
  BY <1>1, <1>2, GoneType
<1>5. \A b \in Box : CarriesOn(b)
  BY <1>4 DEF CarriesOn, Working
<1> QED
  BY <1>1, <1>3, <1>5 DEF Abandon

LEMMA EndedStep ==
    ASSUME TInv, NEW b \in Box, NEW s \in {"exited", "died"},
           box' = Ended(b, s)
    PROVE  /\ box' \in [Box -> BoxRec]
           /\ \A c \in Box : CarriesOn(c)
<1>1. box \in [Box -> BoxRec]
  BY DEF TInv, TypeOK, BoxRec
<1>2. PICK g \in BoxRec : g.state # "working" /\ box' = [box EXCEPT ![b] = g]
  <2>1. [box[b] EXCEPT !.state = s] \in BoxRec
        /\ [box[b] EXCEPT !.state = s].state = s
    BY <1>1 DEF BoxRec, BoxState
  <2>2. CASE b = cur
    BY <2>1, <2>2 DEF Ended
  <2>3. CASE b # cur
    BY <2>3, GoneType DEF Ended
  <2> QED
    BY <2>2, <2>3
<1> QED
  BY <1>1, <1>2 DEF CarriesOn, Working

\* The unit a box is at, and its runs.
LEMMA UnitAtType ==
    ASSUME TInv, NEW b \in Box, Working(b), box[b].next <= Len(Units(b))
    PROVE  /\ UnitAt(b) \in Unit /\ runs[UnitAt(b)] \in Seq(RunRec)
           /\ Len(runs[UnitAt(b)]) \in Nat /\ Len(Units(b)) \in Nat
<1>1. Units(b) \in Seq(Unit)
  BY ConstantsAssumption, ElementOfSeq, LenProperties
     DEF TInv, BoxFits, Units, Workload
<1>2. box[b].next \in 1..Len(Units(b)) /\ Len(Units(b)) \in Nat
  BY <1>1, LenProperties DEF TInv, BoxFits
<1>3. UnitAt(b) \in Unit
  BY <1>1, <1>2, ElementOfSeq DEF UnitAt
<1>4. runs[UnitAt(b)] \in Seq(RunRec)
  BY <1>3 DEF TInv, TypeOK, RunRec
<1> QED
  BY <1>2, <1>3, <1>4, LenProperties

LEMMA StartUnitStep ==
    ASSUME TInv, NEW b \in Box, StartUnit(b)
    PROVE  LET u == UnitAt(b)
               n == Len(runs[u]) + 1
               r == [status |-> "unfiled", fresh |-> TRUE]
           IN  /\ u \in Unit /\ runs[u] \in Seq(RunRec) /\ r \in RunRec
               /\ runs' = [runs EXCEPT ![u] = Append(runs[u], r)]
               /\ runs' \in [Unit -> Seq(RunRec)]
               /\ box' \in [Box -> BoxRec] /\ BoxFits'
               /\ \A c \in Box \ {b} : box'[c] = box[c]
               /\ Working(b) /\ UnitAt(b)' = u /\ box'[b].run = n
<1> DEFINE u == UnitAt(b)
           n == Len(runs[u]) + 1
           r == [status |-> "unfiled", fresh |-> TRUE]
<1>1. Working(b) /\ box[b].next <= Len(Units(b))
  BY DEF StartUnit
<1>2. u \in Unit /\ runs[u] \in Seq(RunRec) /\ Len(runs[u]) \in Nat
      /\ Len(Units(b)) \in Nat
  BY <1>1, UnitAtType
<1>3. r \in RunRec
  BY DEF RunRec, RunStatus
<1>4. runs \in [Unit -> Seq(RunRec)] /\ box \in [Box -> BoxRec]
  BY DEF TInv, TypeOK, RunRec, BoxRec
<1>5. runs' = [runs EXCEPT ![u] = Append(runs[u], r)]
  BY DEF StartUnit
<1>6. Append(runs[u], r) \in Seq(RunRec) /\ Len(Append(runs[u], r)) = n
  BY <1>2, <1>3, AppendProperties
<1>7. runs' \in [Unit -> Seq(RunRec)]
  BY <1>4, <1>5, <1>6
<1>8. box' = [box EXCEPT ![b].run = n]
  BY DEF StartUnit
<1>9. /\ box' \in [Box -> BoxRec] /\ box'[b].run = n
      /\ box'[b].state = box[b].state /\ box'[b].work = box[b].work
      /\ box'[b].next = box[b].next
      /\ \A c \in Box \ {b} : box'[c] = box[c]
  <2> DEFINE g == [box[b] EXCEPT !.run = n]
  <2>1. n \in Nat /\ box[b] \in BoxRec
    BY <1>2, <1>4
  <2>2. /\ g \in BoxRec /\ g.run = n /\ g.work = box[b].work
        /\ g.state = box[b].state /\ g.next = box[b].next
    BY <2>1 DEF BoxRec
  <2>3. box' = [box EXCEPT ![b] = g]
    BY <1>8
  <2> HIDE DEF g
  <2> QED
    BY <1>4, <2>2, <2>3
<1>10. UnitAt(b)' = u
  BY <1>9 DEF UnitAt, Units
<1>11. \A x \in Unit : Len(runs'[x]) = IF x = u THEN n ELSE Len(runs[x])
  BY <1>2, <1>4, <1>5, <1>6
<1>12. ASSUME NEW c \in Box, Working(c)'
       PROVE  /\ box'[c].work \in Workload
              /\ box'[c].next \in 1..(Len(Units(c)') + 1)
              /\ box'[c].run # 0 =>
                    /\ box'[c].next <= Len(Units(c)')
                    /\ box'[c].run \in 1..Len(runs'[UnitAt(c)'])
  <2>1. CASE c = b
    <3>1. Units(b)' = Units(b)
      BY <1>9 DEF Units
    <3>2. n \in 1..Len(runs'[u])
      BY <1>2, <1>11
    <3> QED
      BY <1>1, <1>9, <1>10, <2>1, <3>1, <3>2 DEF TInv, BoxFits
  <2>2. CASE c # b
    <3>1. /\ Working(c) /\ box'[c] = box[c]
          /\ Units(c)' = Units(c) /\ UnitAt(c)' = UnitAt(c)
      BY <1>9, <1>12, <2>2 DEF Working, Units, UnitAt
    <3>2. CASE box[c].run = 0
      BY <3>1, <3>2 DEF TInv, BoxFits
    <3>3. CASE box[c].run # 0
      <4>1. box[c].next <= Len(Units(c)) /\ box[c].run \in 1..Len(runs[UnitAt(c)])
        BY <3>1, <3>3 DEF TInv, BoxFits
      <4>2. UnitAt(c) \in Unit /\ Len(runs[UnitAt(c)]) \in Nat
        BY <3>1, <4>1, UnitAtType
      <4>3. box[c].run \in 1..Len(runs'[UnitAt(c)])
        BY <1>2, <1>11, <4>1, <4>2
      <4> QED
        BY <3>1, <4>1, <4>3 DEF TInv, BoxFits
    <3> QED
      BY <3>2, <3>3
  <2> QED
    BY <2>1, <2>2
<1>13. BoxFits'
  BY <1>12 DEF BoxFits
<1> QED
  BY <1>1, <1>2, <1>3, <1>5, <1>7, <1>9, <1>10, <1>13

\* What FinishUnit does to the runs of the unit, its outputs and its box.
LEMMA FinishUnitStep ==
    ASSUME TInv, NEW b \in Box, FinishUnit(b)
    PROVE  \E s \in Outcome :
             LET u == UnitAt(b)
                 n == box[b].run
             IN  /\ u \in Unit /\ n \in 1..Len(runs[u]) /\ n # 0 /\ Working(b)
                 /\ runs' \in [Unit -> Seq(RunRec)]
                 /\ \A x \in Unit : Len(runs'[x]) = Len(runs[x])
                 /\ \A x \in Unit \ {u} : runs'[x] = runs[x]
                 /\ \A j \in 1..Len(runs[u]) : runs'[u][j].status =
                        IF j = n THEN s ELSE runs[u][j].status
                 /\ \A j \in 1..Len(runs[u]) : runs'[u][j].fresh = runs[u][j].fresh
                 /\ published' = IF s \in {"ok", "short", "failed"}
                              THEN [published EXCEPT ![u] = s] ELSE published
                 /\ box' \in [Box -> BoxRec] /\ box'[b].run = 0
                 /\ box'[b].work = box[b].work /\ box'[b].state = box[b].state
                 /\ box'[b].next = box[b].next + 1
                 /\ \A c \in Box \ {b} : box'[c] = box[c]
<1> DEFINE u == UnitAt(b)
           n == box[b].run
<1>1. Working(b) /\ n # 0 /\ box[b].next <= Len(Units(b))
      /\ n \in 1..Len(runs[u])
  BY DEF FinishUnit, TInv, BoxFits
<1>2. u \in Unit /\ runs[u] \in Seq(RunRec) /\ Len(runs[u]) \in Nat
  BY <1>1, UnitAtType
<1>3. /\ runs \in [Unit -> Seq(RunRec)] /\ box \in [Box -> BoxRec]
      /\ box[b].next \in Nat \ {0}
  BY DEF TInv, TypeOK, RunRec, BoxRec
<1>4. PICK s \in Outcome :
        /\ runs' = [runs EXCEPT ![u][n].status = s]
        /\ published' = IF s \in {"ok", "short", "failed"}
                          THEN [published EXCEPT ![u] = s] ELSE published
        /\ box' = [box EXCEPT ![b].run = 0, ![b].next = @ + 1,
                              ![b].bad = @ \/ s = "failed"]
  BY ConstantsAssumption DEF FinishUnit
<1>5. runs[u][n] \in RunRec
  BY <1>1, <1>2, ElementOfSeq
<1> DEFINE e == [runs[u][n] EXCEPT !.status = s]
           q == [runs[u] EXCEPT ![n] = e]
<1>6. e \in RunRec /\ e.status = s /\ e.fresh = runs[u][n].fresh
  BY <1>5 DEF RunRec, RunStatus
<1>7. runs' = [runs EXCEPT ![u] = q]
  BY <1>4
<1> HIDE DEF e
<1>8. q \in Seq(RunRec) /\ Len(q) = Len(runs[u])
      /\ \A j \in 1..Len(runs[u]) : q[j] = IF j = n THEN e ELSE runs[u][j]
  BY <1>1, <1>2, <1>6, ExceptSeq
<1> HIDE DEF q
<1>9. runs' \in [Unit -> Seq(RunRec)] /\ runs'[u] = q
      /\ \A x \in Unit \ {u} : runs'[x] = runs[x]
  BY <1>2, <1>3, <1>7, <1>8
<1>10. \A x \in Unit : Len(runs'[x]) = Len(runs[x])
  BY <1>8, <1>9
<1>11. /\ \A j \in 1..Len(runs[u]) : runs'[u][j].status =
             IF j = n THEN s ELSE runs[u][j].status
       /\ \A j \in 1..Len(runs[u]) : runs'[u][j].fresh = runs[u][j].fresh
  BY <1>6, <1>8, <1>9
<1>12. /\ box' \in [Box -> BoxRec] /\ box'[b].run = 0
       /\ box'[b].work = box[b].work /\ box'[b].state = box[b].state
       /\ box'[b].next = box[b].next + 1
       /\ \A c \in Box \ {b} : box'[c] = box[c]
  <2>1. box[b] \in BoxRec
    BY <1>3
  <2> DEFINE g == [box[b] EXCEPT !.run = 0, !.next = @ + 1,
                                 !.bad = @ \/ s = "failed"]
  <2>a. (box[b].bad \/ s = "failed") \in BOOLEAN
    OBVIOUS
  <2>b. box[b].next + 1 \in Nat \ {0}
    BY <1>3
  <2>2. /\ g \in BoxRec /\ g.run = 0 /\ g.work = box[b].work
        /\ g.state = box[b].state /\ g.next = box[b].next + 1
    BY <2>1, <2>a, <2>b DEF BoxRec
  <2>3. box' = [box EXCEPT ![b] = g]
    BY <1>3, <1>4
  <2> HIDE DEF g
  <2> QED
    BY <1>3, <2>2, <2>3
<1> QED
  BY <1>1, <1>2, <1>4, <1>9, <1>10, <1>11, <1>12

LEMMA FinishUnitFits ==
    ASSUME TInv, NEW b \in Box, FinishUnit(b)
    PROVE  BoxFits'
<1>1. /\ Working(b) /\ box'[b].run = 0 /\ box'[b].work = box[b].work
      /\ box'[b].next = box[b].next + 1
      /\ \A c \in Box \ {b} : box'[c] = box[c]
      /\ \A x \in Unit : Len(runs'[x]) = Len(runs[x])
  BY FinishUnitStep
<1> SUFFICES ASSUME NEW c \in Box, Working(c)'
             PROVE  /\ box'[c].work \in Workload
                    /\ box'[c].next \in 1..(Len(Units(c)') + 1)
                    /\ box'[c].run # 0 =>
                          /\ box'[c].next <= Len(Units(c)')
                          /\ box'[c].run \in 1..Len(runs'[UnitAt(c)'])
  BY DEF BoxFits
<1>2. CASE c = b
  <2>1. Units(b)' = Units(b)
    BY <1>1 DEF Units
  <2>2. box[b].next \in Nat \ {0} /\ box[b].next <= Len(Units(b))
    BY DEF FinishUnit, TInv, BoxFits, TypeOK
  <2>3. Len(Units(b)) \in Nat
    BY <1>1, <2>2, UnitAtType
  <2> QED
    BY <1>1, <1>2, <2>1, <2>2, <2>3 DEF TInv, BoxFits
<1>3. CASE c # b
  <2>1. /\ Working(c) /\ box'[c] = box[c]
        /\ Units(c)' = Units(c) /\ UnitAt(c)' = UnitAt(c)
    BY <1>1, <1>3 DEF Working, Units, UnitAt
  <2>2. box[c].run # 0 => UnitAt(c) \in Unit
    BY <2>1, UnitAtType DEF TInv, BoxFits
  <2> QED
    BY <1>1, <2>1, <2>2 DEF TInv, BoxFits
<1> QED
  BY <1>2, <1>3

LEMMA NextTInv == TInv /\ [Next]_vars => TInv'
<1> SUFFICES ASSUME TInv, [Next]_vars PROVE TInv'
  OBVIOUS
<1> USE DEF TInv
<1>t. /\ ppc \in ProducerPc /\ item \in Workload /\ attempts \in 0..1
      /\ cur \in Box \cup {NoBox} /\ box \in [Box -> BoxRec]
      /\ runs \in [Unit -> Seq(RunRec)]
      /\ published \in [Unit -> {"nothing", "ok", "short", "failed"}]
      /\ cpc \in ConsumerPc /\ polls \in 0..MaxPolls
      /\ stray \subseteq {"abandoned", "unanswered"}
  BY DEF TypeOK, RunRec, BoxRec
<1>n. NoBox \notin Box /\ MaxPolls \in Nat
  BY ConstantsAssumption, MaxPollsType
\* It is enough to type the variables.
<1>s. ASSUME /\ ppc' \in ProducerPc /\ item' \in Workload /\ attempts' \in 0..1
             /\ cur' \in Box \cup {NoBox} /\ box' \in [Box -> BoxRec]
             /\ runs' \in [Unit -> Seq(RunRec)]
             /\ published' \in [Unit -> {"nothing", "ok", "short", "failed"}]
             /\ cpc' \in ConsumerPc /\ polls' \in 0..MaxPolls
             /\ stray' \subseteq {"abandoned", "unanswered"}
      PROVE  TypeOK'
  BY <1>s DEF TypeOK, RunRec, BoxRec
<1>1. CASE Begin
  <2>1. BoxFits'
    BY <1>1, CarryOnFits DEF Begin, CarriesOn, Working
  <2> QED
    BY <1>1, <1>t, <1>s, <2>1
       DEF Begin, consumerVars, CurFits, WaitFits, ProducerPc, ProducerEnded
<1>2. CASE LaunchWorkload
  <2>1. UNCHANGED <<runs, published, cpc, polls>> /\ ppc = "launch"
    BY <1>2 DEF LaunchWorkload, consumerVars
  <2>2. CASE StartBox
    <3>1. NewBox \in Box /\ box' \in [Box -> BoxRec] /\ BoxFits'
      BY <2>1, <2>2, StartBoxStep
    <3>2. \/ cur' = NewBox /\ ppc' = "poll" /\ UNCHANGED <<item, attempts, stray>>
          \/ /\ UNCHANGED <<ppc, item, attempts, cur>>
             /\ stray' = stray \cup {"unanswered"}
          \/ UNCHANGED box
      BY <1>2 DEF LaunchWorkload, producerVars
    <3>3. ~UNCHANGED box
      BY <2>1, <2>2, StartBoxStep
    <3> QED
      BY <1>t, <1>n, <1>s, <2>1, <3>1, <3>2, <3>3
         DEF CurFits, WaitFits, ProducerPc
  <2>3. CASE ~StartBox
    <3>1. /\ UNCHANGED <<box, stray>>
          /\ \/ CheckRetryBudget
             \/ ppc' = "failed" /\ UNCHANGED <<item, attempts, cur>>
      BY <1>2, <2>3 DEF LaunchWorkload
    <3>2. BoxFits'
      BY <2>1, <3>1, CarryOnFits DEF CarriesOn, Working
    <3> QED
      BY <1>t, <1>n, <1>s, <2>1, <3>1, <3>2
         DEF CheckRetryBudget, CurFits, WaitFits, ProducerPc, ProducerEnded
  <2> QED
    BY <2>2, <2>3
<1>3. CASE PollWorkload \/ TimedOut
  <2>1. Abandon /\ UNCHANGED <<runs, published, cpc, polls>>
    BY <1>3 DEF PollWorkload, TimedOut, consumerVars
  <2>2. /\ box' \in [Box -> BoxRec] /\ BoxFits'
        /\ stray' \subseteq {"abandoned", "unanswered"}
    BY <2>1, AbandonStep, CarryOnFits
  <2>3. /\ cur' = NoBox /\ attempts' \in 0..1
        /\ ppc' \in {"launch", "verify", "failed"}
    BY <1>3, <1>t DEF PollWorkload, TimedOut, NextWorkload, CheckRetryBudget
  <2>4. item' \in Workload
    <3>1. item' = item \/ (item < Len(UnitsOf) /\ item' = item + 1)
      BY <1>3 DEF PollWorkload, TimedOut, NextWorkload, CheckRetryBudget
    <3>2. Workload = 1..Len(UnitsOf) /\ Len(UnitsOf) \in Nat
      BY ConstantsAssumption, LenProperties DEF Workload
    <3> QED
      BY <1>t, <3>1, <3>2
  <2> QED
    BY <1>t, <1>n, <1>s, <2>1, <2>2, <2>3, <2>4
       DEF CurFits, WaitFits, ProducerPc, ProducerEnded
<1>4. CASE VerifyRunManifests
  <2>1. BoxFits'
    BY <1>4, CarryOnFits DEF VerifyRunManifests, CarriesOn, Working
  <2> QED
    BY <1>4, <1>t, <1>s, <2>1
       DEF VerifyRunManifests, consumerVars, CurFits, WaitFits, ProducerPc,
           ProducerEnded
<1>5. ASSUME NEW b \in Box, StartUnit(b) PROVE TInv'
  <2>1. /\ runs' \in [Unit -> Seq(RunRec)] /\ box' \in [Box -> BoxRec]
        /\ BoxFits'
    BY <1>5, StartUnitStep
  <2> QED
    BY <1>5, <1>t, <1>s, <2>1
       DEF StartUnit, producerVars, consumerVars, CurFits, WaitFits
<1>6. ASSUME NEW b \in Box, FinishUnit(b) PROVE TInv'
  <2>1. PICK s \in Outcome :
          /\ runs' \in [Unit -> Seq(RunRec)] /\ box' \in [Box -> BoxRec]
          /\ published' = IF s \in {"ok", "short", "failed"}
                       THEN [published EXCEPT ![UnitAt(b)] = s] ELSE published
    BY <1>6, FinishUnitStep
  <2>2. published' \in [Unit -> {"nothing", "ok", "short", "failed"}]
    BY <1>t, <2>1
  <2> QED
    BY <1>6, <1>t, <1>s, <2>1, <2>2, FinishUnitFits
       DEF FinishUnit, producerVars, consumerVars, CurFits, WaitFits
<1>7. ASSUME NEW b \in Box, ExitBox(b) \/ BoxDies(b) PROVE TInv'
  <2>1. PICK s \in {"exited", "died"} : box' = Ended(b, s)
    BY <1>7 DEF ExitBox, BoxDies
  <2>2. UNCHANGED <<ppc, item, attempts, cur, runs, published, cpc, polls, stray>>
    BY <1>7 DEF ExitBox, BoxDies, producerVars, consumerVars
  <2>3. box' \in [Box -> BoxRec] /\ BoxFits'
    BY <2>1, <2>2, EndedStep, CarryOnFits
  <2> QED
    BY <1>t, <1>s, <2>2, <2>3 DEF CurFits, WaitFits
<1>8. CASE Poll
  <2>1. BoxFits'
    BY <1>8, CarryOnFits DEF Poll, CarriesOn, Working
  <2> QED
    BY <1>8, <1>t, <1>n, <1>s, <2>1
       DEF Poll, producerVars, CurFits, WaitFits, ConsumerPc, Decided
<1>9. CASE Tick
  <2>1. /\ UNCHANGED <<ppc, item, attempts, cur, runs, published, stray>>
        /\ \A b \in Box : Working(b) => box[b].age < Cap
        /\ box' = [b \in Box |->
              IF Working(b) THEN [box[b] EXCEPT !.age = @ + 1] ELSE box[b]]
    BY <1>9 DEF Tick, Idle, producerVars
  <2>2. ASSUME NEW b \in Box
        PROVE  /\ box'[b] \in BoxRec /\ CarriesOn(b)
    <3>1. box[b] \in BoxRec
      BY <1>t
    <3>2. box'[b] = IF Working(b) THEN [box[b] EXCEPT !.age = @ + 1] ELSE box[b]
      BY <2>1
    <3>3. Working(b) => box[b].age + 1 \in 0..Cap
      BY <2>1, <3>1, ConstantsAssumption DEF BoxRec
    <3> QED
      BY <3>1, <3>2, <3>3 DEF BoxRec, CarriesOn, Working
  <2>3. box' \in [Box -> BoxRec] /\ BoxFits'
    BY <2>1, <2>2, CarryOnFits
  <2>4. cpc' \in ConsumerPc /\ polls' \in 0..MaxPolls /\ WaitFits'
    BY <1>9, <1>t, <1>n DEF Tick, WaitFits, ConsumerPc
  <2> QED
    BY <1>t, <1>s, <2>1, <2>3, <2>4 DEF CurFits
<1>10. CASE UNCHANGED vars
  BY <1>10 DEF vars, producerVars, consumerVars, TypeOK, BoxFits, CurFits,
     WaitFits, Working, Units, UnitAt
<1> QED
  BY <1>1, <1>2, <1>3, <1>4, <1>5, <1>6, <1>7, <1>8, <1>9, <1>10
     DEF Next, Collect, BoxStep

LEMMA TypeInvariant == Spec => []TInv
  BY InitTInv, NextTInv, PTL DEF Spec

\* Every variable keeps its type; the wait stays within its budget and a
\* box within its cap.
THEOREM TypeCorrect == Spec => []TypeOK
<1>1. TInv => TypeOK
  BY DEF TInv
<1> QED
  BY <1>1, TypeInvariant, PTL

-----------------------------------------------------------------------------
(* The collection's steps are numbered: what CollectionEnds rests on besides *)
(* fairness.  One retry of each workload and one escaped box each cost.      *)

Remaining == 6 * (2 * (Len(UnitsOf) - item) + (1 - attempts))
             + (IF stray = {} THEN 1 ELSE 0)

Rank == IF ppc \in ProducerEnded THEN 0
        ELSE IF ppc = "verify" THEN 1
        ELSE IF ppc = "poll" THEN 3 + Remaining
        ELSE IF ppc = "launch" THEN 4 + Remaining
        ELSE 12 * Len(UnitsOf)

\* Every step of the collection brings it nearer to its end, and no step of a
\* box, of the consumer or of time takes it back.
StepsDown == [][/\ Rank' <= Rank
                /\ Collect => Rank' < Rank]_vars

LEMMA RemainingDown ==
    ASSUME TInv, TInv'
    PROVE  /\ Len(UnitsOf) \in Nat /\ item \in 1..Len(UnitsOf)
           /\ item' \in 1..Len(UnitsOf) /\ attempts \in 0..1 /\ attempts' \in 0..1
           /\ Remaining \in 0..(12 * Len(UnitsOf) - 5)
           /\ Remaining' \in 0..(12 * Len(UnitsOf) - 5)
<1>1. Len(UnitsOf) \in Nat /\ Workload = 1..Len(UnitsOf)
  BY ConstantsAssumption, LenProperties DEF Workload
<1>2. /\ item \in 1..Len(UnitsOf) /\ item' \in 1..Len(UnitsOf)
      /\ attempts \in 0..1 /\ attempts' \in 0..1
  BY <1>1 DEF TInv, TypeOK
<1> QED
  BY <1>1, <1>2 DEF Remaining

LEMMA LaunchBelowPoll ==
    \A m, n, k \in Int : m + 6 <= n /\ k = 4 + m => k < 3 + n
  OBVIOUS

LEMMA RetryDown ==
    ASSUME TInv, TInv', CheckRetryBudget, stray # {} => stray' # {}
    PROVE  Rank' < 3 + Remaining
<1>1. /\ Len(UnitsOf) \in Nat /\ item \in 1..Len(UnitsOf)
      /\ attempts \in 0..1 /\ attempts' \in 0..1
      /\ Remaining \in 0..(12 * Len(UnitsOf) - 5)
      /\ Remaining' \in 0..(12 * Len(UnitsOf) - 5)
  BY RemainingDown
<1>2. CASE attempts' = attempts + 1 /\ ppc' = "launch" /\ item' = item
  <2>1. Remaining' + 6 <= Remaining
    BY <1>1, <1>2 DEF Remaining
  <2>2. Rank' = 4 + Remaining'
    BY <1>2 DEF Rank, ProducerEnded
  <2>3. Remaining \in Int /\ Remaining' \in Int /\ Rank' \in Int
    BY <1>1 DEF Rank
  <2> QED
    BY <2>1, <2>2, <2>3, LaunchBelowPoll
<1>3. CASE ppc' = "failed"
  BY <1>1, <1>3 DEF Rank, ProducerEnded
<1> QED
  BY <1>2, <1>3 DEF CheckRetryBudget

LEMMA CollectDown ==
    ASSUME TInv, TInv', Collect
    PROVE  Rank' < Rank
<1>1. /\ Len(UnitsOf) \in Nat /\ item \in 1..Len(UnitsOf)
      /\ item' \in 1..Len(UnitsOf) /\ attempts \in 0..1 /\ attempts' \in 0..1
      /\ Remaining \in 0..(12 * Len(UnitsOf) - 5)
      /\ Remaining' \in 0..(12 * Len(UnitsOf) - 5)
  BY RemainingDown
<1>2. stray # {} => stray' # {}
  BY DEF Collect, Begin, LaunchWorkload, CheckRetryBudget, PollWorkload, Abandon,
     VerifyRunManifests, TimedOut
<1>3. CASE Begin
  BY <1>1, <1>3 DEF Begin, Rank, ProducerEnded
<1>4. CASE LaunchWorkload
  <2>1. ppc = "launch" /\ Rank = 4 + Remaining
    BY <1>4 DEF LaunchWorkload, Rank, ProducerEnded
  <2>2. CASE ppc' = "poll" /\ UNCHANGED <<item, attempts, stray>>
    BY <1>1, <2>1, <2>2 DEF Rank, ProducerEnded, Remaining
  <2>3. CASE CheckRetryBudget /\ UNCHANGED stray
    <3>1. Rank' < 3 + Remaining
      BY <1>2, <2>3, RetryDown
    <3>2. Rank' \in Int /\ Remaining \in Int
      BY <1>1 DEF Rank
    <3> QED
      BY <2>1, <3>1, <3>2
  <2>4. CASE stray = {} /\ stray' # {} /\ UNCHANGED producerVars
    BY <1>1, <2>1, <2>4 DEF producerVars, Rank, ProducerEnded, Remaining
  <2>5. CASE ppc' = "failed"
    BY <1>1, <2>1, <2>5 DEF Rank, ProducerEnded
  <2> QED
    BY <1>4, <2>2, <2>3, <2>4, <2>5 DEF LaunchWorkload
<1>5. CASE PollWorkload
  <2>1. ppc = "poll" /\ Rank = 3 + Remaining
    BY <1>5 DEF PollWorkload, Rank, ProducerEnded
  <2>2. CASE NextWorkload
    <3>1. CASE item' = item + 1 /\ ppc' = "launch" /\ attempts' = 0
      <4>1. Remaining' + 6 <= Remaining
        BY <1>1, <1>2, <3>1 DEF Remaining
      <4>2. Rank' = 4 + Remaining'
        BY <3>1 DEF Rank, ProducerEnded
      <4>3. Remaining \in Int /\ Remaining' \in Int /\ Rank' \in Int
        BY <1>1 DEF Rank
      <4> QED
        BY <2>1, <4>1, <4>2, <4>3, LaunchBelowPoll
    <3>2. CASE ppc' = "verify"
      BY <1>1, <2>1, <3>2 DEF Rank, ProducerEnded
    <3> QED
      BY <2>2, <3>1, <3>2 DEF NextWorkload
  <2>3. CASE CheckRetryBudget
    BY <1>1, <1>2, <2>1, <2>3, RetryDown
  <2> QED
    BY <1>5, <2>2, <2>3 DEF PollWorkload
<1>6. CASE VerifyRunManifests
  BY <1>6 DEF VerifyRunManifests, Rank, ProducerEnded
<1>7. CASE TimedOut
  BY <1>1, <1>7 DEF TimedOut, Rank, ProducerEnded
<1> QED
  BY <1>3, <1>4, <1>5, <1>6, <1>7 DEF Collect

\* Whatever its boxes and its calls do, a collection is over after at most
\* twelve steps per workload, each of them launched twice at most; that it
\* takes them is left to fairness.
THEOREM CollectionDescends ==
    Spec => [](Rank \in 0..(12 * Len(UnitsOf))) /\ StepsDown
<1>1. TInv => Rank \in 0..(12 * Len(UnitsOf))
  <2> SUFFICES ASSUME TInv PROVE Rank \in 0..(12 * Len(UnitsOf))
    OBVIOUS
  <2>1. Len(UnitsOf) \in Nat /\ Workload = 1..Len(UnitsOf)
    BY ConstantsAssumption, LenProperties DEF Workload
  <2>2. item \in 1..Len(UnitsOf) /\ attempts \in 0..1
    BY <2>1 DEF TInv, TypeOK
  <2> QED
    BY <2>1, <2>2 DEF Rank, Remaining
<1>2. ASSUME TInv, TInv', [Next]_vars
      PROVE  [Rank' <= Rank /\ (Collect => Rank' < Rank)]_vars
  <2> SUFFICES ASSUME ~UNCHANGED vars
               PROVE  Rank' <= Rank /\ (Collect => Rank' < Rank)
    OBVIOUS
  <2>1. CASE Collect
    <3>1. Rank \in Int /\ Rank' \in Int
      <4>1. Len(UnitsOf) \in Int /\ Remaining \in Int /\ Remaining' \in Int
        BY <1>2, RemainingDown
      <4> QED
        BY <4>1 DEF Rank
    <3> QED
      BY <1>2, <2>1, <3>1, CollectDown
  <2>2. CASE ~Collect
    <3>1. UNCHANGED <<ppc, item, attempts, stray>>
      BY <1>2, <2>2 DEF Next, BoxStep, StartUnit, FinishUnit, ExitBox, BoxDies, Poll,
         Tick, producerVars
    <3>2. Rank' = Rank /\ Rank \in Int
      <4>1. Len(UnitsOf) \in Int /\ Remaining \in Int
        BY <1>2, RemainingDown
      <4> QED
        BY <3>1, <4>1 DEF Rank, Remaining
    <3> QED
      BY <2>2, <3>2
  <2> QED
    BY <2>1, <2>2
<1> QED
  BY <1>1, <1>2, TypeInvariant, PTL DEF Spec, StepsDown

-----------------------------------------------------------------------------
(* What an ok grade is worth *)

\* Unless a box escaped, only the one that is polled works.
OnlyCurWorks == \A b \in Box : Working(b) => b = cur

\* The run a box is in is the last of its unit, and unfiled.
RunIsLast ==
    \A b \in Box : Working(b) /\ box[b].run # 0 =>
        /\ box[b].run = Len(runs[UnitAt(b)])
        /\ runs[UnitAt(b)][box[b].run].status = "unfiled"

\* Run i of unit u is ok and the runs after it wrote no output.
LastWriteOk(u, i) ==
    /\ runs[u][i].status = "ok"
    /\ \A j \in 1..Len(runs[u]) :
         i < j => runs[u][j].status \notin {"ok", "short", "failed"}

\* The outputs of a unit are those of its newest run that wrote any.
OutputsAreNewest ==
    \A u \in Unit : \A i \in 1..Len(runs[u]) :
        LastWriteOk(u, i) => published[u] = "ok"

PInv == /\ TInv
        /\ stray = {} => OnlyCurWorks /\ RunIsLast /\ OutputsAreNewest
        /\ SuccessMeansPublished

\* A unit graded ok has a filed run of this cycle, and an ok run behind
\* which nothing was written.
LEMMA OkGrade ==
    ASSUME TInv, NEW u \in Unit, Grade(u) = "ok"
    PROVE  /\ \E i \in Manifests(u) : runs[u][i].fresh
           /\ \E i \in 1..Len(runs[u]) : LastWriteOk(u, i)
<1> DEFINE M == Manifests(u)
           newest == Greatest(M)
           real == {i \in M : runs[u][i].status # "noop"}
<1>1. runs[u] \in Seq(RunRec) /\ Len(runs[u]) \in Nat
      /\ DOMAIN runs[u] = 1..Len(runs[u])
  BY LenProperties DEF TInv, TypeOK, RunRec
<1>2. M \in SUBSET (0..Len(runs[u])) /\ M # {}
  BY <1>1 DEF Manifests, Grade
<1>3. newest \in M /\ \A m \in M : m <= newest
  BY <1>1, <1>2, GreatestExists
<1>4. runs[u][newest].fresh
  BY DEF Grade
<1>5. \A j \in 1..Len(runs[u]) : j \notin M => runs[u][j].status = "unfiled"
  <2>1. \A j \in 1..Len(runs[u]) : runs[u][j] \in RunRec
    BY <1>1, ElementOfSeq
  <2> QED
    BY <1>1, <2>1 DEF Manifests, RunRec, RunStatus
<1>6. CASE runs[u][newest].status # "noop"
  <2>1. runs[u][newest].status = "ok"
    BY <1>6 DEF Grade
  <2>2. newest \in 1..Len(runs[u])
    BY <1>1, <1>3 DEF Manifests
  <2>3. \A j \in 1..Len(runs[u]) : newest < j => j \notin M
    BY <1>3, <2>2
  <2>4. LastWriteOk(u, newest)
    BY <1>5, <2>1, <2>3 DEF LastWriteOk
  <2> QED
    BY <1>3, <1>4, <2>2, <2>4
<1>7. CASE runs[u][newest].status = "noop"
  <2> DEFINE g == Greatest(real)
  <2>1. real # {} /\ runs[u][g].status = "ok"
    BY <1>7 DEF Grade
  <2>2. g \in real /\ \A m \in real : m <= g
    <3>1. real \in SUBSET (0..Len(runs[u]))
      BY <1>2
    <3> QED
      BY <1>1, <2>1, <3>1, GreatestExists
  <2>3. g \in 1..Len(runs[u])
    BY <1>1, <2>2 DEF Manifests
  <2>4. \A j \in 1..Len(runs[u]) : g < j /\ j \in M => runs[u][j].status = "noop"
    BY <2>2, <2>3
  <2>5. LastWriteOk(u, g)
    BY <1>5, <2>1, <2>4 DEF LastWriteOk
  <2> QED
    BY <1>3, <1>4, <2>3, <2>5
<1> QED
  BY <1>6, <1>7

LEMMA InitPInv == Init => PInv
<1> SUFFICES ASSUME Init PROVE PInv
  OBVIOUS
<1>1. TInv
  BY InitTInv
<1>2. OnlyCurWorks /\ RunIsLast
  BY GoneType DEF Init, OnlyCurWorks, RunIsLast, Working
<1>3. ASSUME NEW u \in Unit, NEW i \in 1..Len(runs[u]), LastWriteOk(u, i)
      PROVE  published[u] = "ok"
  <2>1. runs[u] # <<>>
    BY <1>3
  <2>2. PICK s \in Earlier : runs[u] = <<[status |-> s, fresh |-> FALSE]>>
    BY <2>1 DEF Init, EarlierRun
  <2>3. i = 1
    BY <2>2
  <2> QED
    BY <1>3, <2>1, <2>3 DEF Init, LastWriteOk
<1>4. SuccessMeansPublished
  BY DEF Init, SuccessMeansPublished
<1> QED
  BY <1>1, <1>2, <1>3, <1>4 DEF PInv, OutputsAreNewest

\* Boxes carry on or end, runs and outputs stay.
LEMMA CarryOnPublished ==
    ASSUME RunIsLast, OutputsAreNewest, UNCHANGED <<runs, published>>,
           \A b \in Box : CarriesOn(b)
    PROVE  RunIsLast' /\ OutputsAreNewest'
<1>1. OutputsAreNewest'
  BY DEF OutputsAreNewest, LastWriteOk
<1>2. RunIsLast'
  BY DEF RunIsLast, CarriesOn, Units, UnitAt
<1> QED
  BY <1>1, <1>2

\* An unfiled run writes nothing.
LEMMA StartUnitPublished ==
    ASSUME TInv, OnlyCurWorks, RunIsLast, OutputsAreNewest,
           NEW b \in Box, StartUnit(b)
    PROVE  OnlyCurWorks' /\ RunIsLast' /\ OutputsAreNewest'
<1> DEFINE u == UnitAt(b)
           n == Len(runs[u]) + 1
           e == [status |-> "unfiled", fresh |-> TRUE]
<1>1. /\ u \in Unit /\ runs[u] \in Seq(RunRec) /\ e \in RunRec
      /\ runs' = [runs EXCEPT ![u] = Append(runs[u], e)]
      /\ \A c \in Box \ {b} : box'[c] = box[c]
      /\ Working(b) /\ UnitAt(b)' = u /\ box'[b].run = n
  BY StartUnitStep
<1>2. UNCHANGED <<cur, published>> /\ runs \in [Unit -> Seq(RunRec)]
  BY DEF StartUnit, producerVars, TInv, TypeOK, RunRec
<1>3. \A c \in Box : Working(c)' => c = b
  BY <1>1 DEF OnlyCurWorks, Working
<1>4. /\ Len(runs[u]) \in Nat
      /\ runs'[u] = Append(runs[u], e) /\ Len(runs'[u]) = n
      /\ \A j \in 1..Len(runs[u]) : runs'[u][j] = runs[u][j]
      /\ runs'[u][n].status = "unfiled"
      /\ \A x \in Unit \ {u} : runs'[x] = runs[x]
  BY <1>1, <1>2, AppendProperties, LenProperties
<1>5. RunIsLast'
  BY <1>1, <1>3, <1>4 DEF RunIsLast
<1>6. ASSUME NEW x \in Unit, NEW i \in 1..Len(runs'[x]), LastWriteOk(x, i)'
      PROVE  published'[x] = "ok"
  <2>1. CASE x = u
    <3>1. runs'[u][i].status = "ok" /\ i # n
      BY <1>4, <1>6, <2>1 DEF LastWriteOk
    <3>2. i \in 1..Len(runs[u])
      BY <1>4, <1>6, <2>1, <3>1
    <3>3. LastWriteOk(u, i)
      <4>1. ASSUME NEW j \in 1..Len(runs[u]), i < j
            PROVE  runs[u][j].status \notin {"ok", "short", "failed"}
        <5>1. j \in 1..Len(runs'[u]) /\ runs'[u][j] = runs[u][j]
          BY <1>4
        <5> QED
          BY <1>6, <2>1, <4>1, <5>1 DEF LastWriteOk
      <4> QED
        BY <1>4, <3>1, <3>2, <4>1 DEF LastWriteOk
    <3> QED
      BY <1>2, <2>1, <3>2, <3>3 DEF OutputsAreNewest
  <2>2. CASE x # u
    BY <1>2, <1>4, <1>6, <2>2 DEF OutputsAreNewest, LastWriteOk
  <2> QED
    BY <2>1, <2>2
<1>7. OnlyCurWorks'
  BY <1>1, <1>2, <1>3 DEF OnlyCurWorks
<1> QED
  BY <1>5, <1>6, <1>7 DEF OutputsAreNewest

\* The run that is filed is the unit's last: its outputs are the newest.
LEMMA FinishUnitPublished ==
    ASSUME TInv, OnlyCurWorks, RunIsLast, OutputsAreNewest,
           NEW b \in Box, FinishUnit(b)
    PROVE  OnlyCurWorks' /\ RunIsLast' /\ OutputsAreNewest'
<1> DEFINE u == UnitAt(b)
           n == box[b].run
<1>1. PICK s \in Outcome :
         /\ u \in Unit /\ n \in 1..Len(runs[u]) /\ n # 0 /\ Working(b)
         /\ \A x \in Unit : Len(runs'[x]) = Len(runs[x])
         /\ \A x \in Unit \ {u} : runs'[x] = runs[x]
         /\ \A j \in 1..Len(runs[u]) : runs'[u][j].status =
                IF j = n THEN s ELSE runs[u][j].status
         /\ published' = IF s \in {"ok", "short", "failed"}
                      THEN [published EXCEPT ![u] = s] ELSE published
         /\ box'[b].run = 0
         /\ \A c \in Box \ {b} : box'[c] = box[c]
  BY FinishUnitStep
<1>2. n = Len(runs[u]) /\ runs[u][n].status = "unfiled"
      /\ Len(runs[u]) \in Nat
  BY <1>1, UnitAtType DEF RunIsLast, TInv, BoxFits
<1>3. cur' = cur /\ DOMAIN published = Unit
  BY DEF FinishUnit, producerVars, TInv, TypeOK
<1>4. \A c \in Box : Working(c)' => c = b
  BY <1>1 DEF OnlyCurWorks, Working
<1>5. OnlyCurWorks' /\ RunIsLast'
  BY <1>1, <1>3, <1>4 DEF OnlyCurWorks, RunIsLast
<1>6. ASSUME NEW x \in Unit, NEW i \in 1..Len(runs'[x]), LastWriteOk(x, i)'
      PROVE  published'[x] = "ok"
  <2>1. CASE x # u
    <3>1. LastWriteOk(x, i) /\ i \in 1..Len(runs[x])
      BY <1>1, <1>6, <2>1 DEF LastWriteOk
    <3>2. published[x] = "ok"
      BY <3>1 DEF OutputsAreNewest
    <3> QED
      BY <1>1, <1>3, <2>1, <3>2
  <2>2. CASE x = u /\ i = n
    <3>1. s = "ok"
      BY <1>1, <1>6, <2>2 DEF LastWriteOk
    <3> QED
      BY <1>1, <1>3, <2>2, <3>1
  <2>3. CASE x = u /\ i # n
    <3>1. i \in 1..Len(runs[u]) /\ i < n
      BY <1>1, <1>2, <1>6, <2>3
    <3>2. s \notin {"ok", "short", "failed"}
      BY <1>1, <1>2, <1>6, <2>3, <3>1 DEF LastWriteOk
    <3>3. LastWriteOk(u, i)
      BY <1>1, <1>2, <1>6, <2>3, <3>1 DEF LastWriteOk
    <3> QED
      BY <1>1, <2>3, <3>1, <3>2, <3>3 DEF OutputsAreNewest
  <2> QED
    BY <2>1, <2>2, <2>3
<1> QED
  BY <1>5, <1>6 DEF OutputsAreNewest

LEMMA NextPInv == PInv /\ [Next]_vars => PInv'
<1> SUFFICES ASSUME PInv, [Next]_vars PROVE PInv'
  OBVIOUS
<1> USE DEF PInv
<1>1. TInv'
  BY NextTInv
<1>n. NoBox \notin Box
  BY ConstantsAssumption
<1>2. stray' = {} => stray = {}
  BY AbandonStep
     DEF Next, Collect, Begin, LaunchWorkload, CheckRetryBudget, PollWorkload,
         VerifyRunManifests, TimedOut, BoxStep, StartUnit, FinishUnit, ExitBox,
         BoxDies, Poll, Tick, vars
<1>3. ASSUME stray' = {} PROVE OnlyCurWorks' /\ RunIsLast' /\ OutputsAreNewest'
  <2>1. OnlyCurWorks /\ RunIsLast /\ OutputsAreNewest
    BY <1>2, <1>3
  <2>2. CASE LaunchWorkload
    <3>1. /\ UNCHANGED <<runs, published>> /\ ppc = "launch" /\ cur = NoBox
      BY <2>2 DEF LaunchWorkload, TInv, CurFits
    <3>2. \A b \in Box : ~Working(b)
      BY <1>n, <2>1, <3>1 DEF OnlyCurWorks
    <3>3. CASE UNCHANGED box
      BY <2>1, <3>1, <3>2, <3>3, CarryOnPublished
         DEF CarriesOn, Working, OnlyCurWorks
    <3>4. CASE ~UNCHANGED box
      <4>1. StartBox /\ cur' = NewBox
        BY <1>2, <1>3, <2>2, <3>4 DEF LaunchWorkload
      <4>2. /\ NewBox \in Box /\ box'[NewBox].run = 0
            /\ \A b \in Box \ {NewBox} : box'[b] = box[b]
        BY <3>1, <4>1, StartBoxStep
      <4>3. OnlyCurWorks' /\ RunIsLast'
        BY <3>2, <4>1, <4>2 DEF OnlyCurWorks, RunIsLast, Working
      <4>4. OutputsAreNewest'
        BY <2>1, <3>1 DEF OutputsAreNewest, LastWriteOk
      <4> QED
        BY <4>3, <4>4
    <3> QED
      BY <3>3, <3>4
  <2>3. CASE PollWorkload \/ TimedOut
    <3>1. Abandon /\ UNCHANGED <<runs, published>>
      BY <2>3 DEF PollWorkload, TimedOut
    <3>2. (\A b \in Box : CarriesOn(b)) /\ ~(cur \in Box /\ Working(cur))
      BY <1>3, <3>1, AbandonStep
    <3>3. OnlyCurWorks'
      BY <2>1, <3>2 DEF OnlyCurWorks, CarriesOn
    <3> QED
      BY <2>1, <3>1, <3>2, <3>3, CarryOnPublished
  <2>4. ASSUME NEW b \in Box, ExitBox(b) \/ BoxDies(b)
        PROVE  OnlyCurWorks' /\ RunIsLast' /\ OutputsAreNewest'
    <3>1. PICK s \in {"exited", "died"} : box' = Ended(b, s)
      BY <2>4 DEF ExitBox, BoxDies
    <3>2. UNCHANGED <<cur, runs, published>>
      BY <2>4 DEF ExitBox, BoxDies, producerVars
    <3>3. \A c \in Box : CarriesOn(c)
      BY <3>1, EndedStep
    <3> QED
      BY <2>1, <3>2, <3>3, CarryOnPublished DEF OnlyCurWorks, CarriesOn
  <2>5. CASE Tick
    <3>1. /\ UNCHANGED <<cur, runs, published>>
          /\ \A b \in Box : box'[b] =
                IF Working(b) THEN [box[b] EXCEPT !.age = @ + 1] ELSE box[b]
      BY <2>5 DEF Tick, producerVars
    <3>2. \A b \in Box : box[b] \in BoxRec
      BY DEF TInv, TypeOK, BoxRec
    <3>3. \A b \in Box : CarriesOn(b)
      BY <3>1, <3>2 DEF CarriesOn, Working, BoxRec
    <3> QED
      BY <2>1, <3>1, <3>3, CarryOnPublished DEF OnlyCurWorks, CarriesOn
  <2>6. CASE Begin \/ VerifyRunManifests \/ Poll \/ UNCHANGED vars
    <3>1. UNCHANGED <<cur, box, runs, published>>
      BY <2>6 DEF Begin, VerifyRunManifests, Poll, vars, producerVars
    <3> QED
      BY <2>1, <3>1, CarryOnPublished DEF CarriesOn, Working, OnlyCurWorks
  <2> QED
    BY <2>1, <2>2, <2>3, <2>4, <2>5, <2>6, StartUnitPublished,
       FinishUnitPublished DEF Next, Collect, BoxStep
<1>4. SuccessMeansPublished'
  <2> SUFFICES ASSUME ppc' = "succeeded", stray' = {}, NEW u \in Verified
               PROVE  published'[u] = "ok"
    BY DEF SuccessMeansPublished
  <2>1. CASE VerifyRunManifests
    <3>1. Grade(u) = "ok" /\ published' = published /\ u \in Unit
      BY <2>1, ConstantsAssumption DEF VerifyRunManifests, Passes
    <3> QED
      BY <1>2, <3>1, OkGrade DEF OutputsAreNewest
  <2>2. CASE ~VerifyRunManifests
    <3>1. ppc = "succeeded"
      BY <2>2 DEF Next, Collect, Begin, LaunchWorkload, CheckRetryBudget,
         PollWorkload, NextWorkload, TimedOut, BoxStep, StartUnit, FinishUnit,
         ExitBox, BoxDies, Poll, Tick, producerVars, vars
    <3>2. \A b \in Box : ~Working(b)
      BY <1>2, <1>n, <3>1 DEF OnlyCurWorks, TInv, CurFits
    <3>3. published' = published
      BY <2>2, <3>2 DEF Next, Collect, Begin, LaunchWorkload, PollWorkload,
         TimedOut, BoxStep, StartUnit, FinishUnit, ExitBox, BoxDies, Poll,
         Tick, vars
    <3> QED
      BY <1>2, <3>1, <3>3 DEF SuccessMeansPublished
  <2> QED
    BY <2>1, <2>2
<1> QED
  BY <1>1, <1>3, <1>4

LEMMA PublishedInvariant == Spec => []PInv
  BY InitPInv, NextPInv, PTL DEF Spec

\* A collection that succeeded left every unit it verifies as an ok run wrote
\* it, however many retries, no-ops and dead boxes came before.
THEOREM SuccessIsPublished == Spec => []SuccessMeansPublished
<1>1. PInv => SuccessMeansPublished
  BY DEF PInv
<1> QED
  BY <1>1, PublishedInvariant, PTL

\* The consumer goes ahead only on runs of this cycle and on what an ok run
\* wrote.
THEOREM GoIsThisCycle == Spec => GoSeesThisCycle
<1> DEFINE Sees == cpc # "go" /\ cpc' = "go" =>
               \A u \in Waited :
                   /\ \E i \in Manifests(u) : runs[u][i].fresh
                   /\ stray = {} => published[u] = "ok"
<1>1. ASSUME PInv, [Next]_vars PROVE Sees
  <2> SUFFICES ASSUME cpc # "go", cpc' = "go", NEW u \in Waited
               PROVE  /\ \E i \in Manifests(u) : runs[u][i].fresh
                      /\ stray = {} => published[u] = "ok"
    OBVIOUS
  <2>1. Poll
    BY <1>1 DEF Next, Collect, Begin, LaunchWorkload, PollWorkload,
       VerifyRunManifests, TimedOut, BoxStep, StartUnit, FinishUnit, ExitBox,
       BoxDies, Tick, consumerVars, vars
  <2>2. Grade(u) = "ok" /\ u \in Unit
    BY <2>1, ConstantsAssumption DEF Poll, Ready, Passes
  <2> QED
    BY <1>1, <2>2, OkGrade DEF PInv, OutputsAreNewest
<1>2. PInv /\ [Next]_vars => [Sees]_vars
  BY <1>1
<1> QED
  BY <1>2, PublishedInvariant, PTL DEF Spec, GoSeesThisCycle

-----------------------------------------------------------------------------
(***************************************************************************)
(* A refusal is final.  A workload is launched twice at most, so a waited  *)
(* unit of one workload has two runs of this cycle at most, those          *)
(* still to come included (RunsBounded).  The consumer refuses over a      *)
(* failed unit when two are filed: nothing is left to change its grade.    *)
(***************************************************************************)
WaitedOnce ==
    \A v, w \in Workload : \A i \in DOMAIN UnitsOf[v], j \in DOMAIN UnitsOf[w] :
        UnitsOf[v][i] \in Waited /\ UnitsOf[v][i] = UnitsOf[w][j] => v = w /\ i = j

FreshRuns(u) == {n \in DOMAIN runs[u] : runs[u][n].fresh}

\* The boxes that will still start a run of unit i of workload w.
Coming(w, i) ==
    {b \in Box : /\ Working(b) /\ box[b].work = w
                 /\ box[b].next < i \/ (box[b].next = i /\ box[b].run = 0)}

\* The launches the collection may still make for workload w.
LaunchesLeft(w) ==
    IF ppc = "verify" \/ ppc \in ProducerEnded \/ w < item THEN 0
    ELSE IF w > item THEN 2
    ELSE IF ppc = "poll" THEN 1 - attempts ELSE 2 - attempts

Bounded(w, i) ==
    /\ IsFiniteSet(Coming(w, i))
    /\ Cardinality(FreshRuns(UnitsOf[w][i])) + Cardinality(Coming(w, i))
         + LaunchesLeft(w) <= ProducerAttempts

RunsBounded ==
    "unanswered" \notin stray =>
        \A w \in Workload : \A i \in DOMAIN UnitsOf[w] :
            UnitsOf[w][i] \in Waited => Bounded(w, i)

\* The run a box is in is not filed, of this cycle, and nobody else's.
RunIsOwn ==
    \A b \in Box : Working(b) /\ box[b].run # 0 =>
        /\ runs[UnitAt(b)][box[b].run].status = "unfiled"
        /\ runs[UnitAt(b)][box[b].run].fresh
        /\ \A c \in Box : /\ Working(c) /\ box[c].run = box[b].run
                          /\ UnitAt(c) = UnitAt(b)
                          => c = b

\* What the consumer refused over had failed twice.
RefusedTwice ==
    cpc = "refused" => \A u \in Waited :
        /\ Grade(u) # "missing"
        /\ Grade(u) \in {"failed", "empty"} => FreshVisits(u) >= 2

NInv == TInv /\ RunIsOwn /\ RefusedTwice /\ RunsBounded

LEMMA RunsOf ==
    ASSUME TInv, NEW u \in Unit
    PROVE  /\ runs[u] \in Seq(RunRec) /\ Len(runs[u]) \in Nat
           /\ DOMAIN runs[u] = 1..Len(runs[u])
  BY LenProperties DEF TInv, TypeOK, RunRec

LEMMA FreshFinite ==
    ASSUME TInv, NEW u \in Unit
    PROVE  IsFiniteSet(FreshRuns(u)) /\ Cardinality(FreshRuns(u)) \in Nat
<1>1. Len(runs[u]) \in Nat /\ DOMAIN runs[u] = 1..Len(runs[u])
  BY RunsOf
<1>2. FreshRuns(u) \in SUBSET Nat /\ \A n \in FreshRuns(u) : n <= Len(runs[u])
  BY <1>1 DEF FreshRuns
<1> QED
  BY <1>1, <1>2, FS_BoundedSetOfNaturals, FS_CardinalityType

\* Workload w is a sequence of units.
LEMMA UnitOfType ==
    ASSUME NEW w \in Workload, NEW i \in DOMAIN UnitsOf[w]
    PROVE  UnitsOf[w][i] \in Unit
<1>1. UnitsOf[w] \in Seq(Unit)
  BY ConstantsAssumption, ElementOfSeq, LenProperties DEF Workload
<1> QED
  BY <1>1, ElementOfSeq, LenProperties

LEMMA LeftType ==
    ASSUME NEW w
    PROVE  /\ attempts \in 0..1 => LaunchesLeft(w) \in Nat
           /\ attempts' \in 0..1 => LaunchesLeft(w)' \in Nat
  BY DEF LaunchesLeft

\* The place of a box that is at a unit.
LEMMA PlaceOf ==
    ASSUME TInv, NEW b \in Box, Working(b), box[b].next <= Len(Units(b))
    PROVE  /\ box[b].work \in Workload
           /\ box[b].next \in DOMAIN UnitsOf[box[b].work]
           /\ UnitAt(b) = UnitsOf[box[b].work][box[b].next]
<1>1. box[b].work \in Workload /\ box[b].next \in 1..Len(Units(b))
  BY UnitAtType DEF TInv, BoxFits
<1>2. UnitsOf[box[b].work] \in Seq(Unit)
  BY <1>1, ConstantsAssumption, ElementOfSeq, LenProperties DEF Workload
<1> QED
  BY <1>1, <1>2, LenProperties DEF Units, UnitAt

\* The filed runs have a newest one, and so have those that are no no-op.
LEMMA NewestFiled ==
    ASSUME TInv, NEW u \in Unit, NEW S \in SUBSET Manifests(u), S # {}
    PROVE  Greatest(S) \in S /\ \A m \in S : m <= Greatest(S)
<1>1. Len(runs[u]) \in Nat /\ DOMAIN runs[u] = 1..Len(runs[u])
  BY RunsOf
<1>2. S \in SUBSET (0..Len(runs[u]))
  BY <1>1 DEF Manifests
<1> QED
  BY <1>1, <1>2, GreatestExists

\* The grade of a unit depends on its filed runs.
LEMMA SameGrade ==
    ASSUME TInv, NEW u \in Unit, Manifests(u)' = Manifests(u),
           \A i \in Manifests(u) : runs'[u][i] = runs[u][i]
    PROVE  Grade(u)' = Grade(u) /\ FreshVisits(u)' = FreshVisits(u)
<1> DEFINE M == Manifests(u)
           newest == Greatest(M)
           R == {i \in M : runs[u][i].status # "noop"}
<1>1. {i \in M' : runs'[u][i].status # "noop"} = R
  OBVIOUS
<1>2. {i \in M' : runs'[u][i].fresh} = {i \in M : runs[u][i].fresh}
  OBVIOUS
<1>3. FreshVisits(u)' = FreshVisits(u)
  BY <1>2 DEF FreshVisits
<1>4. newest' = newest /\ Greatest(R') = Greatest(R)
  BY <1>1 DEF Greatest
<1>e. /\ Grade(u) = IF M = {} \/ ~runs[u][newest].fresh THEN "missing"
                   ELSE IF runs[u][newest].status # "noop" THEN runs[u][newest].status
                   ELSE IF R = {} THEN "noop" ELSE runs[u][Greatest(R)].status
      /\ Grade(u)' = IF M' = {} \/ ~runs'[u][newest'].fresh THEN "missing"
                    ELSE IF runs'[u][newest'].status # "noop" THEN runs'[u][newest'].status
                    ELSE IF R' = {} THEN "noop" ELSE runs'[u][Greatest(R')].status
  BY DEF Grade
<1> HIDE DEF newest, R
<1>5. CASE M = {}
  BY <1>3, <1>5, <1>e
<1>6. CASE M # {}
  <2>1. newest \in M
    BY <1>6, NewestFiled DEF newest
  <2>2. runs'[u][newest] = runs[u][newest]
    BY <2>1
  <2>3. R # {} => runs'[u][Greatest(R)] = runs[u][Greatest(R)]
    BY NewestFiled DEF R
  <2>4. R' = R
    BY <1>1 DEF R
  <2> QED
    BY <1>3, <1>4, <1>6, <1>e, <2>2, <2>3, <2>4
<1> QED
  BY <1>3, <1>5, <1>6

\* The grade is of a run of this cycle or the unit is missing.
LEMMA GradedIsFresh ==
    ASSUME TInv, NEW u \in Unit
    PROVE  Grade(u) # "missing" <=>
             Manifests(u) # {} /\ runs[u][Greatest(Manifests(u))].fresh
<1>1. ASSUME NEW S \in SUBSET Manifests(u), S # {}
      PROVE  runs[u][Greatest(S)].status # "missing"
  <2>1. Greatest(S) \in Manifests(u)
    BY <1>1, NewestFiled
  <2> QED
    BY <2>1 DEF Manifests, Outcome
<1> QED
  BY <1>1 DEF Grade

-----------------------------------------------------------------------------
(* What a step does to them *)

\* Boxes carry on or end, runs stay.
LEMMA CarryOnOwn ==
    ASSUME RunIsOwn, UNCHANGED runs, \A b \in Box : CarriesOn(b)
    PROVE  /\ RunIsOwn'
           /\ \A w, i : Coming(w, i)' \subseteq Coming(w, i)
<1>1. \A b \in Box : Working(b)' => Working(b) /\ UnitAt(b)' = UnitAt(b)
                                    /\ box'[b].run = box[b].run
  BY DEF CarriesOn, Units, UnitAt
<1>2. RunIsOwn'
  BY <1>1 DEF RunIsOwn
<1> QED
  BY <1>2 DEF Coming, CarriesOn

\* The sum of runs filed, under way and to come does not grow.
LEMMA StaysBounded ==
    ASSUME TInv, TInv', NEW w \in Workload, NEW i \in DOMAIN UnitsOf[w], Bounded(w, i),
           FreshRuns(UnitsOf[w][i])' = FreshRuns(UnitsOf[w][i]),
           Coming(w, i)' \subseteq Coming(w, i),
           LaunchesLeft(w)' <= LaunchesLeft(w)
    PROVE  Bounded(w, i)'
<1> DEFINE F == Cardinality(FreshRuns(UnitsOf[w][i]))
           C == Coming(w, i)
<1>1. F \in Nat
  BY UnitOfType, FreshFinite
<1>2. /\ IsFiniteSet(C) /\ IsFiniteSet(C') /\ Cardinality(C) \in Nat
      /\ Cardinality(C') \in Nat /\ Cardinality(C') <= Cardinality(C)
  BY FS_Subset, FS_CardinalityType DEF Bounded
<1>3. LaunchesLeft(w) \in Nat /\ LaunchesLeft(w)' \in Nat
  <2>1. attempts \in 0..1 /\ attempts' \in 0..1
    BY DEF TInv, TypeOK
  <2> QED
    BY <2>1, LeftType
<1>4. F' = F /\ F + Cardinality(C) + LaunchesLeft(w) <= ProducerAttempts
  BY DEF Bounded
<1>5. F' + Cardinality(C') + LaunchesLeft(w)' <= ProducerAttempts
  BY <1>1, <1>2, <1>3, <1>4 DEF ProducerAttempts
<1>6. UnitsOf[w][i]' = UnitsOf[w][i]
  OBVIOUS
<1> QED
  BY <1>2, <1>5, <1>6 DEF Bounded

LEMMA InitNInv == Init => NInv
<1> SUFFICES ASSUME Init PROVE NInv
  OBVIOUS
<1>1. TInv
  BY InitTInv
<1>2. \A b \in Box : ~Working(b)
  BY GoneType DEF Init, Working
<1>3. \A w, i : Coming(w, i) = {}
  BY <1>2 DEF Coming
<1>4. ASSUME NEW u \in Unit PROVE FreshRuns(u) = {}
  <2>1. CASE runs[u] = <<>>
    BY <2>1 DEF FreshRuns
  <2>2. CASE runs[u] # <<>>
    <3>1. PICK s \in Earlier : runs[u] = <<[status |-> s, fresh |-> FALSE]>>
      BY <2>2 DEF Init, EarlierRun
    <3>2. \A n \in DOMAIN runs[u] : n = 1
      BY <3>1
    <3> QED
      BY <3>1, <3>2 DEF FreshRuns
  <2> QED
    BY <2>1, <2>2
<1>5. ASSUME NEW w \in Workload PROVE LaunchesLeft(w) <= 2 /\ LaunchesLeft(w) \in Nat
  BY DEF Init, LaunchesLeft, ProducerEnded
<1>6. ASSUME NEW w \in Workload, NEW i \in DOMAIN UnitsOf[w] PROVE Bounded(w, i)
  <2>1. FreshRuns(UnitsOf[w][i]) = {}
    BY <1>4, UnitOfType
  <2> QED
    BY <1>3, <1>5, <2>1, FS_EmptySet DEF Bounded, ProducerAttempts
<1> QED
  BY <1>1, <1>2, <1>6 DEF NInv, RunIsOwn, RefusedTwice, RunsBounded, Init

\* The unit of a box that is in a run.
LEMMA InRun ==
    ASSUME TInv, NEW b \in Box, Working(b), box[b].run # 0
    PROVE  /\ UnitAt(b) \in Unit /\ box[b].next <= Len(Units(b))
           /\ box[b].run \in 1..Len(runs[UnitAt(b)]) /\ Len(runs[UnitAt(b)]) \in Nat
<1>1. box[b].next <= Len(Units(b)) /\ box[b].run \in 1..Len(runs[UnitAt(b)])
  BY DEF TInv, BoxFits
<1> QED
  BY <1>1, UnitAtType

\* The runs of a unit before and after another one starts.
LEMMA StartedRuns ==
    ASSUME TInv, NEW b \in Box, StartUnit(b)
    PROVE  LET u == UnitAt(b)
               n == Len(runs[u]) + 1
           IN  /\ u \in Unit /\ n \in Nat /\ n # 0
               /\ DOMAIN runs[u] = 1..(n - 1) /\ DOMAIN runs'[u] = 1..n
               /\ \A j \in 1..(n - 1) : runs'[u][j] = runs[u][j]
               /\ runs'[u][n].status = "unfiled" /\ runs'[u][n].fresh
               /\ \A x \in Unit \ {u} : runs'[x] = runs[x]
<1> DEFINE u == UnitAt(b)
           n == Len(runs[u]) + 1
           r == [status |-> "unfiled", fresh |-> TRUE]
<1>1. /\ u \in Unit /\ r \in RunRec /\ runs' = [runs EXCEPT ![u] = Append(runs[u], r)]
      /\ DOMAIN runs = Unit
  BY StartUnitStep DEF TInv, TypeOK
<1>2. runs[u] \in Seq(RunRec) /\ Len(runs[u]) \in Nat /\ DOMAIN runs[u] = 1..Len(runs[u])
  BY <1>1, RunsOf
<1>3. runs'[u] = Append(runs[u], r) /\ \A x \in Unit \ {u} : runs'[x] = runs[x]
  BY <1>1
<1>4. /\ Append(runs[u], r) \in Seq(RunRec) /\ Len(Append(runs[u], r)) = n
      /\ \A j \in 1..Len(runs[u]) : Append(runs[u], r)[j] = runs[u][j]
      /\ Append(runs[u], r)[n] = r
  BY <1>1, <1>2, AppendProperties
<1>5. DOMAIN runs'[u] = 1..n
  BY <1>3, <1>4, LenProperties
<1> QED
  BY <1>1, <1>2, <1>3, <1>4, <1>5

LEMMA StartUnitOwn ==
    ASSUME TInv, RunIsOwn, NEW b \in Box, StartUnit(b)
    PROVE  RunIsOwn'
<1> DEFINE u == UnitAt(b)
           n == Len(runs[u]) + 1
<1>1. /\ u \in Unit /\ n \in Nat /\ n # 0 /\ n = Len(runs[u]) + 1
      /\ \A j \in 1..(n - 1) : runs'[u][j] = runs[u][j]
      /\ runs'[u][n].status = "unfiled" /\ runs'[u][n].fresh
      /\ \A x \in Unit \ {u} : runs'[x] = runs[x]
  BY StartedRuns
<1>2. /\ \A c \in Box \ {b} : box'[c] = box[c]
      /\ Working(b) /\ UnitAt(b)' = u /\ box'[b].run = n
  BY StartUnitStep
<1> HIDE DEF n
<1>3. ASSUME NEW c \in Box \ {b}, Working(c)', box'[c].run # 0
      PROVE  /\ Working(c) /\ box[c].run # 0 /\ box[c].run = box'[c].run
             /\ UnitAt(c)' = UnitAt(c)
             /\ UnitAt(c) \in Unit /\ box[c].run \in 1..Len(runs[UnitAt(c)])
             /\ runs'[UnitAt(c)][box[c].run] = runs[UnitAt(c)][box[c].run]
             /\ UnitAt(c) = u => box[c].run # n
  <2>1. /\ Working(c) /\ box[c].run # 0 /\ box'[c] = box[c]
        /\ UnitAt(c)' = UnitAt(c)
    BY <1>2, <1>3 DEF Working, Units, UnitAt
  <2>2. UnitAt(c) \in Unit /\ box[c].run \in 1..Len(runs[UnitAt(c)])
        /\ Len(runs[UnitAt(c)]) \in Nat
    BY <2>1, InRun
  <2>3. UnitAt(c) = u => box[c].run \in 1..(n - 1) /\ box[c].run # n
    BY <1>1, <2>2
  <2> QED
    BY <1>1, <2>1, <2>2, <2>3
<1>4. ASSUME NEW c \in Box, Working(c)', box'[c].run # 0
      PROVE  /\ runs'[UnitAt(c)'][box'[c].run].status = "unfiled"
             /\ runs'[UnitAt(c)'][box'[c].run].fresh
  <2>1. CASE c = b
    BY <1>1, <1>2, <2>1
  <2>2. CASE c # b
    BY <1>3, <1>4, <2>2 DEF RunIsOwn
  <2> QED
    BY <2>1, <2>2
<1>5. ASSUME NEW c \in Box, Working(c)', box'[c].run # 0,
             NEW d \in Box, Working(d)', box'[d].run = box'[c].run,
             UnitAt(d)' = UnitAt(c)'
      PROVE  d = c
  <2>1. CASE c = b /\ d # b
    BY <1>2, <1>3, <1>5, <2>1
  <2>2. CASE c # b /\ d = b
    BY <1>2, <1>3, <1>5, <2>2
  <2>3. CASE c # b /\ d # b
    BY <1>3, <1>5, <2>3 DEF RunIsOwn
  <2> QED
    BY <2>1, <2>2, <2>3
<1> QED
  BY <1>4, <1>5 DEF RunIsOwn

LEMMA FinishUnitOwn ==
    ASSUME TInv, RunIsOwn, NEW b \in Box, FinishUnit(b)
    PROVE  RunIsOwn'
<1> DEFINE u == UnitAt(b)
           n == box[b].run
<1>1. PICK s \in Outcome :
         /\ u \in Unit /\ n \in 1..Len(runs[u]) /\ n # 0 /\ Working(b)
         /\ \A x \in Unit \ {u} : runs'[x] = runs[x]
         /\ \A j \in 1..Len(runs[u]) : runs'[u][j].status =
                IF j = n THEN s ELSE runs[u][j].status
         /\ \A j \in 1..Len(runs[u]) : runs'[u][j].fresh = runs[u][j].fresh
         /\ box'[b].run = 0
         /\ \A c \in Box \ {b} : box'[c] = box[c]
  BY FinishUnitStep
<1>2. ASSUME NEW c \in Box, Working(c)', box'[c].run # 0
      PROVE  /\ c # b /\ Working(c) /\ box'[c].run = box[c].run
             /\ UnitAt(c)' = UnitAt(c)
             /\ runs'[UnitAt(c)][box[c].run].status = "unfiled"
             /\ runs'[UnitAt(c)][box[c].run].fresh
  <2>1. /\ c # b /\ Working(c) /\ box'[c] = box[c] /\ UnitAt(c)' = UnitAt(c)
    BY <1>1, <1>2 DEF Working, Units, UnitAt
  <2>2. UnitAt(c) \in Unit /\ box[c].run \in 1..Len(runs[UnitAt(c)])
    BY <1>2, <2>1, InRun
  <2>3. /\ runs[UnitAt(c)][box[c].run].status = "unfiled"
        /\ runs[UnitAt(c)][box[c].run].fresh
        /\ UnitAt(c) = u => box[c].run # n
    BY <1>1, <1>2, <2>1 DEF RunIsOwn
  <2> QED
    BY <1>1, <2>1, <2>2, <2>3
<1> QED
  BY <1>2 DEF RunIsOwn

\* A run that starts changes no grade.
LEMMA StartUnitGrade ==
    ASSUME TInv, NEW b \in Box, StartUnit(b), NEW u \in Unit
    PROVE  Grade(u)' = Grade(u) /\ FreshVisits(u)' = FreshVisits(u)
<1> DEFINE n == Len(runs[u]) + 1
<1>1. CASE u # UnitAt(b)
  <2>1. runs'[u] = runs[u]
    BY <1>1, StartedRuns
  <2>2. Manifests(u)' = Manifests(u)
    BY <2>1 DEF Manifests
  <2> QED
    BY <2>1, <2>2, SameGrade
<1>2. CASE u = UnitAt(b)
  <2>1. /\ n \in Nat /\ n # 0
        /\ DOMAIN runs[u] = 1..(n - 1) /\ DOMAIN runs'[u] = 1..n
        /\ \A j \in 1..(n - 1) : runs'[u][j] = runs[u][j]
        /\ runs'[u][n].status = "unfiled"
    BY <1>2, StartedRuns
  <2>2. Manifests(u)' = Manifests(u)
    BY <2>1 DEF Manifests, Outcome
  <2>3. \A i \in Manifests(u) : runs'[u][i] = runs[u][i]
    BY <2>1 DEF Manifests
  <2> QED
    BY <2>2, <2>3, SameGrade
<1> QED
  BY <1>1, <1>2

\* A run that is filed is another visit of its unit, and the newest one is of
\* this cycle still.
LEMMA FinishUnitGrade ==
    ASSUME TInv, RunIsOwn, NEW b \in Box, FinishUnit(b), NEW u \in Unit
    PROVE  /\ u # UnitAt(b) => /\ Grade(u)' = Grade(u)
                               /\ FreshVisits(u)' = FreshVisits(u)
           /\ u = UnitAt(b) /\ Grade(u) # "missing" =>
                /\ Grade(u)' # "missing" /\ FreshVisits(u)' >= 2
<1> DEFINE n == box[b].run
           M == Manifests(u)
<1>1. PICK s \in Outcome :
         LET v == UnitAt(b)
         IN  /\ v \in Unit /\ n \in 1..Len(runs[v]) /\ Working(b) /\ n # 0
             /\ \A x \in Unit : Len(runs'[x]) = Len(runs[x])
             /\ runs' \in [Unit -> Seq(RunRec)]
             /\ \A x \in Unit \ {v} : runs'[x] = runs[x]
             /\ \A j \in 1..Len(runs[v]) : runs'[v][j].status =
                    IF j = n THEN s ELSE runs[v][j].status
             /\ \A j \in 1..Len(runs[v]) : runs'[v][j].fresh = runs[v][j].fresh
  BY FinishUnitStep
<1>2. CASE u # UnitAt(b)
  <2>1. runs'[u] = runs[u]
    BY <1>1, <1>2
  <2>2. Manifests(u)' = Manifests(u)
    BY <2>1 DEF Manifests
  <2> QED
    BY <1>2, <2>1, <2>2, SameGrade
<1>3. ASSUME u = UnitAt(b), Grade(u) # "missing"
      PROVE  Grade(u)' # "missing" /\ FreshVisits(u)' >= 2
  <2>1. /\ DOMAIN runs[u] = 1..Len(runs[u]) /\ Len(runs[u]) \in Nat
        /\ DOMAIN runs'[u] = 1..Len(runs[u])
    BY <1>1, RunsOf, LenProperties
  <2>2. runs[u][n].status = "unfiled" /\ runs[u][n].fresh /\ n \in 1..Len(runs[u])
    BY <1>1, <1>3 DEF RunIsOwn
  <2>3. /\ n \notin M /\ M' = M \cup {n} /\ M \in SUBSET (0..Len(runs[u]))
        /\ M' \in SUBSET (0..Len(runs[u]))
    BY <1>1, <1>3, <2>1, <2>2 DEF Manifests, Outcome
  <2>4. M # {} /\ runs[u][Greatest(M)].fresh
    BY <1>3, GradedIsFresh
  <2>5. Greatest(M) \in M /\ \A m \in M : m <= Greatest(M)
    BY <2>4, NewestFiled
  <2>6. Greatest(M') \in M' /\ \A m \in M' : m <= Greatest(M')
    BY <2>1, <2>3, GreatestExists
  <2>7. Greatest(M') = n \/ Greatest(M') = Greatest(M)
    <3>1. Greatest(M') \in M => Greatest(M') <= Greatest(M) /\ Greatest(M) <= Greatest(M')
      BY <2>3, <2>5, <2>6
    <3>2. Greatest(M) \in Nat /\ Greatest(M') \in Nat
      BY <2>1, <2>3, <2>5, <2>6
    <3> QED
      BY <2>3, <2>6, <3>1, <3>2
  <2>a. runs'[u][n].fresh /\ runs'[u][Greatest(M)].fresh /\ Greatest(M) # n
    <3>1. \A j \in 1..Len(runs[u]) : runs'[u][j].fresh = runs[u][j].fresh
      BY <1>1, <1>3
    <3>2. Greatest(M) \in 1..Len(runs[u])
      BY <2>1, <2>5 DEF Manifests
    <3> QED
      BY <2>2, <2>3, <2>4, <2>5, <3>1, <3>2
  <2>8. runs'[u][Greatest(M')].fresh
    BY <2>7, <2>a
  <2>9. Grade(u)' # "missing"
    <3>1. ASSUME NEW S \in SUBSET M', S # {}
          PROVE  runs'[u][Greatest(S)].status # "missing"
      <4>1. Greatest(S) \in S
        BY <2>1, <2>3, <3>1, GreatestExists
      <4> QED
        BY <3>1, <4>1 DEF Manifests, Outcome
    <3>2. M' # {}
      BY <2>3
    <3> HIDE DEF M
    <3> QED
      BY <2>8, <3>1, <3>2 DEF Grade, M
  <2>10. FreshVisits(u)' >= 2
    <3> DEFINE A == {i \in M : runs[u][i].fresh}
               B == {Greatest(M), n}
    <3>1. B \subseteq A' /\ Greatest(M) # n
      BY <2>3, <2>5, <2>a
    <3>2. IsFiniteSet(A')
      <4>1. A' \in SUBSET Nat /\ \A m \in A' : m <= Len(runs[u])
        BY <2>1, <2>3
      <4> QED
        BY <2>1, <4>1, FS_BoundedSetOfNaturals
    <3>3. IsFiniteSet({Greatest(M)}) /\ Cardinality({Greatest(M)}) = 1
      BY FS_Singleton
    <3>4. B = {Greatest(M)} \cup {n} /\ n \notin {Greatest(M)}
      BY <3>1
    <3>5. Cardinality(B) = 2
      <4>1. Cardinality({Greatest(M)} \cup {n}) = Cardinality({Greatest(M)}) + 1
        <5> HIDE DEF n
        <5> QED
          BY <3>3, <3>4, FS_AddElement
      <4> QED
        BY <3>3, <3>4, <4>1
    <3>6. Cardinality(B) <= Cardinality(A')
      BY <3>1, <3>2, FS_Subset
    <3>7. Cardinality(A') \in Nat
      BY <3>2, FS_CardinalityType
    <3>8. FreshVisits(u)' = Cardinality(A')
      BY DEF FreshVisits
    <3> QED
      BY <3>5, <3>6, <3>7, <3>8
  <2> QED
    BY <2>9, <2>10
<1> QED
  BY <1>2, <1>3

\* A box that starts a run is no longer to come.
LEMMA StartUnitBounded ==
    ASSUME TInv, TInv', WaitedOnce, NEW b \in Box, StartUnit(b),
           NEW w \in Workload, NEW i \in DOMAIN UnitsOf[w],
           UnitsOf[w][i] \in Waited, Bounded(w, i)
    PROVE  Bounded(w, i)'
<1> DEFINE u == UnitsOf[w][i]
           C == Coming(w, i)
<1>1. /\ Working(b) /\ box[b].run = 0 /\ box[b].next <= Len(Units(b))
      /\ UNCHANGED <<ppc, item, attempts>>
  BY DEF StartUnit, producerVars
<1>2. /\ box[b].work \in Workload /\ box[b].next \in DOMAIN UnitsOf[box[b].work]
      /\ UnitAt(b) = UnitsOf[box[b].work][box[b].next]
  BY <1>1, PlaceOf
<1>3. LaunchesLeft(w)' = LaunchesLeft(w)
  BY <1>1 DEF LaunchesLeft
<1>4. /\ \A c \in Box \ {b} : box'[c] = box[c]
      /\ box'[b].work = box[b].work /\ box'[b].next = box[b].next
      /\ box'[b].run # 0
  <2>1. /\ \A c \in Box \ {b} : box'[c] = box[c]
        /\ box'[b].run = Len(runs[UnitAt(b)]) + 1
    BY StartUnitStep
  <2>2. box'[b].work = box[b].work /\ box'[b].next = box[b].next
    BY DEF StartUnit, TInv, TypeOK
  <2>3. Len(runs[UnitAt(b)]) \in Nat
    BY <1>1, UnitAtType
  <2> QED
    BY <2>1, <2>2, <2>3
<1>5. C' \subseteq C
  BY <1>1, <1>4 DEF Coming, Working
<1>6. CASE w = box[b].work /\ i = box[b].next
  <2> DEFINE n == Len(runs[u]) + 1
             F == FreshRuns(u)
  <2>a. u = UnitAt(b)
    BY <1>2, <1>6
  <2> HIDE DEF u
  <2>1. /\ u \in Unit /\ n \in Nat /\ n # 0
        /\ DOMAIN runs[u] = 1..(n - 1) /\ DOMAIN runs'[u] = 1..n
        /\ \A j \in 1..(n - 1) : runs'[u][j] = runs[u][j]
        /\ runs'[u][n].fresh
    BY <2>a, StartedRuns
  <2> HIDE DEF n
  <2>2. F' = F \cup {n} /\ n \notin F
    BY <2>1 DEF FreshRuns, u
  <2>3. b \in C /\ b \notin C'
    <3>1. box[b].next \in Nat
      BY DEF TInv, TypeOK
    <3> QED
      BY <1>1, <1>4, <1>6, <3>1 DEF Coming
  <2>4. C' \subseteq C \ {b}
    BY <1>5, <2>3
  <2>5. IsFiniteSet(F) /\ Cardinality(F) \in Nat
    BY <2>1, FreshFinite
  <2>6. IsFiniteSet(C) /\ Cardinality(C) \in Nat
    BY FS_CardinalityType DEF Bounded
  <2> HIDE DEF C, F
  <2>7. Cardinality(F') = Cardinality(F) + 1
    BY <2>2, <2>5, FS_AddElement
  <2>8. IsFiniteSet(C \ {b}) /\ Cardinality(C \ {b}) = Cardinality(C) - 1
    BY <2>3, <2>6, FS_RemoveElement
  <2>9. /\ IsFiniteSet(C') /\ Cardinality(C') <= Cardinality(C) - 1
        /\ Cardinality(C') \in Nat
    BY <2>4, <2>8, FS_Subset, FS_CardinalityType
  <2>10. Cardinality(F) + Cardinality(C) + LaunchesLeft(w) <= 2
    BY DEF Bounded, C, F, u, ProducerAttempts
  <2>11. LaunchesLeft(w) \in Nat
    BY LeftType DEF TInv, TypeOK
  <2>12. Cardinality(F') + Cardinality(C') + LaunchesLeft(w)' <= 2
    BY <1>3, <2>5, <2>6, <2>7, <2>9, <2>10, <2>11
  <2> QED
    BY <2>9, <2>12 DEF Bounded, C, F, u, ProducerAttempts
<1>7. CASE ~(w = box[b].work /\ i = box[b].next)
  <2>1. u # UnitAt(b) /\ u \in Unit
    BY <1>2, <1>7, UnitOfType DEF WaitedOnce
  <2>2. runs'[u] = runs[u]
    BY <2>1, StartedRuns
  <2>3. FreshRuns(u)' = FreshRuns(u)
    BY <2>2 DEF FreshRuns
  <2>4. LaunchesLeft(w) \in Nat
    BY LeftType DEF TInv, TypeOK
  <2> QED
    BY <1>3, <1>5, <2>3, <2>4, StaysBounded
<1> QED
  BY <1>6, <1>7

LEMMA FinishUnitBounded ==
    ASSUME TInv, TInv', NEW b \in Box, FinishUnit(b),
           NEW w \in Workload, NEW i \in DOMAIN UnitsOf[w], Bounded(w, i)
    PROVE  Bounded(w, i)'
<1> DEFINE u == UnitsOf[w][i]
<1>1. /\ UnitAt(b) \in Unit /\ Working(b) /\ box[b].run # 0
      /\ box'[b].work = box[b].work /\ box'[b].next = box[b].next + 1
      /\ \A c \in Box \ {b} : box'[c] = box[c]
      /\ runs' \in [Unit -> Seq(RunRec)]
      /\ \A x \in Unit : Len(runs'[x]) = Len(runs[x])
      /\ \A x \in Unit \ {UnitAt(b)} : runs'[x] = runs[x]
      /\ \A j \in 1..Len(runs[UnitAt(b)]) :
            runs'[UnitAt(b)][j].fresh = runs[UnitAt(b)][j].fresh
  BY FinishUnitStep
<1>2. u \in Unit
  BY UnitOfType
<1>3. DOMAIN runs'[u] = 1..Len(runs[u]) /\ DOMAIN runs[u] = 1..Len(runs[u])
  BY <1>1, <1>2, RunsOf, LenProperties
<1>4. FreshRuns(u)' = FreshRuns(u)
  BY <1>1, <1>2, <1>3 DEF FreshRuns
<1>5. Coming(w, i)' \subseteq Coming(w, i)
  <2> SUFFICES ASSUME NEW c \in Box, Working(c)', box'[c].work = w,
                      box'[c].next < i \/ (box'[c].next = i /\ box'[c].run = 0)
               PROVE  /\ Working(c) /\ box[c].work = w
                      /\ box[c].next < i \/ (box[c].next = i /\ box[c].run = 0)
    BY DEF Coming
  <2>1. CASE c # b
    BY <1>1, <2>1 DEF Working
  <2>2. CASE c = b
    <3>1. box[b].next \in Nat /\ i \in Nat
      <4>1. UnitsOf[w] \in Seq(Unit)
        BY ConstantsAssumption, ElementOfSeq, LenProperties DEF Workload
      <4>2. Len(UnitsOf[w]) \in Nat /\ i \in 1..Len(UnitsOf[w])
        BY <4>1, LenProperties
      <4>3. box[b].next \in Nat
        BY DEF TInv, TypeOK
      <4> QED
        BY <4>2, <4>3
    <3> QED
      BY <1>1, <2>2, <3>1
  <2> QED
    BY <2>1, <2>2
<1>6. LaunchesLeft(w)' = LaunchesLeft(w) /\ LaunchesLeft(w) \in Nat
  BY LeftType DEF LaunchesLeft, FinishUnit, producerVars, TInv, TypeOK
<1> QED
  BY <1>4, <1>5, <1>6, StaysBounded

\* A launch the collection knows of is one less it may make.
LEMMA LaunchBounded ==
    ASSUME TInv, TInv', LaunchWorkload, "unanswered" \notin stray',
           NEW w \in Workload, NEW i \in DOMAIN UnitsOf[w], Bounded(w, i)
    PROVE  Bounded(w, i)'
<1> DEFINE u == UnitsOf[w][i]
           C == Coming(w, i)
           F == FreshRuns(u)
<1>1. UNCHANGED runs /\ ppc = "launch" /\ attempts \in 0..1 /\ item \in Workload
  BY DEF LaunchWorkload, TInv, TypeOK
<1>2. F' = F /\ F = FreshRuns(u)
  BY <1>1 DEF FreshRuns
<1>3. /\ LaunchesLeft(w) \in Nat /\ LaunchesLeft(w)' \in Nat
      /\ item \in Int /\ w \in Int
  <2>1. attempts' \in 0..1
    BY DEF TInv, TypeOK
  <2>2. Workload = 1..Len(UnitsOf) /\ Len(UnitsOf) \in Nat
    BY ConstantsAssumption, LenProperties DEF Workload
  <2> QED
    BY <1>1, <2>1, <2>2, LeftType
<1>4. CASE StartBox
  <2>1. PICK nb \in Box : /\ \A c \in Box \ {nb} : box'[c] = box[c]
                          /\ box' # box /\ box'[nb].work = item
    BY <1>1, <1>4, StartBoxStep
  <2>2. ppc' = "poll" /\ UNCHANGED <<item, attempts>>
    BY <2>1 DEF LaunchWorkload
  <2>3. CASE w = item
    <3>1. C' \subseteq C \cup {nb}
      BY <2>1 DEF Coming, Working
    <3>2. IsFiniteSet(C) /\ Cardinality(C) \in Nat
      BY FS_CardinalityType DEF Bounded
    <3>3. IsFiniteSet(F) /\ Cardinality(F) \in Nat
      BY UnitOfType, FreshFinite
    <3>4. LaunchesLeft(w)' = LaunchesLeft(w) - 1
      BY <1>1, <1>3, <2>2, <2>3 DEF LaunchesLeft, ProducerEnded
    <3>5. Cardinality(F) + Cardinality(C) + LaunchesLeft(w) <= 2
      BY DEF Bounded, ProducerAttempts
    <3> HIDE DEF C, F
    <3>6. IsFiniteSet(C \cup {nb})
          /\ Cardinality(C \cup {nb}) <= Cardinality(C) + 1
          /\ Cardinality(C \cup {nb}) \in Nat
      <4>1. \A x : /\ IsFiniteSet(C \cup {x})
                  /\ Cardinality(C \cup {x}) \in {Cardinality(C), Cardinality(C) + 1}
        BY <3>2, FS_AddElement
      <4> QED
        BY <3>2, <4>1
    <3>7. /\ IsFiniteSet(C') /\ Cardinality(C') <= Cardinality(C) + 1
          /\ Cardinality(C') \in Nat
      BY <3>1, <3>2, <3>6, FS_Subset, FS_CardinalityType
    <3>8. Cardinality(F') + Cardinality(C') + LaunchesLeft(w)' <= 2
      BY <1>2, <1>3, <3>2, <3>3, <3>4, <3>5, <3>7
    <3> QED
      BY <3>7, <3>8 DEF Bounded, C, F, ProducerAttempts
  <2>4. CASE w # item
    <3>1. C' \subseteq C
      BY <2>1, <2>4 DEF Coming, Working
    <3>2. LaunchesLeft(w)' <= LaunchesLeft(w)
      BY <1>1, <1>3, <2>2, <2>4 DEF LaunchesLeft, ProducerEnded
    <3> QED
      BY <1>2, <3>1, <3>2, StaysBounded
  <2> QED
    BY <2>3, <2>4
<1>5. CASE ~StartBox
  <2>1. /\ UNCHANGED box
        /\ \/ CheckRetryBudget
           \/ ppc' = "failed" /\ UNCHANGED <<item, attempts, cur>>
    BY <1>5 DEF LaunchWorkload
  <2>2. LaunchesLeft(w)' <= LaunchesLeft(w)
    BY <1>1, <1>3, <2>1 DEF LaunchesLeft, CheckRetryBudget, ProducerEnded
  <2>3. C' \subseteq C
    BY <2>1 DEF Coming, Working
  <2> QED
    BY <1>2, <2>2, <2>3, StaysBounded
<1> QED
  BY <1>4, <1>5

\* Any other step leaves the runs alone, starts no box and spends launches.
LEMMA QuietStep ==
    ASSUME TInv, TInv', [Next]_vars, ~LaunchWorkload,
           \A b \in Box : ~StartUnit(b) /\ ~FinishUnit(b)
    PROVE  /\ UNCHANGED runs
           /\ \A b \in Box : CarriesOn(b)
           /\ \A w \in Workload : LaunchesLeft(w)' <= LaunchesLeft(w)
<1>1. /\ \A w \in Workload : w \in Int
      /\ item \in Int /\ attempts \in 0..1 /\ attempts' \in 0..1
  <2>1. Workload = 1..Len(UnitsOf) /\ Len(UnitsOf) \in Nat
    BY ConstantsAssumption, LenProperties DEF Workload
  <2> QED
    BY <2>1 DEF TInv, TypeOK
<1>2. \A w : LaunchesLeft(w) \in Nat /\ LaunchesLeft(w)' \in Nat
  BY <1>1, LeftType
<1>3. ASSUME UNCHANGED <<ppc, item, attempts>>, NEW w \in Workload
      PROVE  LaunchesLeft(w)' <= LaunchesLeft(w)
  <2>1. LaunchesLeft(w)' = LaunchesLeft(w)
    BY <1>3 DEF LaunchesLeft
  <2> QED
    BY <1>2, <2>1
<1>4. CASE Begin
  <2>1. /\ ppc = "start" /\ UNCHANGED <<item, attempts, box, runs>>
        /\ ppc' = "launch" \/ ppc' \in ProducerEnded
    BY <1>4 DEF Begin, ProducerEnded
  <2>2. \A w \in Workload : LaunchesLeft(w)' <= LaunchesLeft(w)
    BY <1>1, <1>2, <2>1 DEF LaunchesLeft, ProducerEnded
  <2> QED
    BY <2>1, <2>2 DEF CarriesOn, Working
<1>5. CASE PollWorkload
  <2>1. Abandon /\ UNCHANGED runs /\ ppc = "poll"
        /\ (NextWorkload \/ CheckRetryBudget)
    BY <1>5 DEF PollWorkload
  <2>2. ASSUME NEW w \in Workload PROVE LaunchesLeft(w)' <= LaunchesLeft(w)
    <3>1. CASE NextWorkload
      BY <1>1, <1>2, <2>1, <3>1 DEF NextWorkload, LaunchesLeft, ProducerEnded
    <3>2. CASE CheckRetryBudget
      <4>1. item' = item
        BY <3>2 DEF CheckRetryBudget
      <4>2. CASE attempts = 0
        <5>1. attempts' = 1 /\ ppc' = "launch"
          BY <3>2, <4>2 DEF CheckRetryBudget
        <5> QED
          BY <1>1, <1>2, <2>1, <4>1, <4>2, <5>1 DEF LaunchesLeft, ProducerEnded
      <4>3. CASE attempts = 1
        <5>1. ppc' = "failed"
          BY <3>2, <4>3 DEF CheckRetryBudget
        <5>2. LaunchesLeft(w)' = 0
          BY <5>1 DEF LaunchesLeft, ProducerEnded
        <5> QED
          BY <1>2, <5>2
      <4> QED
        BY <1>1, <4>2, <4>3
    <3> QED
      BY <2>1, <3>1, <3>2
  <2> QED
    BY <2>1, <2>2, AbandonStep
<1>6. CASE TimedOut
  <2>1. Abandon /\ UNCHANGED runs /\ ppc' = "failed"
    BY <1>6 DEF TimedOut
  <2>2. \A w : LaunchesLeft(w)' = 0
    BY <2>1 DEF LaunchesLeft, ProducerEnded
  <2> QED
    BY <1>2, <2>1, <2>2, AbandonStep
<1>7. CASE VerifyRunManifests
  <2>1. /\ UNCHANGED <<item, attempts, box, runs>> /\ ppc' \in ProducerEnded
    BY <1>7 DEF VerifyRunManifests, ProducerEnded
  <2>2. \A w : LaunchesLeft(w)' = 0
    BY <2>1 DEF LaunchesLeft, ProducerEnded
  <2> QED
    BY <1>2, <2>1, <2>2 DEF CarriesOn, Working
<1>8. ASSUME NEW b \in Box, ExitBox(b) \/ BoxDies(b)
      PROVE  /\ UNCHANGED <<runs, ppc, item, attempts>>
             /\ \A c \in Box : CarriesOn(c)
  <2>1. PICK s \in {"exited", "died"} : box' = Ended(b, s)
    BY <1>8 DEF ExitBox, BoxDies
  <2> QED
    BY <1>8, <2>1, EndedStep DEF ExitBox, BoxDies, producerVars
<1>9. CASE Tick
  <2>1. /\ UNCHANGED <<runs, ppc, item, attempts>>
        /\ \A b \in Box : box'[b] =
              IF Working(b) THEN [box[b] EXCEPT !.age = @ + 1] ELSE box[b]
    BY <1>9 DEF Tick, producerVars
  <2>2. \A b \in Box : box[b] \in BoxRec
    BY DEF TInv, TypeOK, BoxRec
  <2>3. \A b \in Box : CarriesOn(b)
    BY <2>1, <2>2 DEF CarriesOn, Working, BoxRec
  <2> QED
    BY <1>3, <2>1, <2>3
<1>10. CASE Poll \/ UNCHANGED vars
  <2>1. UNCHANGED <<box, runs, ppc, item, attempts>>
    BY <1>10 DEF Poll, vars, producerVars
  <2> QED
    BY <1>3, <2>1 DEF CarriesOn, Working
<1> QED
  BY <1>3, <1>4, <1>5, <1>6, <1>7, <1>8, <1>9, <1>10
     DEF Next, Collect, BoxStep

\* The consumer refuses once every unit it waits for is graded for good, and
\* what it refused over stays filed.
LEMMA RefusedTwiceStays ==
    ASSUME NInv, TInv', [Next]_vars
    PROVE  RefusedTwice'
<1> SUFFICES ASSUME cpc' = "refused", NEW u \in Waited
             PROVE  /\ Grade(u)' # "missing"
                    /\ Grade(u)' \in {"failed", "empty"} => FreshVisits(u)' >= 2
  BY DEF RefusedTwice
<1>1. u \in Unit
  BY ConstantsAssumption
<1>2. ASSUME NEW b \in Box, StartUnit(b) \/ FinishUnit(b)
      PROVE  /\ Grade(u)' # "missing"
             /\ Grade(u)' \in {"failed", "empty"} => FreshVisits(u)' >= 2
  <2>1. cpc = "refused"
    BY <1>2 DEF StartUnit, FinishUnit, consumerVars
  <2>2. /\ Grade(u) # "missing"
        /\ Grade(u) \in {"failed", "empty"} => FreshVisits(u) >= 2
    BY <2>1 DEF NInv, RefusedTwice
  <2> QED
    BY <1>1, <1>2, <2>2, StartUnitGrade, FinishUnitGrade DEF NInv
<1>3. ASSUME \A b \in Box : ~StartUnit(b) /\ ~FinishUnit(b)
      PROVE  /\ Grade(u)' # "missing"
             /\ Grade(u)' \in {"failed", "empty"} => FreshVisits(u)' >= 2
  <2>1. UNCHANGED runs
    BY <1>3, QuietStep DEF LaunchWorkload, NInv
  <2>2. Manifests(u)' = Manifests(u)
    BY <2>1 DEF Manifests
  <2>3. Grade(u)' = Grade(u) /\ FreshVisits(u)' = FreshVisits(u)
    BY <1>1, <2>1, <2>2, SameGrade DEF NInv
  <2>4. CASE cpc = "refused"
    BY <2>3, <2>4 DEF NInv, RefusedTwice
  <2>5. CASE cpc # "refused"
    <3>1. Poll
      BY <1>3, <2>5 DEF Next, Collect, Begin, LaunchWorkload, PollWorkload,
         VerifyRunManifests, TimedOut, BoxStep, ExitBox, BoxDies, Tick,
         consumerVars, vars
    <3>2. Settled
      BY <3>1 DEF Poll
    <3>3. Grade(u) # "missing" /\ ~RetryPending(u)
      BY <3>2 DEF Settled
    <3>4. FreshVisits(u) \in Nat
      <4>1. {i \in Manifests(u) : runs[u][i].fresh} \subseteq FreshRuns(u)
        BY DEF Manifests, FreshRuns
      <4> QED
        BY <1>1, <4>1, FreshFinite, FS_Subset, FS_CardinalityType
           DEF FreshVisits, NInv
    <3> QED
      BY <2>3, <3>3, <3>4 DEF RetryPending, ProducerAttempts
  <2> QED
    BY <2>4, <2>5
<1> QED
  BY <1>2, <1>3

LEMMA NextNInv ==
    ASSUME WaitedOnce
    PROVE  NInv /\ [Next]_vars => NInv'
<1> SUFFICES ASSUME NInv, [Next]_vars PROVE NInv'
  OBVIOUS
<1> USE DEF NInv
<1>1. TInv'
  BY NextTInv
<1>2. RefusedTwice'
  BY <1>1, RefusedTwiceStays
<1>3. RunIsOwn'
  <2>1. CASE LaunchWorkload
    <3>1. UNCHANGED runs
      BY <2>1 DEF LaunchWorkload
    <3>2. CASE StartBox
      <4>1. PICK nb \in Box : /\ box'[nb].run = 0
                              /\ \A b \in Box \ {nb} : box'[b] = box[b]
        BY <3>1, <3>2, StartBoxStep
      <4>2. \A b \in Box : Working(b)' /\ box'[b].run # 0 =>
               Working(b) /\ box'[b] = box[b] /\ UnitAt(b)' = UnitAt(b)
        BY <4>1 DEF Working, Units, UnitAt
      <4> QED
        BY <3>1, <4>2 DEF RunIsOwn
    <3>3. CASE ~StartBox
      <4>1. UNCHANGED box
        BY <2>1, <3>3 DEF LaunchWorkload
      <4> QED
        BY <3>1, <4>1, CarryOnOwn DEF CarriesOn, Working
    <3> QED
      BY <3>2, <3>3
  <2>2. ASSUME ~LaunchWorkload, \A b \in Box : ~StartUnit(b) /\ ~FinishUnit(b)
        PROVE  RunIsOwn'
    <3>1. UNCHANGED runs /\ \A b \in Box : CarriesOn(b)
      BY <1>1, <2>2, QuietStep
    <3> QED
      BY <3>1, CarryOnOwn
  <2> QED
    BY <2>1, <2>2, StartUnitOwn, FinishUnitOwn
<1>4. RunsBounded'
  <2> SUFFICES ASSUME "unanswered" \notin stray',
                      NEW w \in Workload, NEW i \in DOMAIN UnitsOf[w],
                      UnitsOf[w][i] \in Waited
               PROVE  Bounded(w, i)'
    BY DEF RunsBounded
  <2>1. "unanswered" \notin stray
    BY DEF Next, Collect, Begin, LaunchWorkload, PollWorkload, Abandon,
       VerifyRunManifests, TimedOut, BoxStep, StartUnit, FinishUnit, ExitBox,
       BoxDies, Poll, Tick, vars
  <2>2. Bounded(w, i)
    BY <2>1 DEF RunsBounded
  <2>3. CASE LaunchWorkload
    BY <1>1, <2>2, <2>3, LaunchBounded
  <2>4. ASSUME ~LaunchWorkload, \A b \in Box : ~StartUnit(b) /\ ~FinishUnit(b)
        PROVE  Bounded(w, i)'
    <3>1. /\ UNCHANGED runs /\ \A b \in Box : CarriesOn(b)
          /\ LaunchesLeft(w)' <= LaunchesLeft(w)
      BY <1>1, <2>4, QuietStep
    <3>2. FreshRuns(UnitsOf[w][i])' = FreshRuns(UnitsOf[w][i])
      BY <3>1 DEF FreshRuns
    <3>3. Coming(w, i)' \subseteq Coming(w, i)
      BY <3>1, CarryOnOwn
    <3> QED
      BY <1>1, <2>2, <3>1, <3>2, <3>3, StaysBounded
  <2> QED
    BY <1>1, <2>2, <2>3, <2>4, StartUnitBounded, FinishUnitBounded
<1> QED
  BY <1>1, <1>2, <1>3, <1>4

\* A refusal over failed runs stays one: whatever the retry of the producer
\* still does, no unit the consumer refused over turns ok, if every unit it
\* waits for is run by one workload, once.
THEOREM RefusalIsFinal ==
    ASSUME WaitedOnce
    PROVE  Spec => FailedTwiceIsFinal
<1> DEFINE Final == cpc = "refused" /\ "unanswered" \notin stray
         /\ (\A u \in Waited : Grade(u) \in {"ok", "failed", "empty"}) /\ ~Ready
         => ~Ready'
<1>1. ASSUME NInv, [Next]_vars PROVE Final
  <2> SUFFICES ASSUME cpc = "refused", "unanswered" \notin stray,
                      \A u \in Waited : Grade(u) \in {"ok", "failed", "empty"},
                      ~Ready
               PROVE  ~Ready'
    OBVIOUS
  <2> USE <1>1 DEF NInv
  <2>1. PICK u \in Waited : Grade(u) # "ok"
    BY DEF Ready, Passes
  <2>2. u \in Unit /\ Grade(u) \in {"failed", "empty"} /\ FreshVisits(u) >= 2
    BY <2>1, ConstantsAssumption DEF RefusedTwice
  <2>3. ASSUME NEW b \in Box, FinishUnit(b), UnitAt(b) = u PROVE FALSE
    <3> DEFINE V == {i \in Manifests(u) : runs[u][i].fresh}
               n == box[b].run
    <3>1. Working(b) /\ n # 0
      BY <2>3 DEF FinishUnit
    <3>2. /\ box[b].next <= Len(Units(b))
          /\ n \in 1..Len(runs[u]) /\ runs[u][n].status = "unfiled"
          /\ runs[u][n].fresh
      BY <2>3, <3>1, InRun DEF RunIsOwn
    <3>3. n \in FreshRuns(u) /\ n \notin V /\ V \subseteq FreshRuns(u)
      BY <2>2, <3>2, RunsOf DEF FreshRuns, Manifests, Outcome
    <3>4. IsFiniteSet(FreshRuns(u)) /\ Cardinality(FreshRuns(u)) \in Nat
      BY <2>2, FreshFinite
    <3> HIDE DEF V, n
    <3>5. IsFiniteSet(V) /\ Cardinality(V) \in Nat
      BY <3>3, <3>4, FS_Subset, FS_CardinalityType
    <3>6. IsFiniteSet(V \cup {n}) /\ Cardinality(V \cup {n}) = Cardinality(V) + 1
      BY <3>3, <3>5, FS_AddElement
    <3>7. Cardinality(V \cup {n}) <= Cardinality(FreshRuns(u))
      BY <3>3, <3>4, FS_Subset
    <3>8. Cardinality(V) >= 2
      BY <2>2 DEF FreshVisits, V
    <3>9. Cardinality(FreshRuns(u)) <= 2
      <4>1. PICK w \in Workload : \E i \in DOMAIN UnitsOf[w] : u = UnitsOf[w][i]
        BY <2>3, <3>1, <3>2, PlaceOf
      <4>2. PICK i \in DOMAIN UnitsOf[w] : u = UnitsOf[w][i]
        BY <4>1
      <4>3. Bounded(w, i)
        BY <4>2 DEF RunsBounded
      <4>4. Cardinality(Coming(w, i)) \in Nat /\ LaunchesLeft(w) \in Nat
        BY <4>3, FS_CardinalityType, LeftType DEF Bounded, TInv, TypeOK
      <4> QED
        BY <3>4, <4>2, <4>3, <4>4 DEF Bounded, ProducerAttempts
    <3> QED
      BY <3>4, <3>5, <3>6, <3>7, <3>8, <3>9
  <2>4. Grade(u)' = Grade(u)
    <3>1. CASE \E b \in Box : StartUnit(b) \/ FinishUnit(b)
      BY <2>2, <2>3, <3>1, StartUnitGrade, FinishUnitGrade
    <3>2. CASE ~\E b \in Box : StartUnit(b) \/ FinishUnit(b)
      <4>1. UNCHANGED runs
        BY <3>2, NextTInv, QuietStep DEF LaunchWorkload
      <4>2. Manifests(u)' = Manifests(u)
        BY <4>1 DEF Manifests
      <4> QED
        BY <2>2, <4>1, <4>2, SameGrade
    <3> QED
      BY <3>1, <3>2
  <2> QED
    BY <2>1, <2>4 DEF Ready, Passes
<1>2. NInv /\ [Next]_vars => [Final]_vars
  BY <1>1
<1>3. Init => NInv
  BY InitNInv
<1>4. NInv /\ [Next]_vars => NInv'
  BY NextNInv
<1> QED
  BY <1>2, <1>3, <1>4, PTL DEF Spec, FailedTwiceIsFinal

-----------------------------------------------------------------------------
(* The poll budget *)
(* The argument: while no workload is launched twice, the consumer has not   *)
(* polled more often than the lag, one cap for every workload that is over   *)
(* and the age of the box at work.                                           *)

\* The polls up to the launch of workload w, at most.
Spent(w) == Lag + (w - 1) * Cap

LEMMA SpentType == \A w \in Nat \ {0} : Spent(w) \in Nat
<1> SUFFICES ASSUME NEW w \in Nat \ {0} PROVE Spent(w) \in Nat
  OBVIOUS
<1>1. w - 1 \in Nat /\ Cap \in Nat /\ Lag \in Nat
  BY ConstantsAssumption
<1>2. (w - 1) * Cap \in Nat
  BY <1>1
<1> QED
  BY <1>1, <1>2 DEF Spent

LEMMA SpentNext == \A w \in Nat \ {0} : Spent(w + 1) = Spent(w) + Cap
<1> SUFFICES ASSUME NEW w \in Nat \ {0} PROVE Spent(w + 1) = Spent(w) + Cap
  OBVIOUS
<1>1. PICK k \in Nat : w = k + 1
  <2>1. w - 1 \in Nat /\ w = (w - 1) + 1
    OBVIOUS
  <2> QED
    BY <2>1
<1>2. (k + 1) * Cap = k * Cap + Cap
  BY ConstantsAssumption
<1>3. (w + 1) - 1 = k + 1 /\ w - 1 = k
  BY <1>1
<1>4. k * Cap \in Nat /\ Lag \in Nat /\ Cap \in Nat
  BY ConstantsAssumption
<1> QED
  BY <1>2, <1>3, <1>4 DEF Spent

LEMMA SpentGrows ==
    \A v, w \in Nat \ {0} : v <= w => Spent(v) <= Spent(w)
<1> SUFFICES ASSUME NEW v \in Nat \ {0}, NEW w \in Nat \ {0}, v <= w
             PROVE  Spent(v) <= Spent(w)
  OBVIOUS
<1>1. PICK i \in Nat, k \in Nat : v - 1 = i /\ w - 1 = i + k
  <2>1. v - 1 \in Nat /\ w - v \in Nat /\ w - 1 = (v - 1) + (w - v)
    OBVIOUS
  <2> QED
    BY <2>1
<1>2. (i + k) * Cap = i * Cap + k * Cap
  BY ConstantsAssumption
<1>3. i * Cap \in Nat /\ k * Cap \in Nat /\ Lag \in Nat
  BY ConstantsAssumption
<1> QED
  BY <1>1, <1>2, <1>3 DEF Spent

LEMMA MaxPollsSpent == MaxPolls = Spent(LastWaited + 1)
<1>1. (LastWaited + 1) - 1 = LastWaited
  BY LastWaitedType
<1> QED
  BY <1>1 DEF MaxPolls, Spent

OnSchedule ==
    /\ attempts = 0
    /\ ppc = "start" => item = 1 /\ polls <= Lag
    /\ ppc = "launch" => polls <= Spent(item)
    /\ ppc = "poll" => polls <= Spent(item) + box[cur].age
    /\ ppc = "verify" => item = Len(UnitsOf)

ExhaustedAtBudget == cpc = "exhausted" => polls >= MaxPolls

BInv == TInv /\ ExhaustedAtBudget /\ (~retried => OnSchedule)

LEMMA InitBInv == BudgetInit => BInv
<1> SUFFICES ASSUME BudgetInit PROVE BInv
  OBVIOUS
<1>1. TInv
  BY InitTInv DEF BudgetInit
<1>2. ExhaustedAtBudget
  BY DEF BudgetInit, Init, ExhaustedAtBudget
<1>3. OnSchedule
  BY ConstantsAssumption DEF BudgetInit, Init, OnSchedule
<1> QED
  BY <1>1, <1>2, <1>3 DEF BInv

\* The consumer stops polling when it has an answer.
LEMMA NextExhausted ==
    ASSUME TInv, ExhaustedAtBudget, [Next]_vars
    PROVE  ExhaustedAtBudget'
<1>1. MaxPolls \in Nat /\ polls \in Nat
  BY MaxPollsType DEF TInv, TypeOK
<1>2. CASE Poll
  BY <1>1, <1>2 DEF Poll, ExhaustedAtBudget
<1>3. CASE Tick
  BY <1>1, <1>3 DEF Tick, ExhaustedAtBudget
<1>4. CASE UNCHANGED <<cpc, polls>>
  BY <1>4 DEF ExhaustedAtBudget
<1> QED
  BY <1>2, <1>3, <1>4 DEF Next, Collect, Begin, LaunchWorkload, PollWorkload,
     VerifyRunManifests, TimedOut, BoxStep, StartUnit, FinishUnit, ExitBox,
     BoxDies, consumerVars, vars

\* A box's own steps take no time.
LEMMA BoxStepAge ==
    ASSUME TInv, NEW b \in Box, BoxStep(b), ppc = "poll"
    PROVE  box'[cur].age = box[cur].age
<1> USE DEF TInv, TypeOK
<1>1. cur \in Box
  BY DEF CurFits
<1>2. CASE StartUnit(b)
  BY <1>1, <1>2 DEF StartUnit
<1>3. CASE FinishUnit(b)
  <2>1. PICK s \in Ends : box' = [box EXCEPT ![b].run = 0, ![b].next = @ + 1,
                                            ![b].bad = @ \/ s = "failed"]
    BY <1>3 DEF FinishUnit
  <2> QED
    BY <1>1, <2>1
<1>4. CASE ExitBox(b) \/ BoxDies(b)
  BY <1>1, <1>4 DEF ExitBox, BoxDies, Ended
<1> QED
  BY <1>2, <1>3, <1>4 DEF BoxStep

\* A step of the collection, unless it counts a second attempt.
LEMMA CollectOnSchedule ==
    ASSUME TInv, OnSchedule, Collect, ~(attempts' > attempts)
    PROVE  OnSchedule'
<1> USE DEF TInv, TypeOK
<1>1. /\ item \in Nat \ {0} /\ Spent(item) \in Nat /\ polls \in Nat
      /\ Len(UnitsOf) \in Nat /\ item <= Len(UnitsOf)
  <2>1. Workload = 1..Len(UnitsOf) /\ Len(UnitsOf) \in Nat
    BY ConstantsAssumption, LenProperties DEF Workload
  <2>2. item \in Nat \ {0} /\ item <= Len(UnitsOf) /\ polls \in Nat
    BY <2>1, MaxPollsType
  <2> QED
    BY <2>1, <2>2, SpentType
<1>2. ~CheckRetryBudget
  BY DEF CheckRetryBudget, OnSchedule
<1>3. CASE Begin
  <2>1. Spent(1) = Lag
    BY ConstantsAssumption DEF Spent
  <2> QED
    BY <1>3, <2>1 DEF Begin, OnSchedule, consumerVars
<1>4. CASE LaunchWorkload
  <2>1. polls' = polls /\ ppc = "launch"
    BY <1>4 DEF LaunchWorkload, consumerVars
  <2>2. CASE StartBox /\ cur' = NewBox /\ ppc' = "poll" /\ UNCHANGED <<item, attempts>>
    <3>1. NewBox \in Box /\ box[NewBox] = Gone
      BY <2>2 DEF StartBox, NewBox
    <3>2. box' = [box EXCEPT ![NewBox].state = "working", ![NewBox].work = item]
      BY <2>2 DEF StartBox
    <3>3. box'[NewBox].age = 0
      BY <3>1, <3>2 DEF Gone
    <3> QED
      BY <1>1, <2>1, <2>2, <3>3 DEF OnSchedule
  <2>3. CASE UNCHANGED producerVars
    BY <2>1, <2>3 DEF OnSchedule, producerVars
  <2>4. CASE ppc' = "failed" /\ UNCHANGED attempts
    BY <2>4 DEF OnSchedule
  <2> QED
    BY <1>2, <1>4, <2>2, <2>3, <2>4 DEF LaunchWorkload
<1>5. CASE PollWorkload
  <2>1. polls' = polls /\ ppc = "poll" /\ cur \in Box
    BY <1>5 DEF PollWorkload, consumerVars, CurFits
  <2>2. CASE NextWorkload
    <3>1. box[cur].age \in 0..Cap
      BY <2>1
    <3>2. polls <= Spent(item) + Cap
      <4>1. polls <= Spent(item) + box[cur].age
        BY <2>1 DEF OnSchedule
      <4>2. \A p, x, y, z \in Nat : p <= x + y /\ y <= z => p <= x + z
        OBVIOUS
      <4>3. box[cur].age \in Nat /\ box[cur].age <= Cap /\ Cap \in Nat
        BY <3>1, ConstantsAssumption
      <4> QED
        BY <1>1, <4>1, <4>2, <4>3
    <3>3. Spent(item + 1) = Spent(item) + Cap
      BY <1>1, SpentNext
    <3> QED
      BY <1>1, <2>1, <2>2, <3>2, <3>3 DEF NextWorkload, OnSchedule
  <2>3. CASE ~NextWorkload
    BY <1>2, <1>5, <2>3 DEF PollWorkload, OnSchedule
  <2> QED
    BY <2>2, <2>3
<1>6. CASE VerifyRunManifests \/ TimedOut
  BY <1>6 DEF VerifyRunManifests, TimedOut, OnSchedule
<1> QED
  BY <1>3, <1>4, <1>5, <1>6 DEF Collect

\* A tick is one poll at most, and it makes the box at work older.
LEMMA TickOnSchedule ==
    ASSUME TInv, OnSchedule, Tick
    PROVE  OnSchedule'
<1> USE DEF TInv, TypeOK
<1>1. /\ UNCHANGED <<ppc, item, attempts, cur>> /\ Idle
      /\ polls' = polls \/ polls' = polls + 1
      /\ box' = [b \in Box |->
              IF Working(b) THEN [box[b] EXCEPT !.age = @ + 1] ELSE box[b]]
  BY DEF Tick, producerVars
<1>2. polls \in Nat /\ Spent(item) \in Nat
  <2>1. Workload = 1..Len(UnitsOf) /\ Len(UnitsOf) \in Nat
    BY ConstantsAssumption, LenProperties DEF Workload
  <2> QED
    BY <2>1, SpentType, MaxPollsType
<1>3. CASE ppc = "start"
  BY <1>1, <1>2, <1>3, ConstantsAssumption
     DEF Idle, OnSchedule, ProducerEnded
<1>4. CASE ppc = "poll"
  <2>1. Working(cur) /\ cur \in Box
    BY <1>1, <1>4 DEF Idle, ProducerEnded, CurFits
  <2>2. box'[cur].age = box[cur].age + 1 /\ box[cur].age \in Nat
    BY <1>1, <2>1
  <2> QED
    BY <1>1, <1>2, <1>4, <2>2 DEF OnSchedule
<1>5. CASE ppc \in ProducerEnded
  BY <1>1, <1>5 DEF OnSchedule, ProducerEnded
<1> QED
  BY <1>1, <1>3, <1>4, <1>5 DEF Idle

LEMMA NextBInv == BInv /\ [BudgetNext]_budgetVars => BInv'
<1> SUFFICES ASSUME BInv, [BudgetNext]_budgetVars PROVE BInv'
  OBVIOUS
<1>1. [Next]_vars
  BY DEF BudgetNext, budgetVars
<1>2. TInv' /\ ExhaustedAtBudget'
  BY <1>1, NextTInv, NextExhausted DEF BInv
<1>3. ASSUME ~retried' PROVE OnSchedule'
  <2>1. OnSchedule /\ (UNCHANGED vars \/ (Next /\ ~(attempts' > attempts)))
    <3>1. CASE BudgetNext
      <4>1. ~retried /\ ~(attempts' > attempts)
        BY <1>3, <3>1 DEF BudgetNext
      <4> QED
        BY <3>1, <4>1 DEF BInv, BudgetNext
    <3>2. CASE UNCHANGED budgetVars
      <4>1. retried' = retried /\ UNCHANGED vars
        BY <3>2 DEF budgetVars
      <4>2. ~retried
        BY <1>3, <4>1, Zenon
      <4>3. OnSchedule
        BY <4>2, Zenon DEF BInv
      <4> QED
        BY <4>1, <4>3
    <3> QED
      BY <3>1, <3>2
  <2>2. CASE Collect /\ ~(attempts' > attempts)
    BY <2>1, <2>2, CollectOnSchedule DEF BInv
  <2>3. ASSUME NEW b \in Box, BoxStep(b) PROVE OnSchedule'
    <3>1. UNCHANGED <<ppc, item, attempts, cur, polls>>
      BY <2>3 DEF BoxStep, StartUnit, FinishUnit, ExitBox, BoxDies,
         producerVars, consumerVars
    <3> QED
      BY <2>1, <2>3, <3>1, BoxStepAge DEF BInv, OnSchedule
  <2>4. CASE Poll \/ UNCHANGED vars
    BY <2>1, <2>4 DEF Poll, vars, producerVars, consumerVars, OnSchedule
  <2>5. CASE Tick
    BY <2>1, <2>5, TickOnSchedule DEF BInv
  <2> QED
    BY <2>1, <2>2, <2>3, <2>4, <2>5 DEF Next
<1> QED
  BY <1>2, <1>3 DEF BInv

\* The derived poll budget is enough for a collection that launches every
\* workload once: when it runs out, each workload that writes a waited unit
\* has ended or is at its cap.
THEOREM BudgetSuffices == BudgetSpec => []BudgetCoversFirstAttempts
<1>1. ASSUME BInv PROVE BudgetCoversFirstAttempts
  <2> SUFFICES ASSUME cpc = "exhausted", ~retried, ppc \notin ProducerEnded,
                      ~(item > LastWaited)
               PROVE  /\ item = LastWaited
                      /\ ppc = "verify" \/ (ppc = "poll" /\ box[cur].age = Cap)
    BY DEF BudgetCoversFirstAttempts
  <2> USE <1>1 DEF BInv, TInv, TypeOK
  <2>1. /\ polls \in Nat /\ Lag \in Nat /\ Cap \in Nat \ {0}
        /\ item \in Nat \ {0} /\ item <= LastWaited
        /\ LastWaited \in Nat \ {0} /\ LastWaited <= Len(UnitsOf)
        /\ Len(UnitsOf) \in Nat
    <3>1. Workload = 1..Len(UnitsOf) /\ Len(UnitsOf) \in Nat
      BY ConstantsAssumption, LenProperties DEF Workload
    <3> QED
      BY <3>1, LastWaitedType, MaxPollsType, ConstantsAssumption
  <2>2. /\ polls >= Spent(LastWaited) + Cap
        /\ Spent(item) <= Spent(LastWaited)
        /\ Spent(item) \in Nat /\ Spent(LastWaited) \in Nat
        /\ Spent(1) = Lag /\ Spent(1) <= Spent(LastWaited)
    <3>1. polls >= Spent(LastWaited + 1)
      BY MaxPollsSpent DEF ExhaustedAtBudget
    <3>2. Spent(LastWaited + 1) = Spent(LastWaited) + Cap
      BY <2>1, SpentNext
    <3>3. Spent(1) = Lag
      BY <2>1 DEF Spent
    <3> QED
      BY <2>1, <3>1, <3>2, <3>3, SpentType, SpentGrows
  <2>3. OnSchedule
    OBVIOUS
  <2>4. ppc # "start" /\ ppc # "launch"
    BY <2>1, <2>2, <2>3 DEF OnSchedule
  <2>5. CASE ppc = "verify"
    BY <2>1, <2>3, <2>5 DEF OnSchedule
  <2>6. CASE ppc = "poll"
    <3>1. cur \in Box /\ box[cur].age \in 0..Cap
      BY <2>6 DEF CurFits
    <3>2. polls <= Spent(item) + box[cur].age
      BY <2>3, <2>6 DEF OnSchedule
    <3>3. box[cur].age = Cap /\ Spent(item) = Spent(LastWaited)
      BY <2>1, <2>2, <3>1, <3>2
    <3>4. CASE item < LastWaited
      <4>1. Spent(item + 1) <= Spent(LastWaited)
        BY <2>1, <3>4, SpentGrows
      <4>2. Spent(item + 1) = Spent(item) + Cap
        BY <2>1, SpentNext
      <4> QED
        BY <2>1, <2>2, <3>3, <4>1, <4>2
    <3> QED
      BY <2>1, <2>6, <3>3, <3>4
  <2> QED
    BY <2>4, <2>5, <2>6 DEF ProducerPc
<1> QED
  BY <1>1, InitBInv, NextBInv, PTL DEF BudgetSpec
=============================================================================
