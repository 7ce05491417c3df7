----------------------- MODULE SplitRestatementProofs -----------------------
(***************************************************************************)
(* One split and its four writers, for every calendar, ex-date, lookahead  *)
(* and evidence window: every row of every store, and of every frame in    *)
(* the hands of a writer, stays on one of the scales its split can put it  *)
(* on, and only rows from before the ex-date move.                         *)
(*                                                                         *)
(* The argument: in the archive a row from before the ex-date has level 0  *)
(* or 1 for a real split, -1 or 0 for a phantom, and a row of the ex-date  *)
(* or later has level 0 (Levelled).  A universe series, or a frame on its  *)
(* way there, is either Raw - its rows are levelled and its history is     *)
(* what the market printed - or Flat: one restatement has shifted it, by   *)
(* the factor its window showed, so that the window prints nothing more.   *)
(* A series that passes apply's two checks is Raw and comes out Flat       *)
(* (RestatedIsFlat); a Flat one never passes them (QuietWindow), and no    *)
(* append reaches its rows from before the ex-date (RowsOK).  The undo and *)
(* the splice take a row to the scale of a neighbour it differs from.      *)
(***************************************************************************)
EXTENDS SplitRestatement, WellFoundedInduction, TLAPS

\* The lower of the two levels of a row from before the ex-date.
Low == IF real THEN 0 ELSE -1

Fits(d, level) == IF PreEx(d) THEN level = Low \/ level = Low + 1 ELSE level = 0

Levelled(s) == DOMAIN s \subseteq Days /\ \A d \in DOMAIN s : Fits(d, s[d])

Top == Low + 1

\* A series no restatement has touched: its history is the market's own.
Raw(s) == Levelled(s) /\ 0 \in DOMAIN s /\ s[0] = Top

\* The level a restatement takes the history to.
Home == IF real THEN 0 ELSE 1

\* A series one restatement has shifted: it reaches the ex-date, and its
\* window is on one scale.
Flat(s) ==
    /\ DOMAIN s \subseteq Days /\ 0 \in DOMAIN s /\ s[0] = Home
    /\ \A d \in DOMAIN s : s[d] \in {Home - 1, Home}
    /\ \A d \in DOMAIN s : Near(d) \/ ~PreEx(d) => s[d] = 0
    /\ \E x \in DOMAIN s : ~PreEx(x)

Scaled(s) == Raw(s) \/ Flat(s)

\* A series on one scale, and one wholly on the market's before the ex-date.
Zeros(s) == \A d \in DOMAIN s : s[d] = 0
OnTape(s) == \A d \in DOMAIN s : PreEx(d) => s[d] = Top

-----------------------------------------------------------------------------
(* Rows of a series *)

USE CalendarAssumption DEF CalendarAssumption, Days, PreEx

LEMMA SmallestExists ==
    ASSUME NEW S \in SUBSET Nat, S # {}
    PROVE  \E x \in S : \A y \in S : x <= y
<1> DEFINE R == OpToRel(<, Nat)
<1>1. IsWellFoundedOn(R, Nat)
  BY NatLessThanWellFounded
<1>2. \A x, y \in Nat : x < y => <<x, y>> \in R
  BY DEF OpToRel
<1> HIDE DEF R
<1>3. PICK x \in S : \A y \in S : ~(<<y, x>> \in R)
  BY <1>1, WFMin
<1>4. ASSUME NEW y \in S PROVE x <= y
  <2>1. SUFFICES ASSUME y < x PROVE FALSE
    OBVIOUS
  <2>2. <<y, x>> \in R
    BY <1>2, <2>1
  <2> QED
    BY <1>3, <2>2
<1> QED
  BY <1>4

LEMMA LatestExists ==
    ASSUME NEW S \in SUBSET Days, S # {}
    PROVE  Latest(S) \in S /\ \A e \in S : e <= Latest(S)
<1> DEFINE T == {k \in Nat : MaxDay - k \in S}
<1>1. PICK i \in S : TRUE
  OBVIOUS
<1>2. MaxDay - i \in T
  BY <1>1
<1>3. PICK x \in T : \A y \in T : x <= y
  BY <1>2, SmallestExists
<1>4. MaxDay - x \in S
  OBVIOUS
<1>5. ASSUME NEW e \in S PROVE e <= MaxDay - x
  <2>1. MaxDay - e \in T
    OBVIOUS
  <2>2. x <= MaxDay - e
    BY <1>3, <2>1
  <2>3. x \in Nat /\ e \in Nat /\ MaxDay \in Nat
    OBVIOUS
  <2> QED
    BY <2>2, <2>3
<1>6. \E z \in S : \A e \in S : e <= z
  BY <1>4, <1>5
<1> QED
  BY <1>6 DEF Latest

LEMMA PriorRow ==
    ASSUME NEW s, DOMAIN s \subseteq Days, NEW d \in Days, Before(s, d) # {}
    PROVE  /\ Latest(Before(s, d)) \in DOMAIN s
           /\ Latest(Before(s, d)) < d
           /\ \A e \in DOMAIN s : e < d => e <= Latest(Before(s, d))
<1>1. Before(s, d) \in SUBSET Days
  BY DEF Before
<1>2. Latest(Before(s, d)) \in Before(s, d)
      /\ \A e \in Before(s, d) : e <= Latest(Before(s, d))
  BY <1>1, LatestExists
<1> QED
  BY <1>2 DEF Before

\* A series whose early rows never move is constant before the ex-date.
LEMMA StillIsConstant ==
    ASSUME NEW t, DOMAIN t \subseteq Days,
           \A d \in DOMAIN t : t[d] \in Int,
           \A d \in DOMAIN t : PreEx(d) /\ Before(t, d) # {} => Step(t, d) = 0,
           NEW d \in DOMAIN t, NEW e \in DOMAIN t, PreEx(d), PreEx(e)
    PROVE  t[d] = t[e]
<1> DEFINE Odd == {x \in DOMAIN t : PreEx(x) /\ \E y \in DOMAIN t : y < x /\ t[y] # t[x]}
<1>1. Odd = {}
  <2> SUFFICES ASSUME Odd # {} PROVE FALSE
    OBVIOUS
  <2>1. PICK x \in Odd : \A z \in Odd : x <= z
    <3>1. Odd \in SUBSET Nat
      OBVIOUS
    <3> QED
      BY <3>1, SmallestExists
  <2>2. PICK y \in DOMAIN t : y < x /\ t[y] # t[x]
    OBVIOUS
  <2> DEFINE p == Latest(Before(t, x))
  <2>3. x \in Days /\ Before(t, x) # {}
    BY <2>2 DEF Before
  <2>4. p \in DOMAIN t /\ p < x /\ y <= p
    BY <2>2, <2>3, PriorRow
  <2>5. t[p] = t[x]
    <3>1. Step(t, x) = t[p] - t[x]
      BY DEF Step
    <3>2. Step(t, x) = 0
      BY <2>3
    <3> HIDE DEF p
    <3> QED
      BY <3>1, <3>2, <2>4
  <2> HIDE DEF p
  <2>6. y < p /\ t[y] # t[p]
    BY <2>2, <2>4, <2>5
  <2>7. p \in Odd
    BY <2>4, <2>6
  <2> QED
    BY <2>1, <2>4, <2>7
<1>2. d \in Nat /\ e \in Nat
  OBVIOUS
<1> QED
  BY <1>1, <1>2

-----------------------------------------------------------------------------
(* What the evidence says *)

LEMMA EvidenceMeans ==
    ASSUME NEW s
    PROVE  /\ Evidence(s) = "direct" => 1 \in Moves(Around(s))
           /\ Evidence(s) = "inverse" => -1 \in Moves(Around(s))
           /\ Evidence(s) = "none" <=> 1 \notin Moves(Around(s)) /\ -1 \notin Moves(Around(s))
           /\ Evidence(s) \in {"ambiguous", "direct", "inverse", "none"}
<1> DEFINE M == Moves(Around(s))
<1> HIDE DEF M
<1>1. CASE 1 \in M /\ -1 \in M
  <2>1. M \cap {1, -1} = {1, -1}
    BY <1>1
  <2> QED
    BY <1>1, <2>1 DEF Evidence, M
<1>2. CASE 1 \in M /\ -1 \notin M
  <2>1. M \cap {1, -1} = {1} /\ {1} # {1, -1}
    BY <1>2
  <2>2. Evidence(s) = "direct"
    BY <2>1 DEF Evidence, M
  <2> QED
    BY <1>2, <2>2 DEF M
<1>3. CASE 1 \notin M /\ -1 \in M
  <2>1. M \cap {1, -1} = {-1} /\ {-1} # {1, -1} /\ {-1} # {1}
    BY <1>3
  <2>2. Evidence(s) = "inverse"
    BY <2>1 DEF Evidence, M
  <2> QED
    BY <1>3, <2>2 DEF M
<1>4. CASE 1 \notin M /\ -1 \notin M
  <2>1. M \cap {1, -1} = {} /\ {} # {1, -1} /\ {} # {1} /\ {} # {-1}
    BY <1>4
  <2>2. Evidence(s) = "none"
    BY <2>1 DEF Evidence, M
  <2> QED
    BY <1>4, <2>2 DEF M
<1> QED
  BY <1>1, <1>2, <1>3, <1>4

LEMMA LevelsAreNumbers ==
    ASSUME NEW s, Levelled(s), NEW d \in DOMAIN s
    PROVE  s[d] \in Int /\ d \in Days
  BY DEF Levelled, Fits, Low

\* Restating shifts the early rows, by one factor.
LEMMA ShiftedRows ==
    ASSUME NEW s, NEW by \in {1, -1}, NEW t, t = Shifted(s, by)
    PROVE  /\ DOMAIN t = DOMAIN s
           /\ \A d \in DOMAIN s : t[d] = IF PreEx(d) THEN s[d] + by ELSE s[d]
  BY DEF Shifted

\* A shift by one factor that leaves no move of one factor: the series had
\* its one move at the ex-date, and the shift has closed it.
LEMMA ShiftCloses ==
    ASSUME NEW s, Levelled(s), NEW by \in {1, -1}, -by \in Moves(s),
           1 \notin Moves(Shifted(s, by)), -1 \notin Moves(Shifted(s, by))
    PROVE  /\ \A d \in DOMAIN s : PreEx(d) => s[d] = -by
           /\ \E x \in DOMAIN s : ~PreEx(x)
           /\ by = IF real THEN -1 ELSE 1
<1> DEFINE t == Shifted(s, by)
<1>1. /\ DOMAIN t = DOMAIN s /\ DOMAIN t \subseteq Days
      /\ \A d \in DOMAIN s : t[d] = IF PreEx(d) THEN s[d] + by ELSE s[d]
  BY ShiftedRows DEF Levelled
<1>2. \A d \in DOMAIN t : t[d] \in Int
  BY <1>1, LevelsAreNumbers
<1>3. 1 \notin Moves(t) /\ -1 \notin Moves(t)
  OBVIOUS
<1> HIDE DEF t
<1>4. \A d \in DOMAIN s : Before(t, d) = Before(s, d)
  BY <1>1 DEF Before
<1>5. ASSUME NEW d \in DOMAIN t, PreEx(d), Before(t, d) # {}
      PROVE  Step(t, d) = 0 /\ Step(s, d) = 0
  <2> DEFINE p == Latest(Before(t, d))
  <2>1. p \in DOMAIN t /\ p < d
    BY <1>1, <1>5, PriorRow
  <2>2. Step(t, d) = t[p] - t[d] /\ Step(s, d) = s[p] - s[d]
    BY <1>1, <1>4 DEF Step
  <2>3. Step(t, d) # 1 /\ Step(t, d) # -1
    BY <1>3, <1>5 DEF Moves
  <2> HIDE DEF p
  <2>4. p \in Days /\ d \in Days /\ PreEx(p)
    BY <1>1, <1>5, <2>1
  <2>5. t[p] = s[p] + by /\ t[d] = s[d] + by
    BY <1>1, <1>5, <2>1, <2>4
  <2>6. s[p] \in {Low, Low + 1} /\ s[d] \in {Low, Low + 1}
    BY <1>1, <1>5, <2>1, <2>4 DEF Levelled, Fits
  <2> QED
    BY <2>2, <2>3, <2>5, <2>6 DEF Low
<1>6. PICK x \in DOMAIN s : Before(s, x) # {} /\ Step(s, x) = -by
  BY DEF Moves
<1> DEFINE p == Latest(Before(s, x))
<1>7. p \in DOMAIN s /\ p < x /\ Step(s, x) = s[p] - s[x]
  BY <1>1, <1>6, PriorRow DEF Step
<1> HIDE DEF p
<1>8. p \in Days /\ x \in Days
  BY <1>1, <1>6, <1>7
<1>9. ~PreEx(x)
  BY <1>1, <1>4, <1>5, <1>6
<1>10. s[x] = 0
  BY <1>6, <1>9 DEF Levelled, Fits
<1>11. PreEx(p) /\ s[p] = -by
  <2>1. s[p] \in Int
    BY <1>7, LevelsAreNumbers
  <2>2. s[p] = -by
    BY <1>6, <1>7, <1>10, <2>1
  <2> QED
    BY <1>7, <2>2 DEF Levelled, Fits
<1>12. ASSUME NEW d \in DOMAIN s, PreEx(d) PROVE s[d] = -by
  <2>1. t[d] = t[p]
    BY <1>1, <1>2, <1>5, <1>7, <1>11, <1>12, StillIsConstant
  <2>2. t[d] = s[d] + by /\ t[p] = s[p] + by
    BY <1>1, <1>7, <1>11, <1>12
  <2>3. s[d] \in Int
    BY LevelsAreNumbers
  <2>4. s[d] + by = s[p] + by
    BY <2>1, <2>2
  <2>5. s[p] \in Int
    BY <1>7, LevelsAreNumbers
  <2>6. by = 1 \/ by = -1
    OBVIOUS
  <2>7. s[d] = s[p]
    BY <2>3, <2>4, <2>5, <2>6
  <2> QED
    BY <1>11, <2>7
<1>13. by = IF real THEN -1 ELSE 1
  BY <1>7, <1>11 DEF Levelled, Fits, Low
<1> QED
  BY <1>9, <1>12, <1>13

LEMMA AroundRows ==
    ASSUME NEW s, NEW w, w = Around(s)
    PROVE  /\ DOMAIN w = {d \in DOMAIN s : Near(d)}
           /\ \A d \in DOMAIN w : w[d] = s[d]
           /\ Levelled(s) => Levelled(w)
  BY DEF Around, Levelled

\* The window of a shifted series is its window, shifted.
LEMMA AroundShifted ==
    ASSUME NEW s, NEW by
    PROVE  Around(Shifted(s, by)) = Shifted(Around(s), by)
  BY DEF Around, Shifted

\* A window on one scale prints no move, and shows nothing.
LEMMA QuietWindow ==
    ASSUME NEW s, DOMAIN s \subseteq Days, \A d \in DOMAIN s : Near(d) => s[d] = 0
    PROVE  Evidence(s) = "none" /\ ~Applies(s)
<1> DEFINE w == Around(s)
<1>1. DOMAIN w \subseteq Days /\ \A d \in DOMAIN w : w[d] = 0
  BY AroundRows
<1> HIDE DEF w
<1>2. ASSUME NEW d \in DOMAIN w, Before(w, d) # {} PROVE Step(w, d) = 0
  <2> DEFINE p == Latest(Before(w, d))
  <2>1. p \in DOMAIN w
    BY <1>1, <1>2, PriorRow
  <2>2. Step(w, d) = w[p] - w[d]
    BY DEF Step
  <2> HIDE DEF p
  <2> QED
    BY <1>1, <2>1, <2>2
<1>3. 1 \notin Moves(w) /\ -1 \notin Moves(w)
  BY <1>2 DEF Moves
<1>4. Evidence(s) = "none"
  BY <1>3, EvidenceMeans DEF w
<1> QED
  BY <1>4 DEF Applies, Evidenced

\* apply folds a split into a series only where its window is wholly raw, for a
\* real one, or wholly adjusted, for a phantom, and shifts it the right way.
LEMMA AppliesMeans ==
    ASSUME NEW s, Levelled(s), Applies(s)
    PROVE  /\ \A d \in DOMAIN s : Near(d) /\ PreEx(d) => s[d] = IF real THEN 1 ELSE -1
           /\ \E x \in DOMAIN s : ~PreEx(x)
           /\ DOMAIN Restate(s) = DOMAIN s
           /\ \A d \in DOMAIN s : Restate(s)[d] =
                IF PreEx(d) THEN s[d] + (IF real THEN -1 ELSE 1) ELSE 0
<1> DEFINE w == Around(s)
<1>1. /\ DOMAIN w = {d \in DOMAIN s : Near(d)} /\ Levelled(w)
      /\ \A d \in DOMAIN w : w[d] = s[d]
  BY AroundRows
<1>2. PICK by \in {1, -1} : -by \in Moves(w) /\ Restate(s) = Shifted(s, by)
  <2>1. CASE Evidence(s) = "direct"
    BY <2>1, EvidenceMeans DEF Restate
  <2>2. CASE Evidence(s) = "inverse"
    BY <2>2, EvidenceMeans DEF Restate
  <2> QED
    BY <2>1, <2>2 DEF Applies, Evidenced
<1>3. 1 \notin Moves(Shifted(w, by)) /\ -1 \notin Moves(Shifted(w, by))
  <2>1. Evidence(Shifted(s, by)) = "none"
    BY <1>2 DEF Applies
  <2>2. 1 \notin Moves(Around(Shifted(s, by))) /\ -1 \notin Moves(Around(Shifted(s, by)))
    BY <2>1, EvidenceMeans
  <2> QED
    BY <2>2, AroundShifted
<1> HIDE DEF w
<1>4. /\ \A d \in DOMAIN w : PreEx(d) => w[d] = -by
      /\ \E x \in DOMAIN w : ~PreEx(x)
      /\ by = IF real THEN -1 ELSE 1
  BY <1>1, <1>2, <1>3, ShiftCloses
<1>5. DOMAIN Restate(s) = DOMAIN s
      /\ \A d \in DOMAIN s : Restate(s)[d] = IF PreEx(d) THEN s[d] + by ELSE s[d]
  BY <1>2, ShiftedRows
<1>6. \A d \in DOMAIN s : ~PreEx(d) => s[d] = 0
  BY DEF Levelled, Fits
<1>7. \A d \in DOMAIN s : Near(d) /\ PreEx(d) => s[d] = IF real THEN 1 ELSE -1
  BY <1>1, <1>4
<1> QED
  BY <1>1, <1>4, <1>5, <1>6, <1>7

\* Restating takes a raw series to a flat one.
LEMMA RestatedIsFlat ==
    ASSUME NEW s, Scaled(s), Applies(s)
    PROVE  /\ Raw(s) /\ Flat(Restate(s)) /\ DOMAIN Restate(s) = DOMAIN s
           /\ \A d \in DOMAIN s : Restate(s)[d] =
                IF PreEx(d) THEN s[d] + (IF real THEN -1 ELSE 1) ELSE 0
<1>1. Raw(s)
  BY QuietWindow DEF Scaled, Flat
<1> DEFINE t == Restate(s)
<1>2. /\ \A d \in DOMAIN s : Near(d) /\ PreEx(d) => s[d] = IF real THEN 1 ELSE -1
      /\ \E x \in DOMAIN s : ~PreEx(x)
      /\ DOMAIN t = DOMAIN s
      /\ \A d \in DOMAIN s : t[d] =
           IF PreEx(d) THEN s[d] + (IF real THEN -1 ELSE 1) ELSE 0
  BY <1>1, AppliesMeans DEF Raw
<1> HIDE DEF t
<1>3. 0 \in DOMAIN s /\ s[0] = Top /\ PreEx(0)
  BY <1>1 DEF Raw
<1>4. \A d \in DOMAIN s : d \in Days /\ (PreEx(d) => s[d] \in {Low, Top})
  BY <1>1 DEF Raw, Levelled, Fits, Top
<1>5. t[0] = Home
  BY <1>2, <1>3 DEF Low, Top, Home
<1>6. \A d \in DOMAIN t : t[d] \in {Home - 1, Home}
  BY <1>2, <1>4 DEF Low, Top, Home
<1>7. \A d \in DOMAIN t : Near(d) \/ ~PreEx(d) => t[d] = 0
  BY <1>2
<1>8. Flat(t)
  BY <1>2, <1>3, <1>4, <1>5, <1>6, <1>7 DEF Flat
<1> QED
  BY <1>1, <1>2, <1>8 DEF t

-----------------------------------------------------------------------------
(* The levels of what the feeds serve and the writers compute *)

LEMMA FeedsFit ==
    ASSUME NEW d \in Days, NEW asOf \in Days
    PROVE  /\ Fits(d, Polygon(d)) /\ Fits(d, Yahoo(d, asOf)) /\ Fits(d, Tape(d))
           /\ ~real => Tape(d) = 0 /\ Yahoo(d, asOf) = 0
           /\ real /\ adjusted => Polygon(d) = 0
  BY DEF Fits, Low, Polygon, Yahoo, Tape

LEMMA LevelledPart ==
    ASSUME NEW s, Levelled(s), NEW d
    PROVE  Levelled(Upto(s, d)) /\ Levelled(Since(s, d))
  BY DEF Levelled, Upto, Since

LEMMA LevelledOver ==
    ASSUME NEW s, NEW t, Levelled(s), Levelled(t)
    PROVE  /\ Levelled(Over(t, s))
           /\ Raw(s) /\ 0 \notin DOMAIN t => Raw(Over(t, s))
  BY DEF Levelled, Over, Raw

LEMMA LevelledWith ==
    ASSUME NEW s, Levelled(s), NEW d \in Days, NEW level, Fits(d, level)
    PROVE  Levelled(With(s, d, level))
<1> DEFINE row == [e \in {d} |-> level]
<1>1. Levelled(row)
  BY DEF Levelled
<1> QED
  BY <1>1, LevelledOver DEF With

\* One more row keeps a raw series raw, and one of the ex-date or later keeps a
\* flat series flat.
LEMMA ScaledWith ==
    ASSUME NEW s, Scaled(s), NEW d \in Days, d # 0, NEW level, Fits(d, level),
           Raw(s) \/ ~PreEx(d)
    PROVE  Scaled(With(s, d, level)) /\ With(s, d, level)[0] = s[0]
<1> DEFINE t == With(s, d, level)
<1>1. DOMAIN t = DOMAIN s \cup {d}
      /\ \A e \in DOMAIN t : t[e] = IF e = d THEN level ELSE s[e]
  BY DEF With, Over
<1>2. 0 \in DOMAIN s /\ t[0] = s[0]
  BY <1>1 DEF Scaled, Raw, Flat
<1>3. CASE Raw(s)
  BY <1>2, <1>3, LevelledWith DEF Scaled, Raw, With, Over
<1>4. CASE Flat(s) /\ ~PreEx(d)
  <2>1. level = 0
    BY <1>4 DEF Fits
  <2>3. 0 \in {Home - 1, Home}
    BY DEF Home
  <2> HIDE DEF t
  <2>2. Flat(t)
    BY <1>1, <1>2, <1>4, <2>1, <2>3 DEF Flat
  <2> QED
    BY <1>2, <2>2 DEF Scaled, t
<1> QED
  BY <1>3, <1>4 DEF Scaled

LEMMA LevelledCache ==
    ASSUME cacheEnd \in Days
    PROVE  /\ Levelled(Cache) /\ DOMAIN Cache = 0 .. cacheEnd /\ 0 \in DOMAIN Cache
           /\ cacheEnd < Ex \/ ~real => \A d \in DOMAIN Cache : Cache[d] = Top
           /\ cacheEnd >= Ex => \A d \in DOMAIN Cache : Cache[d] = 0
<1>1. DOMAIN Cache = 0 .. cacheEnd /\ 0 .. cacheEnd \subseteq Days /\ 0 \in 0 .. cacheEnd
  BY DEF Cache
<1>2. \A d \in 0 .. cacheEnd : Cache[d] = Yahoo(d, cacheEnd)
  BY DEF Cache
<1>3. \A d \in Days : Fits(d, Yahoo(d, cacheEnd))
  BY FeedsFit
<1>4. cacheEnd < Ex \/ ~real => \A d \in 0 .. cacheEnd : Yahoo(d, cacheEnd) = Top
  BY DEF Yahoo, Tape, Top, Low
<1>5. cacheEnd >= Ex => \A d \in 0 .. cacheEnd : Yahoo(d, cacheEnd) = 0
  BY DEF Yahoo
<1> QED
  BY <1>1, <1>2, <1>3, <1>4, <1>5 DEF Levelled

\* The undo raises only rows that are on the vendor's adjusted scale.
LEMMA UndoneIsLow ==
    ASSUME NEW base, NEW delta, Levelled(base), Levelled(delta),
           NEW d \in DOMAIN delta, PreEx(d), OnVendorBasis(base, delta, d)
    PROVE  delta[d] = Low
<1> DEFINE decided == {e \in DOMAIN delta : e <= d /\ Decides(base, delta, e)}
           e == Latest(decided)
<1>1. decided \in SUBSET Days
  BY DEF Levelled
<1>2. decided # {} /\ Vendors(base, delta, e)
  BY DEF OnVendorBasis
<1>3. e \in decided /\ \A x \in decided : x <= e
  BY <1>1, <1>2, LatestExists
<1>4. \A x \in DOMAIN delta : e < x /\ x <= d => ~Decides(base, delta, x)
  BY <1>1, <1>3 DEF Levelled
<1>5. e \in DOMAIN delta /\ e <= d
  BY <1>3
<1> HIDE DEF e, decided
<1>6. d \in Days /\ e \in Days /\ PreEx(e)
  BY <1>5 DEF Levelled
<1>7. delta[e] = Low
  <2>1. delta[e] \in {Low, Low + 1}
    BY <1>5, <1>6 DEF Levelled, Fits
  <2>2. CASE e \in DOMAIN base
    <3>1. base[e] \in {Low, Low + 1} /\ delta[e] = base[e] - 1
      BY <1>2, <1>6, <2>2 DEF Levelled, Fits, Vendors
    <3> QED
      BY <2>1, <3>1 DEF Low
  <2>3. CASE e \notin DOMAIN base
    <3>1. StepInto(base, delta, e) = 1
      BY <1>2, <2>3 DEF Vendors
    <3>2. CASE Before(delta, e) # {}
      <4> DEFINE p == Latest(Before(delta, e))
      <4>1. p \in DOMAIN delta /\ p < e
        BY <1>6, <3>2, PriorRow DEF Levelled
      <4>2. delta[p] - delta[e] = 1
        BY <3>1, <3>2 DEF StepInto, Step
      <4> HIDE DEF p
      <4>3. delta[p] \in {Low, Low + 1}
        BY <1>6, <4>1 DEF Levelled, Fits
      <4> QED
        BY <2>1, <4>2, <4>3 DEF Low
    <3>3. CASE Before(delta, e) = {} /\ Before(base, e) # {}
      <4> DEFINE p == Latest(Before(base, e))
      <4>1. p \in DOMAIN base /\ p < e
        BY <1>6, <3>3, PriorRow DEF Levelled
      <4>2. base[p] - delta[e] = 1
        BY <3>1, <3>3 DEF StepInto
      <4> HIDE DEF p
      <4>3. base[p] \in {Low, Low + 1}
        BY <1>6, <4>1 DEF Levelled, Fits
      <4> QED
        BY <2>1, <4>2, <4>3 DEF Low
    <3> QED
      BY <3>1, <3>2, <3>3 DEF StepInto
  <2> QED
    BY <2>2, <2>3
<1> DEFINE Odd == {x \in DOMAIN delta : e < x /\ x <= d /\ delta[x] # Low}
<1>8. Odd = {}
  <2> SUFFICES ASSUME Odd # {} PROVE FALSE
    OBVIOUS
  <2>1. PICK x \in Odd : \A z \in Odd : x <= z
    <3>1. Odd \in SUBSET Nat
      BY DEF Levelled
    <3> QED
      BY <3>1, SmallestExists
  <2>2. x \in Days /\ x \in DOMAIN delta /\ e < x /\ x <= d /\ delta[x] # Low /\ PreEx(x)
    BY <1>6 DEF Levelled
  <2> DEFINE p == Latest(Before(delta, x))
  <2>3. e \in Before(delta, x)
    BY <1>5, <2>2 DEF Before
  <2>4. p \in DOMAIN delta /\ p < x /\ e <= p
    BY <1>5, <2>2, <2>3, PriorRow DEF Levelled
  <2>5. delta[p] - delta[x] # 1 /\ delta[p] - delta[x] # -1
    BY <1>4, <2>2, <2>3 DEF Decides, StepInto, Step
  <2> HIDE DEF p
  <2>6. p \in Days
    BY <2>4 DEF Levelled
  <2>7. delta[p] \in {Low, Low + 1} /\ delta[x] \in {Low, Low + 1}
    BY <2>2, <2>4, <2>6 DEF Levelled, Fits
  <2>8. delta[p] = delta[x]
    BY <2>5, <2>7 DEF Low
  <2>9. p \in Odd
    BY <1>6, <1>7, <2>2, <2>4, <2>6, <2>8
  <2> QED
    BY <2>1, <2>2, <2>4, <2>6, <2>9
<1> QED
  BY <1>5, <1>6, <1>7, <1>8

LEMMA LevelledUndo ==
    ASSUME NEW base, NEW delta, Levelled(base), Levelled(delta)
    PROVE  Levelled(Undo(base, delta)) /\ DOMAIN Undo(base, delta) = DOMAIN delta
<1>1. ASSUME NEW d \in DOMAIN delta PROVE Fits(d, Undo(base, delta)[d])
  <2>1. CASE PreEx(d) /\ OnVendorBasis(base, delta, d)
    <3>1. Undo(base, delta)[d] = delta[d] + 1
      BY <2>1 DEF Undo
    <3>2. delta[d] = Low
      BY <2>1, UndoneIsLow
    <3> QED
      BY <2>1, <3>1, <3>2 DEF Fits
  <2>2. CASE ~(PreEx(d) /\ OnVendorBasis(base, delta, d))
    <3>1. Undo(base, delta)[d] = delta[d]
      BY <2>2 DEF Undo
    <3> QED
      BY <3>1 DEF Levelled
  <2> QED
    BY <2>1, <2>2
<1>2. DOMAIN Undo(base, delta) = DOMAIN delta
  BY DEF Undo
<1> QED
  BY <1>1, <1>2 DEF Levelled

\* Over a base that is wholly on the market's scale before the ex-date, the undo
\* puts every delta row from before the ex-date there too.
LEMMA UndoneToTop ==
    ASSUME NEW base, NEW delta, Levelled(base), Levelled(delta), 0 \in DOMAIN base,
           \A d \in DOMAIN base : PreEx(d) => base[d] = Top,
           \A d \in DOMAIN delta : d > 0,
           NEW d \in DOMAIN delta, PreEx(d)
    PROVE  Undo(base, delta)[d] = Top
<1>1. CASE OnVendorBasis(base, delta, d)
  <2>1. delta[d] = Low
    BY <1>1, UndoneIsLow
  <2> QED
    BY <1>1, <2>1 DEF Undo, Top
<1>2. CASE ~OnVendorBasis(base, delta, d)
  <2>1. Undo(base, delta)[d] = delta[d]
    BY <1>2 DEF Undo
  <2>2. delta[d] \in {Low, Top}
    BY DEF Levelled, Fits, Top
  <2>3. SUFFICES ASSUME delta[d] = Low PROVE FALSE
    BY <2>1, <2>2
  <2> DEFINE decided == {x \in DOMAIN delta : x <= d /\ Decides(base, delta, x)}
             e == Latest(decided)
  <2>4. \A x \in DOMAIN delta : x <= d => x \in Days /\ PreEx(x) /\ delta[x] \in {Low, Top}
    BY DEF Levelled, Fits, Top
  \* An adjusted row follows an adjusted row, or decides.
  <2>5. ASSUME NEW x \in DOMAIN delta, x <= d, delta[x] = Low, ~Decides(base, delta, x)
        PROVE  Before(delta, x) # {} /\ delta[Latest(Before(delta, x))] = Low
    <3>1. x \in Days /\ x > 0 /\ PreEx(x)
      BY <2>4, <2>5
    <3>2. StepInto(base, delta, x) # 1 /\ StepInto(base, delta, x) # -1
      BY <2>5 DEF Decides
    <3>3. 0 \in Before(base, x)
      BY <3>1 DEF Before
    <3>4. CASE Before(delta, x) = {}
      <4> DEFINE p == Latest(Before(base, x))
      <4>1. p \in DOMAIN base /\ p < x
        BY <3>1, <3>3, PriorRow DEF Levelled
      <4>2. StepInto(base, delta, x) = base[p] - delta[x]
        BY <3>3, <3>4 DEF StepInto
      <4> HIDE DEF p
      <4>3. base[p] = Top
        BY <3>1, <4>1 DEF Levelled
      <4> QED
        BY <2>5, <3>2, <4>2, <4>3 DEF Low, Top
    <3>5. CASE Before(delta, x) # {}
      <4> DEFINE p == Latest(Before(delta, x))
      <4>1. p \in DOMAIN delta /\ p < x
        BY <3>1, <3>5, PriorRow DEF Levelled
      <4>2. StepInto(base, delta, x) = delta[p] - delta[x]
        BY <3>5 DEF StepInto, Step
      <4> HIDE DEF p
      <4>3. delta[p] \in {Low, Top}
        BY <2>4, <2>5, <3>1, <4>1 DEF Levelled
      <4>4. delta[p] = Low
        BY <2>5, <3>2, <4>2, <4>3 DEF Low, Top
      <4> QED
        BY <3>5, <4>4 DEF p
    <3> QED
      BY <3>4, <3>5
  <2>6. decided \in SUBSET Days
    BY <2>4
  <2>7. CASE decided = {}
    <3> DEFINE Odd == {x \in DOMAIN delta : x <= d /\ delta[x] = Low}
    <3>1. PICK x \in Odd : \A y \in Odd : x <= y
      <4>1. Odd \in SUBSET Nat /\ d \in Odd
        BY <2>3, <2>4 DEF Levelled
      <4> QED
        BY <4>1, SmallestExists
    <3> DEFINE p == Latest(Before(delta, x))
    <3>2. Before(delta, x) # {} /\ delta[p] = Low
      BY <2>5, <2>7, <3>1
    <3>3. p \in DOMAIN delta /\ p < x
      BY <2>4, <3>1, <3>2, PriorRow DEF Levelled
    <3> HIDE DEF p
    <3>4. p \in Odd
      BY <2>4, <3>1, <3>2, <3>3 DEF Levelled
    <3> QED
      BY <2>4, <3>1, <3>3, <3>4
  <2>8. CASE decided # {}
    <3>1. e \in decided /\ \A x \in decided : x <= e
      BY <2>6, <2>8, LatestExists
    <3>2. \A x \in DOMAIN delta : e < x /\ x <= d => ~Decides(base, delta, x)
      BY <2>4, <3>1
    <3>3. e \in DOMAIN delta /\ e <= d /\ Decides(base, delta, e)
      BY <3>1
    <3>4. ~Vendors(base, delta, e)
      BY <1>2, <2>8 DEF OnVendorBasis
    <3> HIDE DEF e, decided
    <3>5. e \in Days /\ PreEx(e) /\ e > 0
      BY <2>4, <3>3
    <3>6. delta[e] = Low
      <4> DEFINE Odd == {x \in DOMAIN delta : e <= x /\ x <= d /\ delta[x] = Low}
      <4>1. PICK x \in Odd : \A y \in Odd : x <= y
        <5>1. Odd \in SUBSET Nat /\ d \in Odd
          BY <2>3, <2>4, <3>3 DEF Levelled
        <5> QED
          BY <5>1, SmallestExists
      <4>2. CASE e = x
        BY <4>1, <4>2
      <4>3. CASE e # x
        <5> DEFINE p == Latest(Before(delta, x))
        <5>1. x \in Days /\ e < x /\ x <= d
          BY <2>4, <3>5, <4>1, <4>3
        <5>2. Before(delta, x) # {} /\ delta[p] = Low
          BY <2>5, <3>2, <4>1, <5>1
        <5>3. p \in DOMAIN delta /\ p < x /\ e <= p
          BY <3>3, <5>1, <5>2, PriorRow DEF Levelled
        <5> HIDE DEF p
        <5>4. p \in Days /\ d \in Days /\ p <= d
          BY <5>1, <5>3 DEF Levelled
        <5>5. p \in Odd
          BY <5>2, <5>3, <5>4
        <5> QED
          BY <4>1, <5>1, <5>3, <5>4, <5>5
      <4> QED
        BY <4>2, <4>3
    <3>7. CASE e \in DOMAIN base
      BY <3>4, <3>5, <3>6, <3>7 DEF Vendors, Top, Low
    <3>8. CASE e \notin DOMAIN base
      <4>1. StepInto(base, delta, e) \in {1, -1} /\ StepInto(base, delta, e) # 1
        BY <3>3, <3>4, <3>8 DEF Decides, Vendors
      <4>2. 0 \in Before(base, e)
        BY <3>5 DEF Before
      <4>3. CASE Before(delta, e) # {}
        <5> DEFINE p == Latest(Before(delta, e))
        <5>1. p \in DOMAIN delta /\ p < e
          BY <3>5, <4>3, PriorRow DEF Levelled
        <5>2. StepInto(base, delta, e) = delta[p] - delta[e]
          BY <4>3 DEF StepInto, Step
        <5> HIDE DEF p
        <5>3. delta[p] \in {Low, Top}
          BY <2>4, <3>3, <3>5, <5>1 DEF Levelled
        <5> QED
          BY <3>6, <4>1, <5>2, <5>3 DEF Low, Top
      <4>4. CASE Before(delta, e) = {}
        <5> DEFINE p == Latest(Before(base, e))
        <5>1. p \in DOMAIN base /\ p < e
          BY <3>5, <4>2, PriorRow DEF Levelled
        <5>2. StepInto(base, delta, e) = base[p] - delta[e]
          BY <4>2, <4>4 DEF StepInto
        <5> HIDE DEF p
        <5>3. base[p] = Top
          BY <3>5, <5>1 DEF Levelled
        <5> QED
          BY <3>6, <4>1, <5>2, <5>3 DEF Low, Top
      <4> QED
        BY <4>3, <4>4
    <3> QED
      BY <3>7, <3>8
  <2> QED
    BY <2>7, <2>8
<1> QED
  BY <1>1, <1>2

\* The daily delta over a base: no row leaves its two levels, row 0 its own, and
\* none is from after the day.
LEMMA LevelledCombined ==
    ASSUME NEW base, Levelled(base), 0 \in DOMAIN base, Levelled(archive),
           NEW lo \in Days, NEW override, NEW known,
           NEW c, c = Combined(base, lo, override, known)
    PROVE  /\ Levelled(c) /\ 0 \in DOMAIN c
           /\ Raw(base) => Raw(c)
           /\ \A d \in DOMAIN c : d \in DOMAIN base \/ d <= day
<1> DEFINE window == Since(Upto(archive, day), lo)
           delta == IF override THEN window ELSE Since(window, Last(base))
           settled == IF known THEN Undo(base, delta) ELSE delta
<1>1. Levelled(window) /\ \A d \in DOMAIN window : d > 0 /\ d <= day
  <2>1. Levelled(window)
    BY LevelledPart
  <2>2. \A d \in DOMAIN window : d > lo /\ d <= day
    BY DEF Since, Upto
  <2> QED
    BY <2>1, <2>2 DEF Levelled
<1>2. Levelled(Since(window, Last(base)))
      /\ DOMAIN Since(window, Last(base)) \subseteq DOMAIN window
  <2>1. Levelled(Since(window, Last(base)))
    BY <1>1, LevelledPart
  <2> QED
    BY <2>1 DEF Since
<1>3. Levelled(delta) /\ \A d \in DOMAIN delta : d > 0 /\ d <= day
  BY <1>1, <1>2
<1> HIDE DEF delta
<1>4. Levelled(settled) /\ DOMAIN settled = DOMAIN delta
  BY <1>3, LevelledUndo
<1>5. c = Over(settled, base)
  BY DEF Combined, delta
<1> HIDE DEF settled
<1>7. Levelled(c)
  BY <1>4, <1>5, LevelledOver
<1>8. 0 \in DOMAIN c /\ c[0] = base[0]
  BY <1>3, <1>4, <1>5 DEF Over
<1>11. Raw(base) => Raw(c)
  BY <1>7, <1>8 DEF Raw
<1>9. \A d \in DOMAIN c : d \in DOMAIN base \/ d <= day
  BY <1>3, <1>4, <1>5 DEF Over
<1> QED
  BY <1>7, <1>8, <1>9, <1>11

\* When the split is known, the rows from before the ex-date are on the market's
\* scale if those of the base are.
LEMMA KnownCombined ==
    ASSUME NEW base, Levelled(base), 0 \in DOMAIN base, Levelled(archive),
           OnTape(base), NEW lo \in Days, NEW override,
           NEW c, c = Combined(base, lo, override, TRUE)
    PROVE  OnTape(c)
<1> DEFINE window == Since(Upto(archive, day), lo)
           delta == IF override THEN window ELSE Since(window, Last(base))
           settled == Undo(base, delta)
<1>1. Levelled(window) /\ \A d \in DOMAIN window : d > 0
  <2>1. Levelled(window)
    BY LevelledPart
  <2>2. \A d \in DOMAIN window : d > lo
    BY DEF Since, Upto
  <2> QED
    BY <2>1, <2>2 DEF Levelled
<1>2. Levelled(Since(window, Last(base)))
      /\ DOMAIN Since(window, Last(base)) \subseteq DOMAIN window
  <2>1. Levelled(Since(window, Last(base)))
    BY <1>1, LevelledPart
  <2> QED
    BY <2>1 DEF Since
<1>3. Levelled(delta) /\ \A d \in DOMAIN delta : d > 0
  BY <1>1, <1>2
<1>4. c = Over(settled, base)
  BY DEF Combined
<1> HIDE DEF delta
<1>5. DOMAIN settled = DOMAIN delta
  BY DEF Undo
<1>6. \A d \in DOMAIN settled : PreEx(d) => settled[d] = Top
  BY <1>3, <1>5, UndoneToTop DEF OnTape
<1> HIDE DEF settled
<1> QED
  BY <1>4, <1>6 DEF OnTape, Over

\* The splice writes the bar, or the bar on the scale of the row before it.
LEMMA SplicedFits ==
    ASSUME NEW s, Levelled(archive), NEW d \in DOMAIN archive, Levelled(s) \/ ~PreEx(d),
           NEW known, NEW level \in Spliced(s, d, known)
    PROVE  Fits(d, level)
<1> DEFINE prior == Before(s, d)
           bar == archive[d]
           gap == s[Latest(prior)] - bar
<1>1. d \in Days /\ Fits(d, bar) /\ bar \in Int
  BY LevelsAreNumbers DEF Levelled
<1>2. CASE prior = {}
  BY <1>1, <1>2 DEF Spliced
<1>4. CASE ~PreEx(d)
  BY <1>1, <1>4 DEF Spliced
<1>3. CASE prior # {} /\ Levelled(s)
  <2> DEFINE p == Latest(prior)
  <2>1. p \in DOMAIN s /\ p < d
    BY <1>1, <1>3, PriorRow DEF Levelled
  <2>2. p \in Days /\ s[p] \in Int /\ Fits(p, s[p])
    BY <1>3, <2>1, LevelsAreNumbers DEF Levelled
  <2>3. \/ level = bar
        \/ d < Ex /\ gap = -1 /\ level = bar - 1
        \/ d < Ex /\ gap = 1 /\ level = bar + 1
    BY <1>3 DEF Spliced
  <2>4. gap = s[p] - bar
    OBVIOUS
  <2> HIDE DEF p, gap, bar
  <2>5. level = bar \/ (PreEx(d) /\ level = s[p])
    BY <1>1, <2>2, <2>3, <2>4
  <2> QED
    BY <1>1, <2>1, <2>2, <2>5 DEF Fits
<1> QED
  BY <1>2, <1>3, <1>4

\* The reference close is one of the ex-date or later, which has level 0.
LEMMA ReferenceIsNew ==
    ASSUME Levelled(archive), day \in Days, PostDates # {}
    PROVE  PostClose = 0 /\ Ex < day
<1>1. PostDates \in SUBSET Nat
  BY DEF PostDates, Levelled
<1>2. \E x \in PostDates : \A y \in PostDates : x <= y
  BY <1>1, SmallestExists
<1> DEFINE m == CHOOSE d \in PostDates : \A e \in PostDates : d <= e
<1>3. m \in PostDates
  BY <1>2
<1>4. PostClose = archive[m]
  BY DEF PostClose
<1> HIDE DEF m
<1>5. m \in DOMAIN archive /\ m >= Ex /\ m < day /\ m \in Days
  BY <1>3 DEF PostDates, Levelled
<1>6. archive[m] = 0
  BY <1>5 DEF Levelled, Fits
<1> QED
  BY <1>4, <1>5, <1>6

-----------------------------------------------------------------------------
(* The invariant *)

\* What the variables other than the series hold.
ScalarsOK ==
    /\ vendor \in BOOLEAN \X BOOLEAN \X BOOLEAN
    /\ day \in Days /\ step \in Steps /\ at \in Days
    /\ got \in BOOLEAN /\ blind \in BOOLEAN
    /\ verdict \in {Idle, "ambiguous", "direct", "inverse", "none"}
    /\ detected \in BOOLEAN /\ marked \in BOOLEAN
    /\ restated \subseteq Days /\ canonical \subseteq DOMAIN archive
    /\ cacheEnd \in Days

LevelsOK == /\ Levelled(archive) /\ Scaled(universe)
            /\ frame = NoFrame \/ Scaled(frame)

\* The steps outside of a trading day, those before the day has a row, those
\* with a frame at hand, and those that write the marker.
Saturdays == {"close", "refresh", "build", "fold", "audit", "rewrite"}
Mornings == {"scan", "syncArchive", "syncUniverse", "markUniverse", "refetch",
             "prior", "markPrior", "rowPrior"}
FrameSteps == {"markPrior", "rowPrior", "markToday", "rowToday", "fold", "audit", "rewrite"}
MarkSteps == {"markUniverse", "markPrior", "markToday"}

\* Where the day stands; an append has a bar to write, and a marker is written
\* after its restatement.
StepOK == /\ day # 0 /\ (step \notin Saturdays => day >= 2)
          /\ step \in FrameSteps => Scaled(frame)
          /\ step \in MarkSteps => Flat(universe)
          /\ step \in {"markPrior", "rowPrior"} => day - 1 \in DOMAIN archive
          /\ step \in {"markToday", "rowToday"} => day \in DOMAIN archive

\* No series is ahead of the calendar.
Until(s, d) == \A e \in DOMAIN s : e <= d
RowsOK == /\ cacheEnd <= day /\ Until(universe, day) /\ Until(frame, day)
          /\ step \in Mornings => Until(universe, day - 1) /\ Until(frame, day - 1)

\* An archive row marked for a real split is on the new scale, and so is the
\* vendor by then.
MarksOK == /\ real /\ Ex < day => adjusted
           /\ real => \A d \in restated : /\ PreEx(d) /\ Ex < day
                                          /\ d \in DOMAIN archive /\ archive[d] = 0

IInv == ScalarsOK /\ LevelsOK /\ StepOK /\ RowsOK /\ MarksOK

LEMMA Carried ==
    ASSUME real' = real, Levelled(archive'), Scaled(universe'),
           frame' = NoFrame \/ Scaled(frame')
    PROVE  LevelsOK'
<1>1. Low' = Low /\ Top' = Top /\ Home' = Home
  BY DEF Low, Top, Home
<1>2. Levelled(archive)'
  BY <1>1 DEF Levelled, Fits
<1>3. ASSUME Scaled(universe') PROVE Scaled(universe)'
  BY <1>1, <1>3 DEF Scaled, Raw, Flat, Levelled, Fits, Near
<1>4. ASSUME Scaled(frame') PROVE Scaled(frame)'
  BY <1>1, <1>4 DEF Scaled, Raw, Flat, Levelled, Fits, Near
<1> QED
  BY <1>2, <1>3, <1>4 DEF LevelsOK, NoFrame

LEMMA InitIInv == Init => IInv
<1> SUFFICES ASSUME Init PROVE IInv
  OBVIOUS
<1>1. \A d \in Days : Fits(d, Tape(d))
  BY FeedsFit
<1>2. 0 \in Days /\ 1 \in Days /\ Tape(0) = Top
  BY DEF Tape, Top, Low
<1>3. PICK captured \in {{}, {1}}, appended \in {{}, {1}} :
        /\ archive = [d \in captured |-> Tape(d)]
        /\ universe = [d \in {0} \cup appended |-> Tape(d)]
  BY DEF Init
<1>4. Levelled(archive)
  BY <1>1, <1>2, <1>3 DEF Levelled
<1>5. Raw(universe) /\ Until(universe, 1)
  BY <1>1, <1>2, <1>3 DEF Levelled, Raw, Until
<1>6. LevelsOK
  BY <1>4, <1>5 DEF Init, LevelsOK, Scaled
<1>7. ScalarsOK
  BY <1>2, <1>3 DEF Init, ScalarsOK, vendor, Steps, Idle
<1>8. RowsOK
  BY <1>5 DEF Init, RowsOK, Mornings, Until, NoFrame
<1>9. StepOK /\ MarksOK
  BY DEF Init, StepOK, MarksOK, Saturdays, FrameSteps, MarkSteps
<1> QED
  BY <1>6, <1>7, <1>8, <1>9 DEF IInv

\* Every step leaves the market what it is.
LEMMA RealStays == [Next]_vars => real' = real
  BY DEF Next, vars, vendor, Publish, Adjust, NextDay, Weekend, Stop, Morning, Append,
     Evening, Saturday, Scan, SyncArchiveWrite, SyncArchiveNext, SyncArchiveDone,
     SyncUniverse, MarkUniverse, Refetch, RefetchFails, RefetchDone, Ensure,
     MarkEnsured, AppendRow, Capture, Snapshot, RefreshCache, BuildFrame, Fold,
     Audit, Rewrite

-----------------------------------------------------------------------------
(* What the backfill reads *)

\* A cache that was refreshed since the ex-date is on the new scale, and the
\* daily delta behind it, which never overrides it, has no row to restate.
LEMMA FreshCacheIsNew ==
    ASSUME cacheEnd \in Days, Levelled(archive), cacheEnd >= Ex, NEW lo \in Days, NEW known
    PROVE  /\ \A d \in DOMAIN Cache : Cache[d] = 0
           /\ \A d \in DOMAIN Combined(Cache, lo, FALSE, known) :
                Combined(Cache, lo, FALSE, known)[d] = 0
<1> DEFINE window == Since(Upto(archive, day), lo)
           delta == Since(window, Last(Cache))
           settled == IF known THEN Undo(Cache, delta) ELSE delta
           whole == Combined(Cache, lo, FALSE, known)
<1>1. cacheEnd \in Days /\ DOMAIN Cache = 0 .. cacheEnd
  BY DEF Cache
<1>2. \A d \in DOMAIN Cache : Cache[d] = 0
  BY <1>1 DEF Cache, Yahoo
<1>3. Last(Cache) = cacheEnd
  <2>1. 0 .. cacheEnd \in SUBSET Days /\ cacheEnd \in 0 .. cacheEnd
    BY <1>1
  <2>2. Latest(0 .. cacheEnd) \in 0 .. cacheEnd
        /\ \A e \in 0 .. cacheEnd : e <= Latest(0 .. cacheEnd)
    BY <2>1, LatestExists
  <2>3. Latest(0 .. cacheEnd) = cacheEnd
    BY <1>1, <2>1, <2>2
  <2> QED
    BY <1>1, <2>3 DEF Last
<1>4. Levelled(whole)
  <2>1. Levelled(Cache) /\ 0 \in DOMAIN Cache
    BY <1>1, LevelledCache
  <2> QED
    BY <2>1, LevelledCombined
<1>5. \A d \in DOMAIN settled : d > cacheEnd
  <2>1. \A d \in DOMAIN delta : d > cacheEnd
    BY <1>3 DEF Since
  <2>2. DOMAIN settled = DOMAIN delta
    BY DEF Undo
  <2> QED
    BY <2>1, <2>2
<1>6. whole = Over(settled, Cache)
  BY DEF Combined
<1> HIDE DEF settled, whole
<1>7. ASSUME NEW d \in DOMAIN whole PROVE whole[d] = 0
  <2>1. d \in Days
    BY <1>4 DEF Levelled
  <2>2. CASE PreEx(d)
    <3>1. d \notin DOMAIN settled
      BY <1>1, <1>5, <2>1, <2>2
    <3>2. d \in DOMAIN Cache /\ whole[d] = Cache[d]
      BY <1>6, <3>1 DEF Over
    <3> QED
      BY <1>2, <3>2
  <2>3. CASE ~PreEx(d)
    BY <1>4, <2>3 DEF Levelled, Fits
  <2> QED
    BY <2>2, <2>3
<1> QED
  BY <1>2, <1>7 DEF whole

\* The frame of the backfill is on one scale already or on the market's.
LEMMA BuiltIsScaled ==
    ASSUME cacheEnd \in Days, Levelled(archive), NEW lo \in Days, NEW known,
           NEW s, s = Cache \/ s = Combined(Cache, lo, FALSE, known)
    PROVE  Scaled(s) /\ (~real => Raw(s))
<1>1. Levelled(Cache) /\ 0 \in DOMAIN Cache /\ DOMAIN Cache = 0 .. cacheEnd
  BY LevelledCache
<1>2. Levelled(s) /\ 0 \in DOMAIN s
  BY <1>1, LevelledCombined
<1>3. CASE cacheEnd < Ex \/ ~real
  <2>1. Raw(Cache)
    BY <1>1, <1>3, LevelledCache DEF Raw
  <2>2. Raw(s)
    BY <1>1, <2>1, LevelledCombined
  <2> QED
    BY <2>2 DEF Scaled
<1>4. CASE cacheEnd >= Ex /\ real
  <2>1. \A d \in DOMAIN s : s[d] = 0
    BY <1>4, FreshCacheIsNew
  <2>2. cacheEnd \in DOMAIN s
    <3>1. \A t : DOMAIN Cache \subseteq DOMAIN Over(t, Cache)
      BY DEF Over
    <3>2. DOMAIN Cache \subseteq DOMAIN s
      BY <3>1 DEF Combined
    <3> QED
      BY <1>1, <3>2
  <2>3. 0 \in {Home - 1, Home} /\ Home = 0
    BY <1>4 DEF Home
  <2> QED
    BY <1>2, <1>4, <2>1, <2>2, <2>3 DEF Scaled, Flat, Levelled
<1> QED
  BY <1>3, <1>4

-----------------------------------------------------------------------------
(* The levels *)

LEMMA MorningLevels == ASSUME IInv, Morning PROVE LevelsOK'
<1> USE DEF IInv, ScalarsOK, LevelsOK, vendor, run, registry, stores
<1>1. real' = real
  BY RealStays DEF Next
<1>2. ASSUME archive' = archive, universe' = universe, frame' = frame \/ frame' = NoFrame
      PROVE  LevelsOK'
  BY <1>1, <1>2, Carried
<1>3. CASE Scan \/ SyncArchiveNext \/ SyncArchiveDone \/ MarkUniverse \/ RefetchFails
             \/ RefetchDone
  BY <1>2, <1>3 DEF Scan, SyncArchiveNext, SyncArchiveDone, MarkUniverse,
     RefetchFails, RefetchDone, Forget
<1>4. CASE SyncArchiveWrite
  <2>1. at \in DOMAIN archive /\ PreEx(at) /\ Scale(at) = "old"
    BY <1>4 DEF SyncArchiveWrite, Pending
  <2>2. PostDates # {} /\ PostClose = archive[at] - 1
    BY <2>1 DEF Scale
  <2>3. PostClose = 0 /\ archive[at] \in Int
    BY <2>1, <2>2, ReferenceIsNew, LevelsAreNumbers
  <2>4. archive[at] = 1
    BY <2>2, <2>3
  <2>5. real
    BY <2>1, <2>4 DEF Levelled, Fits, Low
  <2>6. archive' = [archive EXCEPT ![at] = archive[at] - 1]
    BY <1>4 DEF SyncArchiveWrite
  <2>7. DOMAIN archive' = DOMAIN archive
        /\ \A d \in DOMAIN archive : archive'[d] = IF d = at THEN 0 ELSE archive[d]
    BY <2>4, <2>6
  <2>8. Levelled(archive')
    BY <2>1, <2>5, <2>7 DEF Levelled, Fits, Low
  <2> QED
    BY <1>1, <1>4, <2>8, Carried DEF SyncArchiveWrite
<1>5. CASE SyncUniverse
  <2>1. universe' = universe \/ (Applies(universe) /\ universe' = Restate(universe))
    BY <1>5 DEF SyncUniverse
  <2>2. Scaled(universe')
    BY <2>1, RestatedIsFlat DEF Scaled
  <2>3. archive' = archive /\ frame' = frame
    BY <1>5 DEF SyncUniverse
  <2> QED
    BY <1>1, <2>2, <2>3, Carried
<1>6. ASSUME NEW known \in {got, detected}, NEW skip \in BOOLEAN,
             Refetch(known, skip)
      PROVE  LevelsOK'
  <2>1. Fits(at, Polygon(at))
    BY FeedsFit
  <2>2. archive' = archive \/ archive' = With(archive, at, Polygon(at))
    BY <1>6 DEF Refetch
  <2>3. Levelled(archive')
    BY <2>1, <2>2, LevelledWith
  <2> QED
    BY <1>1, <1>6, <2>3, Carried DEF Refetch
<1> QED
  BY <1>3, <1>4, <1>5, <1>6 DEF Morning

LEMMA AppendLevels == ASSUME IInv, Append PROVE LevelsOK'
<1> USE DEF IInv, ScalarsOK, LevelsOK, vendor, run, registry, stores
<1>1. real' = real
  BY RealStays DEF Next
<1>2. CASE Ensure
  <2>1. frame' = NoFrame \/ frame' = universe
    BY <1>2 DEF Ensure
  <2>2. universe' = universe \/ (Applies(universe) /\ universe' = Restate(universe))
    BY <1>2 DEF Ensure
  <2>3. archive' = archive
    BY <1>2 DEF Ensure
  <2> QED
    BY <1>1, <2>1, <2>2, <2>3, Carried, RestatedIsFlat DEF Scaled
<1>3. CASE MarkEnsured
  BY <1>1, <1>3, Carried DEF MarkEnsured
<1>4. ASSUME NEW known \in {FALSE, detected}, AppendRow(known) PROVE LevelsOK'
  <2> DEFINE d == Target
             spliced == Spliced(frame, d, known)
             base == IF d >= Last(frame) THEN universe ELSE frame
             level == CHOOSE v \in spliced : TRUE
  <2>1. d \in DOMAIN archive /\ d \in Days /\ d # 0 /\ step \in FrameSteps
    BY <1>4 DEF AppendRow, Target, StepOK, Saturdays, FrameSteps
  <2>2. Until(frame, d) /\ Until(universe, d)
    BY <1>4 DEF AppendRow, Target, RowsOK, Mornings
  <2>3. Scaled(base) /\ Scaled(frame) /\ Until(base, d)
    BY <2>1, <2>2 DEF StepOK
  <2>4. \A s : Scaled(s) /\ Until(s, d) => Raw(s) \/ ~PreEx(d)
    BY <2>1 DEF Scaled, Flat, Until
  <2>5. Levelled(frame) \/ ~PreEx(d)
    BY <2>2, <2>3, <2>4 DEF Raw
  <2>6. spliced # {} => Fits(d, level)
    BY <2>1, <2>5, SplicedFits
  <2>7. universe' = universe \/ (spliced # {} /\ universe' = With(base, d, level))
    BY <1>4 DEF AppendRow
  <2>8. frame' = NoFrame /\ archive' = archive
    BY <1>4 DEF AppendRow
  <2> HIDE DEF d, spliced, base, level
  <2>9. Scaled(universe')
    BY <2>1, <2>3, <2>4, <2>6, <2>7, ScaledWith
  <2> QED
    BY <1>1, <2>8, <2>9, Carried
<1> QED
  BY <1>2, <1>3, <1>4 DEF Append

LEMMA EveningLevels == ASSUME IInv, Evening PROVE LevelsOK'
<1> USE DEF IInv, ScalarsOK, LevelsOK, vendor, run, registry, stores
<1>1. real' = real
  BY RealStays DEF Next
<1>2. CASE Capture
  <2> DEFINE bars == [d \in 1 .. day |-> Yahoo(d, day)]
  <2>1. 1 .. day \subseteq Days
    OBVIOUS
  <2>2. \A d \in 1 .. day : Fits(d, bars[d])
    BY <2>1, FeedsFit
  <2>3. Levelled(bars)
    BY <2>1, <2>2 DEF Levelled
  <2>4. archive' = Over(archive, bars)
    BY <1>2 DEF Capture
  <2> HIDE DEF bars
  <2>5. Levelled(archive')
    BY <2>3, <2>4, LevelledOver
  <2> QED
    BY <1>1, <1>2, <2>5, Carried DEF Capture
<1>3. ASSUME NEW lo \in 0 .. MaxDay, Snapshot(lo) PROVE LevelsOK'
  BY <1>1, <1>3, Carried DEF Snapshot
<1> QED
  BY <1>2, <1>3 DEF Evening

LEMMA SaturdayLevels == ASSUME IInv, Saturday PROVE LevelsOK'
<1> USE DEF IInv, ScalarsOK, LevelsOK, vendor, run, registry, stores
<1>1. real' = real
  BY RealStays DEF Next
<1>2. ASSUME archive' = archive, universe' = universe, frame' = frame \/ frame' = NoFrame
      PROVE  LevelsOK'
  BY <1>1, <1>2, Carried
<1>3. CASE RefreshCache \/ Audit
  BY <1>2, <1>3 DEF RefreshCache, Audit, Forget
<1>4. ASSUME NEW lo \in 0 .. MaxDay, BuildFrame(lo) PROVE LevelsOK'
  <2>1. \E known : frame' = Cache \/ frame' = Combined(Cache, lo, FALSE, known)
    BY <1>4 DEF BuildFrame
  <2>2. Scaled(frame')
    BY <2>1, BuiltIsScaled
  <2> QED
    BY <1>1, <1>4, <2>2, Carried DEF BuildFrame
<1>5. CASE Fold
  <2>1. Scaled(frame)
    BY <1>5 DEF Fold, StepOK, FrameSteps
  <2>2. frame' = frame \/ frame' = NoFrame \/ (Applies(frame) /\ frame' = Restate(frame))
    BY <1>5 DEF Fold, Forget
  <2>3. frame' = NoFrame \/ Scaled(frame')
    BY <2>1, <2>2, RestatedIsFlat DEF Scaled
  <2> QED
    BY <1>1, <1>5, <2>3, Carried DEF Fold
<1>6. CASE Rewrite
  <2>1. Scaled(frame)
    BY <1>6 DEF Rewrite, StepOK, FrameSteps
  <2> QED
    BY <1>1, <1>6, <2>1, Carried DEF Rewrite, Forget
<1> QED
  BY <1>3, <1>4, <1>5, <1>6 DEF Saturday

LEMMA NextLevels == ASSUME IInv, [Next]_vars PROVE LevelsOK'
<1>1. CASE Publish \/ Adjust \/ NextDay \/ Weekend \/ Stop \/ UNCHANGED vars
  <2>1. real' = real
    BY RealStays
  <2>2. archive' = archive /\ universe' = universe /\ (frame' = frame \/ frame' = NoFrame)
    BY <1>1 DEF Publish, Adjust, NextDay, Weekend, Stop, Forget, vars, run, stores
  <2> QED
    BY <2>1, <2>2, Carried DEF IInv, LevelsOK
<1> QED
  BY <1>1, MorningLevels, AppendLevels, EveningLevels, SaturdayLevels DEF Next

-----------------------------------------------------------------------------
(* The other parts *)

\* A task that stops is followed by no marker step, and by a step with a
\* frame only where the append goes on after its restatement.
LEMMA WhatStopReaches ==
    ASSUME NEW s \in Steps, s # "close"
    PROVE  /\ Next1[s] \in Steps \ MarkSteps
           /\ Next1[s] \in FrameSteps \ MarkSteps =>
                \/ s = "markPrior" /\ Next1[s] = "rowPrior"
                \/ s = "markToday" /\ Next1[s] = "rowToday"
           /\ s \in Saturdays => Next1[s] \in Saturdays
           /\ s \in {"prior", "rowPrior"} => Next1[s] = "capture"
           /\ s \in {"today", "rowToday"} => Next1[s] = "close"
  BY DEF Steps, Next1, MarkSteps, FrameSteps, Saturdays

\* What a process holds is of its type, forgotten or not.
HeldOK == at \in Days /\ got \in BOOLEAN /\ blind \in BOOLEAN
            /\ verdict \in {Idle, "ambiguous", "direct", "inverse", "none"}

LEMMA ForgetHeld == Forget => HeldOK'
<1> SUFFICES ASSUME Forget PROVE HeldOK'
  OBVIOUS
<1>1. at' \in Days
  BY DEF Forget
<1>2. got' \in BOOLEAN /\ blind' \in BOOLEAN
  BY DEF Forget
<1>3. verdict' \in {Idle, "ambiguous", "direct", "inverse", "none"}
  BY DEF Forget
<1> QED
  BY <1>1, <1>2, <1>3 DEF HeldOK

LEMMA NextScalars == ASSUME IInv, [Next]_vars PROVE ScalarsOK'
<1> USE DEF IInv, ScalarsOK, vendor, run, registry, stores, Goto
<1>1. CASE UNCHANGED vars
  BY <1>1 DEF vars
<1>2. CASE Publish \/ Adjust
  BY <1>2 DEF Publish, Adjust
<1>3. CASE NextDay
  BY <1>3, ForgetHeld DEF HeldOK, NextDay, Steps
<1>4. CASE Weekend
  BY <1>4, ForgetHeld DEF HeldOK, Weekend, Steps
<1>15. CASE Stop
  <2>1. step' \in Steps
    BY <1>15, WhatStopReaches DEF Stop
  <2>2. at' \in Days /\ got' \in BOOLEAN /\ blind' \in BOOLEAN
        /\ verdict' \in {Idle, "ambiguous", "direct", "inverse", "none"}
    <3>1. HeldOK
      BY DEF HeldOK
    <3>2. CASE Forget
      BY <3>2, ForgetHeld DEF HeldOK
    <3>3. CASE at' = 1 /\ UNCHANGED <<got, verdict, blind>>
      BY <3>1, <3>3 DEF HeldOK
    <3> QED
      BY <1>15, <3>2, <3>3 DEF Stop
  <2> QED
    BY <1>15, <2>1, <2>2 DEF Stop
<1>16. CASE Scan
  <2>1. got' \in BOOLEAN /\ detected' \in BOOLEAN
    BY <1>16 DEF Scan, Scans
  <2> QED
    BY <1>16, <2>1 DEF Scan, Steps
<1>17. CASE SyncArchiveNext
  BY <1>17 DEF SyncArchiveNext
<1>18. CASE SyncArchiveDone
  BY <1>18 DEF SyncArchiveDone, Steps
<1>19. CASE SyncUniverse
  BY <1>19 DEF SyncUniverse, Steps
<1>20. CASE MarkUniverse
  BY <1>20 DEF MarkUniverse, Steps
<1>5. CASE SyncArchiveWrite
  BY <1>5 DEF SyncArchiveWrite, Pending
<1>6. ASSUME NEW known \in {got, detected}, NEW skip \in BOOLEAN,
             Refetch(known, skip)
      PROVE  ScalarsOK'
  <2>1. verdict' \in {Idle, "ambiguous", "direct", "inverse", "none"}
    BY <1>6, EvidenceMeans DEF Refetch
  <2>2. canonical' \subseteq DOMAIN archive' /\ at' \in Days
    BY <1>6 DEF Refetch, With, Over
  <2> QED
    BY <1>6, <2>1, <2>2 DEF Refetch
<1>7. CASE RefetchFails
  BY <1>7 DEF RefetchFails
<1>21. CASE RefetchDone
  BY <1>21, ForgetHeld DEF HeldOK, RefetchDone, Steps
<1>8. CASE Ensure
  BY <1>8, WhatStopReaches DEF Ensure, AfterRow, MarkStep, RowStep, Steps
<1>9. CASE MarkEnsured
  BY <1>9 DEF MarkEnsured, RowStep, Steps
<1>10. ASSUME NEW known \in {FALSE, detected}, AppendRow(known) PROVE ScalarsOK'
  BY <1>10, WhatStopReaches DEF AppendRow, AfterRow
<1>11. CASE Capture
  BY <1>11 DEF Capture, Over, Steps
<1>12. ASSUME NEW lo \in 0 .. MaxDay, Snapshot(lo) PROVE ScalarsOK'
  BY <1>12 DEF Snapshot, Scans, Steps
<1>13. CASE RefreshCache
  BY <1>13 DEF RefreshCache, Steps
<1>22. CASE Fold
  BY <1>22, ForgetHeld DEF HeldOK, Fold, Steps
<1>23. CASE Audit
  BY <1>23, ForgetHeld DEF HeldOK, Audit, Steps
<1>24. CASE Rewrite
  BY <1>24, ForgetHeld DEF HeldOK, Rewrite, Steps
<1>14. ASSUME NEW lo \in 0 .. MaxDay, BuildFrame(lo) PROVE ScalarsOK'
  BY <1>14 DEF BuildFrame, Scans, Steps
<1> QED
  BY <1>1, <1>2, <1>3, <1>4, <1>5, <1>6, <1>7, <1>8, <1>9, <1>10, <1>11, <1>12, <1>13,
     <1>14, <1>15, <1>16, <1>17, <1>18, <1>19, <1>20, <1>21, <1>22, <1>23, <1>24
     DEF Next, Morning, Append, Evening, Saturday

-----------------------------------------------------------------------------
(* The markers *)

\* The day after the ex-date comes only when the vendor has restated.
LEMMA NextAdjusted ==
    ASSUME IInv, [Next]_vars, real, Ex < day' PROVE adjusted'
<1> USE DEF IInv, MarksOK, vendor
<1>1. CASE NextDay
  BY <1>1 DEF NextDay, ScalarsOK
<1>2. CASE day' = day /\ (adjusted' = adjusted \/ adjusted' = TRUE)
  BY <1>2
<1>3. NextDay \/ (day' = day /\ (adjusted' = adjusted \/ adjusted' = TRUE))
  BY DEF Next, vars, Publish, Adjust, Weekend, Stop, Morning, Append,
     Evening, Saturday, Scan, SyncArchiveWrite, SyncArchiveNext, SyncArchiveDone,
     SyncUniverse, MarkUniverse, Refetch, RefetchFails, RefetchDone, Ensure,
     MarkEnsured, AppendRow, Capture, Snapshot, RefreshCache, BuildFrame, Fold,
     Audit, Rewrite
<1> QED
  BY <1>1, <1>2, <1>3

\* A row of the archive that is marked keeps its level, and its place.
LEMMA MarkedRowsStay ==
    ASSUME IInv, [Next]_vars, real, NEW d \in restated
    PROVE  d \in DOMAIN archive' /\ archive'[d] = 0 /\ archive[d] = 0
<1> USE DEF IInv, ScalarsOK, MarksOK, vendor, run, registry, stores
<1>1. d \in DOMAIN archive /\ archive[d] = 0 /\ adjusted
  OBVIOUS
<1>2. CASE archive' = archive
  BY <1>1, <1>2
<1>3. CASE SyncArchiveWrite
  <2>1. at # d /\ archive' = [archive EXCEPT ![at] = archive[at] - 1]
    BY <1>3 DEF SyncArchiveWrite, Pending
  <2> QED
    BY <1>1, <2>1
<1>4. ASSUME NEW known \in {got, detected}, NEW skip \in BOOLEAN, Refetch(known, skip)
      PROVE  d \in DOMAIN archive' /\ archive'[d] = 0
  <2>1. Polygon(at) = 0
    BY <1>1, FeedsFit
  <2>2. archive' = archive \/ archive' = With(archive, at, Polygon(at))
    BY <1>4 DEF Refetch
  <2> QED
    BY <1>1, <2>1, <2>2 DEF With, Over
<1>5. CASE Capture
  BY <1>1, <1>5 DEF Capture, Over
<1>6. \/ archive' = archive \/ SyncArchiveWrite \/ Capture
      \/ \E known \in {got, detected}, skip \in BOOLEAN : Refetch(known, skip)
  BY DEF Next, vars, Publish, Adjust, NextDay, Weekend, Stop, Morning, Append,
     Evening, Saturday, Scan, SyncArchiveNext, SyncArchiveDone,
     SyncUniverse, MarkUniverse, RefetchFails, RefetchDone, Ensure,
     MarkEnsured, AppendRow, Snapshot, RefreshCache, BuildFrame, Fold,
     Audit, Rewrite
<1> QED
  BY <1>1, <1>2, <1>3, <1>4, <1>5, <1>6

\* A row is marked when it is on the scale of a close of the ex-date or later.
LEMMA NewMarkIsNew ==
    ASSUME IInv, [Next]_vars, NEW d \in restated', d \notin restated
    PROVE  PreEx(d) /\ Ex < day /\ d \in DOMAIN archive /\ archive[d] = 0
           /\ archive' = archive /\ day' = day
<1> USE DEF IInv, ScalarsOK, LevelsOK, vendor, run, registry, stores
<1>1. SyncArchiveNext
  BY DEF Next, vars, Publish, Adjust, NextDay, Weekend, Stop, Morning, Append,
     Evening, Saturday, Scan, SyncArchiveWrite, SyncArchiveDone,
     SyncUniverse, MarkUniverse, Refetch, RefetchFails, RefetchDone, Ensure,
     MarkEnsured, AppendRow, Capture, Snapshot, RefreshCache, BuildFrame, Fold,
     Audit, Rewrite
<1>2. d = at /\ Pending(at) /\ Scale(at) = "new"
  BY <1>1 DEF SyncArchiveNext
<1>3. PostDates # {} /\ PostClose = archive[at]
  BY <1>2 DEF Scale
<1>4. PostClose = 0 /\ Ex < day
  BY <1>3, ReferenceIsNew
<1> QED
  BY <1>1, <1>2, <1>3, <1>4 DEF SyncArchiveNext, Pending

LEMMA NextMarks == ASSUME IInv, [Next]_vars PROVE MarksOK'
<1>0. real' = real
  BY RealStays
<1>2. real /\ Ex < day' => adjusted'
  BY NextAdjusted
<1>3. ASSUME real, NEW d \in restated'
      PROVE  PreEx(d) /\ Ex < day' /\ d \in DOMAIN archive' /\ archive'[d] = 0
  <2>1. CASE d \in restated
    <3>1. PreEx(d) /\ Ex < day
      BY <1>3, <2>1 DEF IInv, MarksOK
    <3>2. day' = day \/ day' = day + 1
      BY DEF Next, vars, vendor, Publish, Adjust, NextDay, Weekend, Stop, Morning, Append,
         Evening, Saturday, Scan, SyncArchiveWrite, SyncArchiveNext, SyncArchiveDone,
         SyncUniverse, MarkUniverse, Refetch, RefetchFails, RefetchDone, Ensure,
         MarkEnsured, AppendRow, Capture, Snapshot, RefreshCache, BuildFrame, Fold,
         Audit, Rewrite
    <3>3. day \in Days
      BY DEF IInv, ScalarsOK
    <3>4. Ex < day'
      BY <3>1, <3>2, <3>3
    <3> QED
      BY <1>3, <2>1, <3>1, <3>4, MarkedRowsStay
  <2>2. CASE d \notin restated
    BY <2>2, NewMarkIsNew
  <2> QED
    BY <2>1, <2>2
<1> QED
  BY <1>0, <1>2, <1>3 DEF MarksOK
-----------------------------------------------------------------------------
(* Where the day stands *)

LEMMA ScaleCarried ==
    ASSUME real' = real
    PROVE  /\ Scaled(frame') => Scaled(frame)'
           /\ Flat(universe') => Flat(universe)'
<1>1. Low' = Low /\ Top' = Top /\ Home' = Home
  BY DEF Low, Top, Home
<1>2. ASSUME Scaled(frame') PROVE Scaled(frame)'
  BY <1>1, <1>2 DEF Scaled, Raw, Flat, Levelled, Fits, Near
<1>3. ASSUME Flat(universe') PROVE Flat(universe)'
  BY <1>1, <1>3 DEF Flat, Near
<1> QED
  BY <1>2, <1>3

LEMMA NextStepOK == ASSUME IInv, [Next]_vars PROVE StepOK'
<1> USE DEF IInv, ScalarsOK, LevelsOK, StepOK, vendor, run, registry, stores, Goto, Forget
<1>0. real' = real
  BY RealStays
<1> SUFFICES /\ day' # 0 /\ (step' \notin Saturdays => day' >= 2)
             /\ step' \in FrameSteps => Scaled(frame')
             /\ step' \in MarkSteps => Flat(universe')
             /\ step' \in {"markPrior", "rowPrior"} => day' - 1 \in DOMAIN archive'
             /\ step' \in {"markToday", "rowToday"} => day' \in DOMAIN archive'
  BY <1>0, ScaleCarried DEF FrameSteps, MarkSteps, Saturdays
<1>1. CASE UNCHANGED vars
  BY <1>1 DEF vars
<1>2. CASE Publish \/ Adjust \/ NextDay \/ Weekend
  BY <1>2 DEF Publish, Adjust, NextDay, Weekend, FrameSteps, MarkSteps, Saturdays
<1>3. CASE Stop
  <2>1. step' = Next1[step] /\ step # "close"
    BY <1>3 DEF Stop
  <2>2. step' \notin MarkSteps
        /\ (step' \in FrameSteps =>
              \/ step = "markPrior" /\ step' = "rowPrior"
              \/ step = "markToday" /\ step' = "rowToday")
    BY <2>1, WhatStopReaches
  <2>3. step' \in FrameSteps => frame' = frame
    BY <1>3, <2>1, <2>2 DEF Stop
  <2>4. day' = day /\ archive' = archive
    BY <1>3 DEF Stop
  <2>5. step' \notin Saturdays => step \notin Saturdays
    BY <2>1, WhatStopReaches
  <2> QED
    BY <2>2, <2>3, <2>4, <2>5 DEF FrameSteps
<1>4. CASE Scan \/ SyncArchiveNext \/ SyncArchiveDone \/ SyncArchiveWrite
             \/ MarkUniverse \/ RefetchFails \/ RefetchDone
  BY <1>4 DEF Scan, SyncArchiveNext, SyncArchiveDone, SyncArchiveWrite,
     MarkUniverse, RefetchFails, RefetchDone, FrameSteps, MarkSteps, Saturdays
<1>15. CASE SyncUniverse
  <2>1. step = "syncUniverse" /\ day' = day
    BY <1>15 DEF SyncUniverse
  <2>2. \/ step' = "markUniverse" /\ Applies(universe) /\ universe' = Restate(universe)
        \/ step' = "refetch"
    BY <1>15 DEF SyncUniverse
  <2>3. Applies(universe) => Flat(Restate(universe))
    BY RestatedIsFlat
  <2> QED
    BY <2>1, <2>2, <2>3 DEF FrameSteps, MarkSteps, Saturdays
<1>5. ASSUME NEW known \in {got, detected}, NEW skip \in BOOLEAN,
             Refetch(known, skip)
      PROVE  /\ day' # 0 /\ day' >= 2
             /\ step' = "refetch"
  BY <1>5 DEF Refetch, Saturdays
<1>6. CASE Ensure
  <2>1. CASE Skips
    <3>1. step' = Next1[step] /\ step \in {"prior", "today"} /\ day' = day
      BY <1>6, <2>1 DEF Ensure, AfterRow
    <3>2. step' \in {"capture", "close"}
      BY <3>1, WhatStopReaches
    <3>3. day >= 2
      BY <3>1 DEF Saturdays
    <3> QED
      BY <3>1, <3>2, <3>3 DEF FrameSteps, MarkSteps
  <2>2. CASE ~Skips
    <3>1. frame' = universe /\ archive' = archive /\ day' = day
      BY <1>6, <2>2 DEF Ensure
    <3>2. \/ step = "prior" /\ step' \in {"markPrior", "rowPrior"}
          \/ step = "today" /\ step' \in {"markToday", "rowToday"}
      BY <1>6, <2>2 DEF Ensure, MarkStep, RowStep
    <3>3. Target \in DOMAIN archive
      BY <2>2 DEF Skips
    <3>4. step = "prior" => day - 1 \in DOMAIN archive
      BY <3>3 DEF Target
    <3>5. step = "today" => day \in DOMAIN archive
      BY <3>3 DEF Target
    <3>6. day >= 2
      BY <3>2 DEF Saturdays
    <3>7. step' \in MarkSteps => Applies(universe) /\ universe' = Restate(universe)
      BY <1>6, <2>2 DEF Ensure, MarkStep, RowStep, MarkSteps
    <3>8. step' \in MarkSteps => Flat(universe')
      BY <3>7, RestatedIsFlat
    <3> QED
      BY <3>1, <3>2, <3>4, <3>5, <3>6, <3>8
  <2> QED
    BY <2>1, <2>2
<1>7. CASE MarkEnsured
  <2>1. /\ frame' = universe /\ archive' = archive /\ day' = day
        /\ \/ step = "markPrior" /\ step' = "rowPrior"
           \/ step = "markToday" /\ step' = "rowToday"
    BY <1>7 DEF MarkEnsured, RowStep
  <2> QED
    BY <2>1 DEF MarkSteps, Saturdays
<1>8. ASSUME NEW known \in {FALSE, detected}, AppendRow(known)
      PROVE  /\ day' = day /\ day >= 2
             /\ step' \in {"capture", "close"}
  <2>1. step' = Next1[step] /\ step \in {"rowPrior", "rowToday"} /\ day' = day
    BY <1>8 DEF AppendRow, AfterRow
  <2>2. step' \in {"capture", "close"} /\ step \notin Saturdays
    BY <2>1, WhatStopReaches DEF FrameSteps, Saturdays
  <2> QED
    BY <2>1, <2>2
<1>9. CASE Capture
  BY <1>9 DEF Capture, Saturdays, FrameSteps, MarkSteps
<1>10. ASSUME NEW lo \in 0 .. MaxDay, Snapshot(lo)
       PROVE  day' = day /\ day >= 2 /\ step' = "today"
  BY <1>10 DEF Snapshot, Saturdays
<1>11. CASE RefreshCache \/ Rewrite
  BY <1>11 DEF RefreshCache, Rewrite, Saturdays, FrameSteps, MarkSteps
<1>12. CASE Audit
  BY <1>12 DEF Audit, Saturdays, FrameSteps, MarkSteps
<1>13. ASSUME NEW lo \in 0 .. MaxDay, BuildFrame(lo)
       PROVE  day' = day /\ step' = "fold" /\ Scaled(frame')
  <2>1. \E known : frame' = Cache \/ frame' = Combined(Cache, lo, FALSE, known)
    BY <1>13 DEF BuildFrame
  <2>2. Scaled(frame')
    BY <2>1, BuiltIsScaled
  <2> QED
    BY <1>13, <2>2 DEF BuildFrame
<1>14. CASE Fold
  <2>1. Scaled(frame)
    BY <1>14 DEF Fold, FrameSteps
  <2>2. \/ step' = "audit" /\ frame' = frame
        \/ step' = "audit" /\ Applies(frame) /\ frame' = Restate(frame)
        \/ step' = "close"
    BY <1>14 DEF Fold
  <2>3. step' = "audit" => Scaled(frame')
    BY <2>1, <2>2, RestatedIsFlat DEF Scaled
  <2>4. day' = day /\ step' \in {"audit", "close"}
    BY <1>14, <2>2 DEF Fold
  <2> QED
    BY <2>3, <2>4 DEF Saturdays, MarkSteps, FrameSteps
<1> QED
  BY <1>1, <1>2, <1>3, <1>4, <1>5, <1>6, <1>7, <1>8, <1>9, <1>10, <1>11, <1>12, <1>13,
     <1>14, <1>15 DEF Next, Morning, Append, Evening, Saturday, Saturdays, FrameSteps, MarkSteps

\* No step puts a row on a day to come.
LEMMA NextRows == ASSUME IInv, [Next]_vars PROVE RowsOK'
<1> USE DEF IInv, ScalarsOK, RowsOK, vendor, run, registry, stores, Goto
<1> SUFFICES /\ cacheEnd' <= day' /\ Until(universe', day') /\ Until(frame', day')
             /\ step' \in Mornings => Until(universe', day' - 1) /\ Until(frame', day' - 1)
  BY DEF Until, Mornings
<1>0. /\ \A d : Until(NoFrame, d)
      /\ \A s : Until(s, day - 1) /\ DOMAIN s \subseteq Days => Until(s, day)
  BY DEF Until, NoFrame
<1>1. \A s : Until(s, day) => Until(s, day + 1) \/ ~(DOMAIN s \subseteq Days)
  BY DEF Until
<1>2. DOMAIN universe \subseteq Days /\ DOMAIN frame \subseteq Days
  BY DEF LevelsOK, Scaled, Raw, Flat, Levelled, NoFrame
<1>3. CASE UNCHANGED vars
  BY <1>3 DEF vars
<1>4. CASE Publish \/ Adjust \/ Weekend
  BY <1>0, <1>4 DEF Publish, Adjust, Weekend, Forget, Mornings
<1>5. CASE NextDay
  <2>1. cacheEnd' = cacheEnd /\ day' = day + 1 /\ universe' = universe /\ frame' = NoFrame
    BY <1>5 DEF NextDay, Forget
  <2>2. Until(universe, day + 1) /\ day' - 1 = day
    BY <1>1, <1>2, <2>1
  <2>3. cacheEnd' <= day'
    BY <2>1
  <2> QED
    BY <1>0, <2>1, <2>2, <2>3
<1>6. CASE Stop
  <2>1. step' = Next1[step] /\ step # "close" /\ day' = day /\ cacheEnd' = cacheEnd
        /\ universe' = universe /\ (frame' = frame \/ frame' = NoFrame)
    BY <1>6 DEF Stop, Forget
  <2>2. step' \in Mornings => step \in Mornings
    BY <2>1 DEF Next1, Steps, Mornings
  <2> QED
    BY <1>0, <2>1, <2>2
<1>7. CASE Morning
  <2>1. cacheEnd' = cacheEnd /\ day' = day /\ step \in Mornings
        /\ (frame' = frame \/ frame' = NoFrame)
    BY <1>7 DEF Morning, Scan, SyncArchiveWrite, SyncArchiveNext, SyncArchiveDone,
       SyncUniverse, MarkUniverse, Refetch, RefetchFails, RefetchDone, Forget, Mornings
  <2>2. universe' = universe \/ (SyncUniverse /\ universe' = Restate(universe))
    BY <1>7 DEF Morning, Scan, SyncArchiveWrite, SyncArchiveNext, SyncArchiveDone,
       SyncUniverse, MarkUniverse, Refetch, RefetchFails, RefetchDone
  <2>3. DOMAIN Restate(universe) = DOMAIN universe
    BY DEF Restate, Shifted
  <2>4. DOMAIN universe' = DOMAIN universe
    BY <2>2, <2>3
  <2> QED
    BY <1>0, <2>1, <2>4 DEF Until
<1>8. CASE Ensure
  <2>1. cacheEnd' = cacheEnd /\ day' = day /\ (frame' = universe \/ frame' = NoFrame)
        /\ (universe' = universe \/ universe' = Restate(universe))
    BY <1>8 DEF Ensure
  <2>2. DOMAIN Restate(universe) = DOMAIN universe
    BY DEF Restate, Shifted
  <2>3. DOMAIN universe' = DOMAIN universe
    BY <2>1, <2>2
  <2>4. step \in {"prior", "today"} /\ step' \in {AfterRow, MarkStep, RowStep}
    BY <1>8 DEF Ensure
  <2>5. step' \in Mornings => step \in Mornings
    BY <2>4, WhatStopReaches DEF AfterRow, MarkStep, RowStep, Mornings, Steps
  <2> QED
    BY <1>0, <2>1, <2>3, <2>5 DEF Until
<1>9. CASE MarkEnsured
  BY <1>9 DEF MarkEnsured, RowStep, Mornings
<1>10. ASSUME NEW known \in {FALSE, detected}, AppendRow(known)
       PROVE  /\ cacheEnd' = cacheEnd /\ day' = day /\ step' \notin Mornings
              /\ Until(universe', day) /\ frame' = NoFrame
  <2>1. cacheEnd' = cacheEnd /\ day' = day /\ frame' = NoFrame
        /\ step \in {"rowPrior", "rowToday"} /\ step' = Next1[step]
    BY <1>10 DEF AppendRow, AfterRow
  <2>2. step' \notin Mornings
    BY <2>1, WhatStopReaches DEF Mornings, Steps
  <2>3. Target <= day
    BY <2>1 DEF Target
  <2>4. \/ universe' = universe
        \/ \E level : universe' = With(universe, Target, level)
        \/ \E level : universe' = With(frame, Target, level)
    BY <1>10 DEF AppendRow
  <2>5. DOMAIN universe' \subseteq DOMAIN universe \cup DOMAIN frame \cup {Target}
    BY <2>4 DEF With, Over
  <2> QED
    BY <2>1, <2>2, <2>3, <2>5 DEF Until
<1>11. CASE Evening
  BY <1>11 DEF Evening, Capture, Snapshot, Mornings
<1>12. CASE RefreshCache
  BY <1>12 DEF RefreshCache, Mornings
<1>13. ASSUME NEW lo \in 0 .. MaxDay, BuildFrame(lo)
       PROVE  /\ cacheEnd' = cacheEnd /\ day' = day /\ step' \notin Mornings
              /\ universe' = universe /\ Until(frame', day)
  <2>1. \E known : frame' = Cache \/ frame' = Combined(Cache, lo, FALSE, known)
    BY <1>13 DEF BuildFrame
  <2>2. DOMAIN Cache = 0 .. cacheEnd /\ Levelled(Cache) /\ 0 \in DOMAIN Cache
    BY LevelledCache
  <2>3. Until(Cache, day)
    BY <2>2 DEF Until
  <2>4. \A d \in DOMAIN frame' : d \in DOMAIN Cache \/ d <= day
    BY <2>1, <2>2, LevelledCombined DEF LevelsOK
  <2> QED
    BY <1>13, <2>3, <2>4 DEF BuildFrame, Mornings, Until
<1>14. CASE Fold
  <2>1. cacheEnd' = cacheEnd /\ day' = day /\ step' \notin Mornings /\ universe' = universe
        /\ (frame' = frame \/ frame' = NoFrame \/ frame' = Restate(frame))
    BY <1>14 DEF Fold, Forget, Mornings
  <2>2. DOMAIN Restate(frame) = DOMAIN frame
    BY DEF Restate, Shifted
  <2> QED
    BY <1>0, <2>1, <2>2 DEF Until
<1>15. CASE Audit
  BY <1>0, <1>15 DEF Audit, Forget, Mornings
<1>16. CASE Rewrite
  BY <1>0, <1>16 DEF Rewrite, Forget, Mornings
<1> QED
  BY <1>0, <1>3, <1>4, <1>5, <1>6, <1>7, <1>8, <1>9, <1>10, <1>11, <1>12, <1>13, <1>14, <1>15,
     <1>16 DEF Next, Append, Saturday

LEMMA Invariant == Spec => []IInv
<1>1. IInv /\ [Next]_vars => IInv'
  BY NextScalars, NextLevels, NextStepOK, NextRows, NextMarks DEF IInv
<1> QED
  BY <1>1, InitIInv, PTL DEF Spec

-----------------------------------------------------------------------------
(* What holds of every calendar, ex-date, lookahead and window *)

\* Every variable keeps its type, and every row is within one factor of the
\* scale it should have.
THEOREM TypeCorrect == Spec => []TypeOK
<1>1. IInv => TypeOK
  <2> SUFFICES ASSUME IInv PROVE TypeOK
    OBVIOUS
  <2>1. ASSUME NEW s, Levelled(s) \/ Scaled(s) \/ s = NoFrame
        PROVE  DOMAIN s \subseteq Days /\ \A d \in DOMAIN s : s[d] \in Levels
    <3>1. CASE Levelled(s)
      BY <3>1 DEF Levelled, Fits, Low, Levels
    <3>2. CASE Flat(s)
      <4>1. Home - 1 \in Levels /\ Home \in Levels
        BY DEF Home, Levels
      <4> QED
        BY <3>2, <4>1 DEF Flat
    <3>3. CASE s = NoFrame
      BY <3>3 DEF NoFrame
    <3> QED
      BY <2>1, <3>1, <3>2, <3>3 DEF Scaled, Raw
  <2>2. \A s \in {archive, universe, frame} :
          DOMAIN s \subseteq Days /\ \A d \in DOMAIN s : s[d] \in Levels
    BY <2>1 DEF IInv, LevelsOK
  <2> QED
    BY <2>2 DEF IInv, ScalarsOK, TypeOK
<1> QED
  BY <1>1, Invariant, PTL

\* Whichever of the four writers restates for a real split, and wherever they
\* stop between a write and its marker, no row of the archive, none of the
\* universe's history and none of the window is divided a second time.
THEOREM NeverTwiceHolds == Spec => []NeverTwice
<1>1. ASSUME IInv, real PROVE \A d \in DOMAIN archive : archive[d] >= 0
  BY <1>1 DEF IInv, LevelsOK, Levelled, Fits, Low
<1>2. ASSUME IInv, real, NEW d \in DOMAIN universe, universe[d] < 0
      PROVE  0 < d /\ d < Ex - Window
  <2>1. Scaled(universe)
    BY <1>2 DEF IInv, LevelsOK
  <2>2. ~Raw(universe)
    BY <1>2 DEF Raw, Levelled, Fits, Low
  <2>3. Flat(universe)
    BY <2>1, <2>2 DEF Scaled
  <2>4. d \in Days /\ d # 0
    BY <1>2, <2>3 DEF Flat, Home
  <2>5. ~Near(d) /\ PreEx(d)
    BY <1>2, <2>3 DEF Flat
  <2> QED
    BY <2>4, <2>5 DEF Near
<1>3. IInv => NeverTwice
  BY <1>1, <1>2 DEF NeverTwice
<1> QED
  BY <1>3, Invariant, PTL

\* No restatement, splice or undo reaches the ex-date.
THEOREM PostExHolds == Spec => []PostExUntouched
<1>1. ASSUME IInv, NEW s \in {archive, universe}, NEW d \in DOMAIN s, d >= Ex PROVE s[d] = 0
  <2>1. Levelled(s) \/ Flat(s)
    BY <1>1 DEF IInv, LevelsOK, Scaled, Raw
  <2>2. d \in Days /\ ~PreEx(d)
    BY <1>1, <2>1 DEF Levelled, Flat
  <2> QED
    BY <1>1, <2>1, <2>2 DEF Levelled, Fits, Flat
<1>2. IInv => PostExUntouched
  BY <1>1 DEF PostExUntouched
<1> QED
  BY <1>2, Invariant, PTL

\* Neither a refetch nor a capture moves an archive row that is marked.
THEOREM RestatedStaysHolds == Spec => RestatedStays
<1>1. IInv /\ [Next]_vars => [real => \A d \in restated : archive'[d] = archive[d]]_vars
  BY MarkedRowsStay
<1> QED
  BY <1>1, Invariant, PTL DEF Spec, RestatedStays

-----------------------------------------------------------------------------
(* What the Saturday backfill holds on its way to the rewrite *)

WorkSteps == {"fold", "audit", "rewrite"}

Jumps(s) == \E d \in DOMAIN s : Near(d) /\ Before(s, d) # {} /\ Step(s, d) = 1

\* A phantom is never folded in; a fresh cache is on one scale; and so is what
\* a run that knows of the split holds, or it is wholly on the market's scale
\* before the ex-date, and past the audit it shows no jump.
HInv ==
    step \in WorkSteps =>
        /\ ~real => Raw(frame) /\ (step = "fold" /\ got => Zeros(frame))
        /\ cacheEnd >= Ex => Zeros(frame)
        /\ detected /\ ~blind =>
             Zeros(frame) \/ (OnTape(frame) /\ (step = "rewrite" => ~Jumps(frame)))

LEMMA InitHInv == Init => HInv
  BY DEF Init, HInv, WorkSteps

LEMMA HeldCarried ==
    ASSUME real' = real
    PROVE  /\ Raw(frame') => Raw(frame)'
           /\ OnTape(frame') => OnTape(frame)'
           /\ Zeros(frame') => Zeros(frame)'
           /\ ~Jumps(frame') => ~Jumps(frame)'
<1>1. Low' = Low /\ Top' = Top
  BY DEF Low, Top
<1>2. ASSUME Raw(frame') PROVE Raw(frame)'
  BY <1>1, <1>2 DEF Raw, Levelled, Fits
<1>3. ASSUME OnTape(frame') PROVE OnTape(frame)'
  BY <1>1, <1>3 DEF OnTape
<1> QED
  BY <1>2, <1>3 DEF Zeros, Jumps, Near, Before, Step

\* A series on one scale is not restated, and one on the market's is restated to
\* one scale.
LEMMA RestatedToZero ==
    ASSUME NEW s, Scaled(s), Applies(s)
    PROVE  ~Zeros(s) /\ (OnTape(s) => real /\ Zeros(Restate(s)))
<1>1. Raw(s) /\ DOMAIN Restate(s) = DOMAIN s
      /\ \A d \in DOMAIN s : Restate(s)[d] =
           IF PreEx(d) THEN s[d] + (IF real THEN -1 ELSE 1) ELSE 0
  BY RestatedIsFlat
<1>2. DOMAIN s \subseteq Days /\ \A d \in DOMAIN s : ~PreEx(d) => s[d] = 0
  BY <1>1 DEF Raw, Levelled, Fits
<1>3. ~Zeros(s)
  BY <1>2, QuietWindow DEF Zeros
<1>4. ASSUME OnTape(s) PROVE real /\ Zeros(Restate(s))
  <2>1. real
    BY <1>2, <1>3, <1>4 DEF OnTape, Zeros, Top, Low
  <2> QED
    BY <1>1, <1>4, <2>1 DEF OnTape, Zeros, Top, Low
<1> QED
  BY <1>3, <1>4

\* The backfill is entered by its first step, and left when it stops.
LEMMA NotAtWork ==
    ASSUME IInv, [Next]_vars,
           ~(\E lo \in 0 .. MaxDay : BuildFrame(lo)), ~Fold, ~Audit
    PROVE  \/ step' \notin WorkSteps
           \/ /\ step' = step /\ frame' = frame /\ cacheEnd' = cacheEnd
              /\ detected' = detected /\ blind' = blind /\ got' = got
<1> USE DEF vendor, run, registry, stores, Goto, Forget, WorkSteps
<1>1. \A s \in Steps : Next1[s] \notin WorkSteps
  BY DEF Next1, Steps
<1>2. step \in Steps
  BY DEF IInv, ScalarsOK
<1>3. CASE UNCHANGED vars
  BY <1>3 DEF vars
<1>4. CASE Publish \/ Adjust \/ NextDay \/ Weekend
  BY <1>4 DEF Publish, Adjust, NextDay, Weekend
<1>5. CASE Stop
  BY <1>1, <1>2, <1>5 DEF Stop
<1>6. CASE Morning
  BY <1>6 DEF Morning, Scan, SyncArchiveWrite, SyncArchiveNext, SyncArchiveDone,
     SyncUniverse, MarkUniverse, Refetch, RefetchFails, RefetchDone
<1>7. CASE Append
  <2>1. CASE Ensure
    <3>1. step' = AfterRow \/ step' = MarkStep \/ step' = RowStep
      BY <2>1 DEF Ensure
    <3> QED
      BY <1>1, <1>2, <3>1 DEF AfterRow, MarkStep, RowStep
  <2>2. CASE MarkEnsured
    BY <2>2 DEF MarkEnsured, RowStep
  <2>3. ASSUME NEW known \in {FALSE, detected}, AppendRow(known)
        PROVE  step' \notin WorkSteps
    BY <1>1, <1>2, <2>3 DEF AppendRow, AfterRow
  <2> QED
    BY <1>7, <2>1, <2>2, <2>3 DEF Append
<1>8. CASE Evening
  BY <1>8 DEF Evening, Capture, Snapshot
<1>9. CASE RefreshCache \/ Rewrite
  BY <1>9 DEF RefreshCache, Rewrite
<1> QED
  BY <1>3, <1>4, <1>5, <1>6, <1>7, <1>8, <1>9 DEF Next, Saturday

\* A frame built with the split known is on one scale, or on the market's.
LEMMA KnownFrame ==
    ASSUME cacheEnd \in Days, Levelled(archive), NEW lo \in Days,
           NEW s, s = Cache \/ s = Combined(Cache, lo, FALSE, TRUE)
    PROVE  Zeros(s) \/ OnTape(s)
<1>1. Levelled(Cache) /\ 0 \in DOMAIN Cache
  BY LevelledCache
<1>2. CASE cacheEnd >= Ex
  BY <1>2, FreshCacheIsNew DEF Zeros
<1>3. CASE cacheEnd < Ex
  <2>1. \A d \in DOMAIN Cache : PreEx(d) => Cache[d] = Top
    BY <1>3, LevelledCache
  <2>2. CASE s = Cache
    BY <2>1, <2>2 DEF OnTape
  <2>3. CASE s = Combined(Cache, lo, FALSE, TRUE)
    BY <1>1, <2>1, <2>3, KnownCombined DEF OnTape
  <2> QED
    BY <2>2, <2>3
<1> QED
  BY <1>2, <1>3

LEMMA NextHeld ==
    ASSUME IInv, HInv, [Next]_vars, step' \in WorkSteps
    PROVE  /\ ~real => Raw(frame') /\ (step' = "fold" /\ got' => Zeros(frame'))
           /\ cacheEnd' >= Ex => Zeros(frame')
           /\ detected' /\ ~blind' =>
                Zeros(frame') \/ (OnTape(frame') /\ (step' = "rewrite" => ~Jumps(frame')))
<1> USE DEF vendor, run, registry, stores, Goto
<1>1. ASSUME NEW lo \in 0 .. MaxDay, BuildFrame(lo)
      PROVE  /\ step' = "fold" /\ (~real => Raw(frame') /\ (got' => Zeros(frame')))
             /\ cacheEnd' >= Ex => Zeros(frame')
             /\ detected' /\ ~blind' => Zeros(frame') \/ OnTape(frame')
  <2>1. step' = "fold" /\ cacheEnd' = cacheEnd /\ cacheEnd \in Days /\ Levelled(archive)
    BY <1>1 DEF BuildFrame, IInv, ScalarsOK, LevelsOK
  <2>2. PICK known \in {got', detected'} :
          /\ frame' = Cache \/ frame' = Combined(Cache, lo, FALSE, known)
          /\ blind' = (known # detected')
    BY <1>1 DEF BuildFrame
  <2>3. cacheEnd >= Ex => Zeros(frame')
    BY <2>1, <2>2, FreshCacheIsNew DEF Zeros
  <2>4. ~real => Raw(frame')
    BY <2>1, <2>2, BuiltIsScaled
  <2>5. known = TRUE => Zeros(frame') \/ OnTape(frame')
    BY <2>1, <2>2, KnownFrame
  <2>6. got' \in BOOLEAN /\ detected' \in BOOLEAN /\ (got' => detected')
    BY <1>1 DEF BuildFrame, Scans, IInv, ScalarsOK
  <2>7. got' => known = TRUE
    BY <2>2, <2>6
  <2>8. detected' /\ ~blind' => known = TRUE
    BY <2>2, <2>6
  <2>9. ~real /\ OnTape(frame') => Zeros(frame')
    <3> SUFFICES ASSUME ~real, OnTape(frame') PROVE Zeros(frame')
      OBVIOUS
    <3>1. Levelled(frame') /\ Top = 0
      BY <2>4 DEF Raw, Top, Low
    <3> QED
      BY <3>1 DEF OnTape, Zeros, Levelled, Fits
  <2> QED
    BY <2>1, <2>3, <2>4, <2>5, <2>7, <2>8, <2>9
<1>2. CASE Fold
  <2>1. Scaled(frame) /\ step = "fold" /\ cacheEnd' = cacheEnd /\ detected' = detected
    BY <1>2 DEF Fold, IInv, StepOK, FrameSteps
  <2>2. /\ step' = "audit"
        /\ \/ frame' = frame /\ blind' = blind
           \/ got /\ Applies(frame) /\ frame' = Restate(frame) /\ blind' = blind
    BY <1>2 DEF Fold, WorkSteps
  <2>3. HInv /\ step \in WorkSteps
    BY <2>1 DEF WorkSteps
  <2>4. Applies(frame) => ~Zeros(frame) /\ (OnTape(frame) => Zeros(Restate(frame)))
    BY <2>1, RestatedToZero
  <2> QED
    BY <2>1, <2>2, <2>3, <2>4 DEF HInv
<1>3. CASE Audit
  <2>1. step = "audit" /\ cacheEnd' = cacheEnd /\ detected' = detected
    BY <1>3 DEF Audit
  <2>2. PICK known \in {FALSE, detected} :
          step' = "rewrite" /\ frame' = frame /\ ~Missed(known)
          /\ blind' = (blind \/ known # detected)
    BY <1>3 DEF Audit, WorkSteps
  <2>3. blind \in BOOLEAN /\ detected \in BOOLEAN
    BY DEF IInv, ScalarsOK
  <2>4. detected /\ ~blind' => ~blind /\ known = TRUE
    BY <2>2, <2>3
  <2>5. known = TRUE => ~Jumps(frame)
    BY <2>2 DEF Missed, Boundaries, Jumps
  <2>6. HInv /\ step \in WorkSteps
    BY <2>1 DEF WorkSteps
  <2> QED
    BY <2>1, <2>2, <2>4, <2>5, <2>6 DEF HInv
<1>4. CASE step' = step /\ frame' = frame /\ cacheEnd' = cacheEnd /\ detected' = detected
           /\ blind' = blind /\ got' = got
  BY <1>4 DEF HInv
<1> QED
  BY <1>1, <1>2, <1>3, <1>4, NotAtWork

LEMMA NextHInv == ASSUME IInv, HInv, [Next]_vars PROVE HInv'
<1>1. real' = real
  BY RealStays
<1>2. ASSUME step' \in WorkSteps
      PROVE  /\ ~real' => Raw(frame)' /\ (step' = "fold" /\ got' => Zeros(frame)')
             /\ cacheEnd' >= Ex => Zeros(frame)'
             /\ detected' /\ ~blind' =>
                  Zeros(frame)' \/ (OnTape(frame)' /\ (step' = "rewrite" => ~Jumps(frame)'))
  <2>1. /\ Raw(frame') => Raw(frame)'
        /\ OnTape(frame') => OnTape(frame)'
        /\ Zeros(frame') => Zeros(frame)'
        /\ ~Jumps(frame') => ~Jumps(frame)'
    BY <1>1, HeldCarried
  <2> QED
    BY <1>1, <1>2, <2>1, NextHeld
<1> QED
  BY <1>2 DEF HInv, WorkSteps

LEMMA HeldAtWork == Spec => []HInv
<1>1. IInv /\ HInv /\ [Next]_vars => HInv'
  BY NextHInv
<1> QED
  BY <1>1, InitHInv, Invariant, PTL DEF Spec

-----------------------------------------------------------------------------
(* What a step may do to the universe *)

\* A phantom's universe series that holds no adjusted bar prints no evidence.
LEMMA QuietPhantom ==
    ASSUME NEW s, Levelled(s), Zeros(s) \/ (OnTape(s) /\ ~real)
    PROVE  Zeros(s) /\ Evidence(s) = "none" /\ ~Applies(s)
<1>1. Zeros(s)
  BY DEF Zeros, OnTape, Top, Low, Levelled, Fits
<1> QED
  BY <1>1, QuietWindow DEF Levelled, Zeros

\* The row an append writes goes to the head of the series it read, so its
\* history is the stored one.
LEMMA AppendKeepsHead ==
    ASSUME IInv, NEW known, AppendRow(known), Scaled(frame)
    PROVE  universe'[0] = universe[0]
<1> USE DEF IInv, ScalarsOK
<1>1. Target # 0 /\ Until(frame, Target)
  BY DEF AppendRow, Target, StepOK, RowsOK, Mornings, Saturdays
<1>2. DOMAIN frame \subseteq Days /\ 0 \in DOMAIN frame
  BY DEF Scaled, Raw, Flat, Levelled
<1>3. Last(frame) \in DOMAIN frame
  BY <1>2, LatestExists DEF Last
<1>4. Target >= Last(frame)
  BY <1>1, <1>3 DEF Until
<1>5. universe' = universe \/ \E level : universe' = With(universe, Target, level)
  BY <1>4 DEF AppendRow
<1>6. 0 \in DOMAIN universe
  BY DEF LevelsOK, Scaled, Raw, Flat
<1> QED
  BY <1>1, <1>5, <1>6 DEF With, Over

\* What the snapshot computes of a universe series without adjusted bars has
\* none either, once the registry's split is undone in the archive's rows.
LEMMA SnapshotQuiet ==
    ASSUME IInv, ~real, Zeros(universe), NEW lo \in Days, step = "snapshot"
    PROVE  ~Applies(Combined(Upto(universe, day - 1), lo, TRUE, TRUE))
<1> DEFINE base == Upto(universe, day - 1)
           c == Combined(base, lo, TRUE, TRUE)
<1>1. day \in Days /\ day >= 2 /\ Levelled(archive)
  BY DEF IInv, ScalarsOK, StepOK, Saturdays, LevelsOK
<1>2. DOMAIN universe \subseteq Days /\ 0 \in DOMAIN universe
  BY DEF IInv, LevelsOK, Scaled, Raw, Flat, Levelled
<1>3. Zeros(base) /\ DOMAIN base \subseteq DOMAIN universe /\ 0 \in DOMAIN base
  BY <1>1, <1>2 DEF Zeros, Upto
<1>4. Levelled(base) /\ OnTape(base)
  BY <1>2, <1>3 DEF Levelled, OnTape, Zeros, Fits, Low, Top
<1> HIDE DEF base
<1>5. OnTape(c)
  BY <1>1, <1>3, <1>4, KnownCombined
<1>6. Levelled(c)
  BY <1>1, <1>3, <1>4, LevelledCombined
<1> HIDE DEF c
<1>7. ~Applies(c)
  BY <1>5, <1>6, QuietPhantom
<1> QED
  BY <1>7 DEF c, base

\* Only a restatement, an append or the rewrite writes the universe, and only a
\* restatement marks it.
LEMMA PhantomStep ==
    ASSUME IInv, HInv, Next, ~real, Zeros(universe)
    PROVE  universe'[0] = 0 /\ (marked' => marked)
<1> USE DEF vendor, run, registry, stores, Goto
<1>1. Levelled(universe) /\ 0 \in DOMAIN universe /\ universe[0] = 0
  BY DEF IInv, LevelsOK, Scaled, Raw, Flat, Levelled, Zeros, Fits, Low
<1>2. ~Applies(universe) /\ ~Flat(universe)
  BY <1>1, QuietPhantom DEF Flat, Home
<1>3. step \notin MarkSteps
  BY <1>2 DEF IInv, StepOK
<1>4. CASE universe' = universe /\ marked' = marked
  BY <1>1, <1>4
<1>5. CASE Morning
  <2>1. ~MarkUniverse
    BY <1>3 DEF MarkUniverse, MarkSteps
  <2>2. universe' = universe /\ marked' = marked
    BY <1>2, <1>5, <2>1 DEF Morning, Scan, SyncArchiveWrite, SyncArchiveNext,
       SyncArchiveDone, SyncUniverse, Refetch, RefetchFails, RefetchDone
  <2> QED
    BY <1>1, <2>2
<1>6. CASE Ensure
  BY <1>1, <1>2, <1>6 DEF Ensure
<1>7. CASE MarkEnsured
  BY <1>3, <1>7 DEF MarkEnsured, MarkSteps
<1>8. ASSUME NEW known \in {FALSE, detected}, AppendRow(known)
      PROVE  universe'[0] = 0 /\ marked' = marked
  <2>1. Scaled(frame)
    BY <1>8 DEF AppendRow, IInv, StepOK, FrameSteps
  <2> QED
    BY <1>1, <1>8, <2>1, AppendKeepsHead DEF AppendRow
<1>9. ASSUME NEW lo \in 0 .. MaxDay, Snapshot(lo)
      PROVE  universe' = universe /\ (marked' => marked)
  <2>1. step = "snapshot" /\ universe' = universe /\ lo \in Days
    BY <1>9 DEF Snapshot
  <2> DEFINE base == Upto(universe, day - 1)
  <2>3. ~Applies(Combined(base, lo, TRUE, TRUE))
    BY <2>1, SnapshotQuiet
  <2>2. CASE marked' = marked
    BY <2>1, <2>2
  <2>4. CASE marked' # marked
    <3>1. PICK g \in Scans(lo, day), list \in BOOLEAN :
            marked' = (marked \/ (g /\ Applies(Combined(base, lo, TRUE, g \/ (list /\ detected')))))
      BY <1>9, <2>4 DEF Snapshot
    <3> HIDE DEF base
    <3>2. CASE g = TRUE
      <4>1. (g \/ (list /\ detected')) = TRUE
        BY <3>2
      <4>2. Combined(base, lo, TRUE, g \/ (list /\ detected')) = Combined(base, lo, TRUE, TRUE)
        BY <4>1
      <4> QED
        BY <2>1, <2>3, <3>1, <4>2
    <3>3. CASE g # TRUE
      BY <2>1, <3>1, <3>3 DEF Scans, IInv, ScalarsOK
    <3> QED
      BY <3>2, <3>3
  <2> QED
    BY <2>2, <2>4
<1>10. CASE Fold
  <2>1. step = "fold" /\ universe' = universe
    BY <1>10 DEF Fold
  <2>2. got => Evidence(frame) = "none"
    BY <2>1, QuietPhantom DEF HInv, WorkSteps, Raw
  <2>3. marked' = marked
    BY <1>10, <2>2 DEF Fold, Evidenced
  <2> QED
    BY <1>1, <2>1, <2>3
<1>11. CASE Rewrite
  <2>1. Raw(frame) /\ universe' = frame /\ marked' = marked
    BY <1>11 DEF Rewrite, HInv, WorkSteps
  <2> QED
    BY <2>1 DEF Raw, Top, Low
<1>12. CASE Publish \/ Adjust \/ NextDay \/ Weekend \/ Stop \/ Capture
              \/ RefreshCache \/ (\E lo \in 0 .. MaxDay : BuildFrame(lo)) \/ Audit
  BY <1>4, <1>12 DEF Publish, Adjust, NextDay, Weekend, Stop, Capture, RefreshCache,
     BuildFrame, Audit
<1> QED
  BY <1>1, <1>5, <1>6, <1>7, <1>8, <1>9, <1>10, <1>11, <1>12
     DEF Next, Append, Evening, Saturday

\* A split the market never executed is not folded in, and not marked, while the
\* universe series holds none of the vendor's adjusted bars.
THEOREM PhantomHolds == Spec => PhantomIgnored
<1>1. IInv /\ HInv /\ [Next]_vars
        => [~real /\ (\A d \in DOMAIN universe : universe[d] = 0)
              => universe'[0] = 0 /\ (marked' => marked)]_vars
  BY PhantomStep DEF Zeros
<1> QED
  BY <1>1, Invariant, HeldAtWork, PTL DEF Spec, PhantomIgnored

\* A frame that is on the market's scale before the ex-date and has a row of the
\* window behind it jumps there, for a real split.
LEMMA TapeJumps ==
    ASSUME NEW s, Scaled(s), OnTape(s), real, NEW x \in DOMAIN s, Ex <= x, Near(x)
    PROVE  Jumps(s)
<1>1. DOMAIN s \subseteq Days /\ 0 \in DOMAIN s /\ \A d \in DOMAIN s : ~PreEx(d) => s[d] = 0
  BY DEF Scaled, Raw, Flat, Levelled, Fits
<1> DEFINE After == {d \in DOMAIN s : Ex <= d}
<1>2. PICK y \in After : \A z \in After : y <= z
  <2>1. After \in SUBSET Nat /\ x \in After
    BY <1>1
  <2> QED
    BY <2>1, SmallestExists
<1>3. y \in Days /\ Near(y) /\ s[y] = 0
  BY <1>1, <1>2 DEF Near
<1> DEFINE p == Latest(Before(s, y))
<1>4. 0 \in Before(s, y)
  BY <1>1, <1>2, <1>3 DEF Before
<1>5. p \in DOMAIN s /\ p < y
  BY <1>1, <1>3, <1>4, PriorRow
<1>6. Step(s, y) = s[p] - s[y]
  BY DEF Step
<1> HIDE DEF p
<1>7. PreEx(p)
  BY <1>1, <1>2, <1>3, <1>5
<1>8. s[p] = 1
  BY <1>5, <1>7 DEF OnTape, Top, Low
<1>9. Step(s, y) = 1
  BY <1>3, <1>6, <1>8
<1> QED
  BY <1>2, <1>3, <1>4, <1>9 DEF Jumps

\* The series the Saturday backfill writes is on one scale when the cache was
\* fresh, or when the run knew of the split and saw a row that follows it.
THEOREM RewriteHealsHolds == Spec => RewriteHeals
<1>1. ASSUME IInv, HInv, Next, step = "rewrite", universe' # universe,
             \/ cacheEnd >= Ex
             \/ detected /\ ~blind /\ \E d \in DOMAIN frame : Ex <= d /\ Near(d)
      PROVE  OneScale'
  <2>1. universe' = frame
    BY <1>1 DEF Next, vendor, stores, Goto, Publish, Adjust, NextDay, Weekend, Stop,
       Morning, Append, Evening, Saturday, Scan, SyncArchiveWrite, SyncArchiveNext,
       SyncArchiveDone, SyncUniverse, MarkUniverse, Refetch, RefetchFails, RefetchDone,
       Ensure, MarkEnsured, AppendRow, Capture, Snapshot, RefreshCache, BuildFrame, Fold,
       Audit, Rewrite
  <2>2. Scaled(frame)
    BY <1>1 DEF IInv, StepOK, FrameSteps
  <2>3. Zeros(frame)
    <3>1. CASE cacheEnd >= Ex
      BY <1>1, <3>1 DEF HInv, WorkSteps
    <3>2. CASE detected /\ ~blind /\ \E d \in DOMAIN frame : Ex <= d /\ Near(d)
      <4>1. Zeros(frame) \/ (OnTape(frame) /\ ~Jumps(frame))
        BY <1>1, <3>2 DEF HInv, WorkSteps
      <4>2. CASE real
        BY <2>2, <3>2, <4>1, <4>2, TapeJumps
      <4>3. CASE ~real
        <5>1. Levelled(frame)
          BY <1>1, <4>3 DEF HInv, WorkSteps, Raw
        <5> QED
          BY <4>1, <4>3, <5>1, QuietPhantom
      <4> QED
        BY <4>2, <4>3
    <3> QED
      BY <1>1, <3>1, <3>2
  <2> QED
    BY <2>1, <2>3 DEF OneScale, Zeros
<1>2. IInv /\ HInv /\ [Next]_vars
        => [step = "rewrite" /\ universe' # universe
              /\ \/ cacheEnd >= Ex
                 \/ detected /\ ~blind /\ \E d \in DOMAIN frame : Ex <= d /\ Near(d)
            => OneScale']_vars
  BY <1>1
<1> QED
  BY <1>2, Invariant, HeldAtWork, PTL DEF Spec, RewriteHeals
=============================================================================
