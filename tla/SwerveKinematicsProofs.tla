----------------------- MODULE SwerveKinematicsProofs -----------------------
(***************************************************************************)
(* Lemmas about the operators of SwerveKinematics, for every geometry,     *)
(* every ring of directions and every range of commands.                   *)
(***************************************************************************)
EXTENDS SwerveKinematics, FiniteSetTheorems, WellFoundedInduction, TLAPS

LEMMA TurnFacts ==
    /\ Turn \in Nat \ {0} /\ HalfTurn \in Nat \ {0} /\ Quarter \in Nat \ {0}
    /\ Turn = 2 * HalfTurn /\ HalfTurn = 2 * Quarter
    /\ 0 \in Headings /\ Quarter \in Headings
  BY RingAssumption DEF Turn, HalfTurn, Headings

(* Division with remainder. *)
LEMMA Division ==
    ASSUME NEW a \in Int, NEW n \in Nat, n > 0
    PROVE  /\ a \div n \in Int /\ a % n \in 0 .. n - 1
           /\ a = (a \div n) * n + (a % n)
  OBVIOUS

(* Products with a positive number of turns, or a negative one.            *)
LEMMA Multiples ==
    ASSUME NEW k \in Int, NEW n \in Nat
    PROVE  /\ k >= 1 => k * n >= n
           /\ k <= -1 => k * n <= -n
           /\ k <= -2 => k * n <= -2 * n
<1>1. \A i, j \in Nat : i * j >= 0
  OBVIOUS
<1>2. k >= 1 => (k - 1) * n >= 0
  BY <1>1
<1>3. k <= -1 => (-1 - k) * n >= 0
  BY <1>1
<1>4. k <= -2 => (-2 - k) * n >= 0
  BY <1>1
<1>5. /\ (k - 1) * n = k * n - n
      /\ (-1 - k) * n = -n - k * n
      /\ (-2 - k) * n = -2 * n - k * n
  OBVIOUS
<1>6. k * n \in Int
  OBVIOUS
<1> QED BY <1>2, <1>3, <1>4, <1>5, <1>6

(* A remainder modulo a turn is a heading. *)
LEMMA ModRange ==
    ASSUME NEW a \in Int
    PROVE  a % Turn \in Headings
  BY TurnFacts DEF Headings

(* The remainder is the only heading that differs by full turns. *)
LEMMA ModUnique ==
    ASSUME NEW r \in Headings, NEW q \in Int
    PROVE  (r + q * Turn) % Turn = r
<1> DEFINE a == r + q * Turn
<1>1. /\ Turn \in Nat /\ Turn > 0 /\ r \in Int /\ 0 <= r /\ r < Turn /\ a \in Int
  BY TurnFacts DEF Headings
<1> DEFINE p == a \div Turn
<1>2. p \in Int /\ a = p * Turn + (a % Turn)
  BY <1>1, Division
<1>3. a % Turn \in Int /\ 0 <= a % Turn /\ a % Turn < Turn
  BY <1>1
<1>4. r - (a % Turn) = (p - q) * Turn
  BY <1>1, <1>2, <1>3
<1> HIDE DEF p
<1>5. p - q = 0
  <2>1. CASE p - q >= 1
    <3>1. (p - q) * Turn >= Turn BY <1>1, <1>2, <2>1, Multiples
    <3> QED BY <3>1, <1>1, <1>3, <1>4
  <2>2. CASE p - q <= -1
    <3>1. (p - q) * Turn <= -Turn BY <1>1, <1>2, <2>2, Multiples
    <3> QED BY <3>1, <1>1, <1>3, <1>4
  <2> QED BY <1>2, <2>1, <2>2
<1> QED BY <1>1, <1>3, <1>4, <1>5

(* normalize_angle stays within half a turn and changes its argument by    *)
(* full turns only.                                                        *)
LEMMA NormalizeFacts ==
    ASSUME NEW a \in Int, NEW tie \in {-1, 1}
    PROVE  /\ NormalizeAngle(a, tie) \in -HalfTurn .. HalfTurn
           /\ \E q \in Int : NormalizeAngle(a, tie) = a + q * Turn
<1> DEFINE r == a % Turn
           p == a \div Turn
<1>1. p \in Int /\ a = p * Turn + r
  <2>1. Turn \in Nat /\ Turn > 0
    BY TurnFacts
  <2> QED BY <2>1, Division
<1>2. r \in Int /\ 0 <= r /\ r < Turn
  BY TurnFacts
<1>3. NormalizeAngle(a, tie) \in -HalfTurn .. HalfTurn
  BY <1>2, TurnFacts DEF NormalizeAngle
<1>4. NormalizeAngle(a, tie) = r \/ NormalizeAngle(a, tie) = r - Turn
  BY <1>2, TurnFacts DEF NormalizeAngle
<1> HIDE DEF r, p
<1>5. r = a + (-p) * Turn /\ r - Turn = a + (-p - 1) * Turn
  <2>1. Turn \in Int /\ p \in Int /\ r \in Int /\ a = p * Turn + r
    BY <1>1, <1>2, TurnFacts
  <2>2. (-p) * Turn = -(p * Turn) /\ (-p - 1) * Turn = -(p * Turn) - Turn
    BY <2>1
  <2>3. p * Turn \in Int
    BY <2>1
  <2> QED BY <2>1, <2>2, <2>3
<1>6. CASE NormalizeAngle(a, tie) = r
  <2>1. -p \in Int /\ NormalizeAngle(a, tie) = a + (-p) * Turn
    BY <1>1, <1>5, <1>6
  <2> QED BY <1>3, <2>1
<1>7. CASE NormalizeAngle(a, tie) = r - Turn
  <2>1. -p - 1 \in Int /\ NormalizeAngle(a, tie) = a + (-p - 1) * Turn
    BY <1>1, <1>5, <1>7
  <2> QED BY <1>3, <2>1
<1> QED BY <1>4, <1>6, <1>7

(* Turning from last by the normalised difference ends at the target.      *)
LEMMA TurnsToTarget ==
    ASSUME NEW target \in Headings, NEW last \in Int, NEW tie \in {-1, 1}
    PROVE  (last + NormalizeAngle(target - last, tie)) % Turn = target
<1>1. target \in Int /\ target - last \in Int
  BY DEF Headings
<1>2. PICK q \in Int : NormalizeAngle(target - last, tie) = target - last + q * Turn
  BY <1>1, NormalizeFacts
<1>3. last + NormalizeAngle(target - last, tie) = target + q * Turn
  BY <1>1, <1>2, TurnFacts
<1> QED BY <1>3, ModUnique

(* The tabulated speed and direction of a wheel velocity give it back.     *)
LEMMA PolarFacts ==
    ASSUME NEW v \in WheelVelocities
    PROVE  /\ SpeedOf[v] \in 0 .. Reach
           /\ SpeedOf[v] > 0 <=> v # Still
           /\ v # Still => /\ HeadingOf[v] \in Headings
                           /\ v = Along(SpeedOf[v], HeadingOf[v])
           /\ v.x \in -Reach .. Reach /\ v.y \in -Reach .. Reach
<1>1. v.x \in -Reach .. Reach /\ v.y \in -Reach .. Reach
  BY ReachAssumption DEF WheelVelocities
<1>2. CASE v = Still
  BY <1>1, <1>2, ReachAssumption DEF SpeedOf
<1>3. CASE v # Still
  <2>1. \E h \in Headings : \E k \in 1 .. Reach : v = Along(k, h)
    BY <1>3, ReachAssumption DEF WheelVelocities
  <2>2. HeadingOf[v] \in Headings /\ \E k \in 1 .. Reach : v = Along(k, HeadingOf[v])
    BY <1>3, <2>1 DEF HeadingOf
  <2>3. SpeedOf[v] \in 1 .. Reach /\ v = Along(SpeedOf[v], HeadingOf[v])
    BY <1>3, <2>2 DEF SpeedOf
  <2> QED BY <1>1, <1>3, <2>2, <2>3, ReachAssumption
<1> QED BY <1>2, <1>3

(* What one wheel is commanded: a speed within reach and an integer angle, *)
(* at most half a turn away, a quarter turn when the corner is free.       *)
LEMMA WheelFacts ==
    ASSUME NEW m \in Modes, NEW twist \in Twist, NEW c \in Corners,
           NEW last \in [Corners -> Int], NEW tie \in {-1, 1}
    PROVE  LET w == Wheel(m, twist, c, last, tie)
           IN  /\ w.speed \in -Reach .. Reach
               /\ w.angle \in Int
               /\ w.angle - last[c] \in IF Locked(m, c) THEN -HalfTurn .. HalfTurn
                                                        ELSE -Quarter .. Quarter
               /\ Locked(m, c) => w.angle % Turn = LockedAngle(m)
<1> DEFINE v == CornerVelocity(twist, c)
           w == Wheel(m, twist, c, last, tie)
<1>0. v \in WheelVelocities /\ last[c] \in Int
  BY DEF WheelVelocities
<1>1. CASE Locked(m, c)
  <2>1. w = LockedWheel(m, v, last[c], tie)
    BY <1>1 DEF Wheel
  <2>2. LockedAngle(m) \in Headings /\ LockedAngle(m) \in Int
    BY TurnFacts DEF LockedAngle
  <2>3. NormalizeAngle(LockedAngle(m) - last[c], tie) \in -HalfTurn .. HalfTurn
    BY <1>0, <2>2, NormalizeFacts
  <2>4. (last[c] + NormalizeAngle(LockedAngle(m) - last[c], tie)) % Turn = LockedAngle(m)
    BY <1>0, <2>2, TurnsToTarget
  <2>5. v.x \in -Reach .. Reach /\ v.y \in -Reach .. Reach
    BY <1>0, PolarFacts
  <2> QED BY <1>0, <1>1, <2>1, <2>3, <2>4, <2>5, TurnFacts DEF LockedWheel
<1>2. CASE ~Locked(m, c)
  <2> DEFINE speed  == SpeedOf[v]
             target == IF speed > 0 THEN HeadingOf[v] ELSE last[c]
             delta  == NormalizeAngle(target - last[c], tie)
             back   == NormalizeAngle(target + HalfTurn - last[c], tie)
  <2>1. w = FreeWheel(v, last[c], tie)
    BY <1>2 DEF Wheel
  <2>2. speed \in 0 .. Reach /\ target \in Int
    BY <1>0, PolarFacts DEF Headings
  <2>3. w = IF Flips(delta, tie)
            THEN [speed |-> -speed, angle |-> last[c] + back]
            ELSE [speed |-> speed, angle |-> last[c] + delta]
    BY <2>1 DEF FreeWheel
  <2> HIDE DEF w, speed, target
  <2>4. delta \in -HalfTurn .. HalfTurn /\ back \in -HalfTurn .. HalfTurn
    <3>1. target - last[c] \in Int /\ target + HalfTurn - last[c] \in Int
      BY <1>0, <2>2, TurnFacts
    <3> QED BY <3>1, NormalizeFacts
  <2>5. \E p, q \in Int : /\ delta = target - last[c] + p * Turn
                          /\ back = target + HalfTurn - last[c] + q * Turn
    <3>1. target - last[c] \in Int /\ target + HalfTurn - last[c] \in Int
      BY <1>0, <2>2, TurnFacts
    <3>2. /\ \E p \in Int : delta = (target - last[c]) + p * Turn
          /\ \E q \in Int : back = (target + HalfTurn - last[c]) + q * Turn
      BY <3>1, NormalizeFacts
    <3> HIDE DEF delta, back
    <3> QED BY <3>2
  <2> HIDE DEF delta, back
  <2>6. CASE Flips(delta, tie)
    <3>1. PICK p, q \in Int : /\ delta = target - last[c] + p * Turn
                              /\ back = target + HalfTurn - last[c] + q * Turn
      BY <2>5
    <3>2. back - delta = HalfTurn + (q - p) * Turn
      BY <1>0, <2>2, <3>1, TurnFacts
    <3>3. q - p = 0 \/ q - p = -1
      <4>1. (q - p) * Turn <= HalfTurn /\ (q - p) * Turn >= -3 * HalfTurn
        BY <2>4, <3>2, TurnFacts
      <4>2. CASE q - p >= 1
        <5>1. (q - p) * Turn >= Turn BY <4>2, TurnFacts
        <5> QED BY <5>1, <4>1, TurnFacts
      <4>3. CASE q - p <= -2
        <5>1. (q - p) * Turn <= -2 * Turn BY <4>3, TurnFacts
        <5> QED BY <5>1, <4>1, TurnFacts
      <4> QED BY <4>2, <4>3
    <3>4. back = delta + HalfTurn \/ back = delta - HalfTurn
      <4>1. CASE q - p = 0
        BY <4>1, <3>2, <2>4, TurnFacts
      <4>2. CASE q - p = -1
        <5>1. back - delta = HalfTurn - Turn BY <4>2, <3>2, TurnFacts
        <5> QED BY <5>1, <2>4, TurnFacts
      <4> QED BY <3>3, <4>1, <4>2
    <3>5. back \in -Quarter .. Quarter
      BY <2>4, <2>6, <3>4, TurnFacts DEF Flips, Magnitude
    <3>6. w.speed = -speed /\ w.angle = last[c] + back
      BY <2>3, <2>6
    <3>7. w.speed \in -Reach .. Reach /\ w.angle \in Int /\ w.angle - last[c] \in -Quarter .. Quarter
      BY <1>0, <2>2, <3>5, <3>6, TurnFacts, ReachAssumption
    <3> QED BY <1>2, <3>7 DEF w
  <2>7. CASE ~Flips(delta, tie)
    <3>1. delta \in -Quarter .. Quarter
      BY <1>0, <2>4, <2>7, TurnFacts DEF Flips, Magnitude
    <3>2. w.speed = speed /\ w.angle = last[c] + delta
      BY <2>3, <2>7
    <3>3. w.speed \in -Reach .. Reach /\ w.angle \in Int /\ w.angle - last[c] \in -Quarter .. Quarter
      BY <1>0, <2>2, <3>1, <3>2, TurnFacts, ReachAssumption
    <3> QED BY <1>2, <3>3 DEF w
  <2> QED BY <2>6, <2>7
<1> QED BY <1>1, <1>2

(* How far an axis has to go, by the shortest way.                         *)
Apart(a, b) == Magnitude(NormalizeAngle(b - a, 1))

LEMMA ApartFacts ==
    ASSUME NEW a \in Headings, NEW b \in Headings
    PROVE  /\ Apart(a, b) \in 0 .. HalfTurn
           /\ Apart(a, b) = 0 => a = b
           /\ Apart(a, a) = 0
           /\ \A tie \in {-1, 1} : Apart(a, b) = Magnitude(NormalizeAngle(b - a, tie))
<1>1. a \in Int /\ b \in Int /\ b - a \in Int /\ a - a = 0 /\ 1 \in {-1, 1}
  BY TurnFacts DEF Headings
<1>2. NormalizeAngle(b - a, 1) \in -HalfTurn .. HalfTurn
  BY <1>1, NormalizeFacts
<1>3. Apart(a, b) \in 0 .. HalfTurn
  BY <1>2, TurnFacts DEF Apart, Magnitude
<1>4. ASSUME Apart(a, b) = 0 PROVE a = b
  <2>1. NormalizeAngle(b - a, 1) = 0
    BY <1>2, <1>4, TurnFacts DEF Apart, Magnitude
  <2>2. (a + 0) % Turn = b
    BY <1>1, <2>1, TurnsToTarget
  <2>3. (a + 0 * Turn) % Turn = a
    BY ModUnique
  <2> QED BY <1>1, <2>2, <2>3, TurnFacts
<1>5. Apart(a, a) = 0
  <2>1. 0 % Turn = 0
    <3>1. (0 + 0 * Turn) % Turn = 0
      BY ModUnique, TurnFacts
    <3> QED BY <3>1, TurnFacts
  <2>2. NormalizeAngle(0, 1) = 0
    BY <2>1, TurnFacts DEF NormalizeAngle
  <2> QED BY <1>1, <2>2 DEF Apart, Magnitude
<1>6. ASSUME NEW tie \in {-1, 1} PROVE Apart(a, b) = Magnitude(NormalizeAngle(b - a, tie))
  <2>1. CASE (b - a) % Turn = HalfTurn
    <3>1. /\ NormalizeAngle(b - a, tie) = tie * HalfTurn
          /\ NormalizeAngle(b - a, 1) = 1 * HalfTurn
      BY <2>1, TurnFacts DEF NormalizeAngle
    <3> QED BY <3>1, TurnFacts DEF Apart, Magnitude
  <2>2. CASE (b - a) % Turn # HalfTurn
    BY <2>2 DEF Apart, NormalizeAngle
  <2> QED BY <2>1, <2>2
<1> QED BY <1>3, <1>4, <1>5, <1>6

(* One step of the slew arrives, or comes nearer by the rate.              *)
LEMMA SlewFacts ==
    ASSUME NEW a \in Headings, NEW b \in Headings, NEW rate \in 1 .. HalfTurn,
           NEW tie \in {-1, 1}
    PROVE  LET s == Slewed(a, b, rate, tie)
           IN  s \in Headings /\ (s = b \/ Apart(s, b) = Apart(a, b) - rate)
<1> DEFINE d == NormalizeAngle(b - a, tie)
           s == Slewed(a, b, rate, tie)
<1>1. a \in Int /\ b \in Int /\ b - a \in Int /\ rate \in Int /\ 1 <= rate /\ rate <= HalfTurn
  BY TurnFacts DEF Headings
<1>2. PICK q \in Int : d = b - a + q * Turn
  BY <1>1, NormalizeFacts
<1>3. d \in -HalfTurn .. HalfTurn /\ Apart(a, b) = Magnitude(d)
  BY <1>1, NormalizeFacts, ApartFacts
<1>4. s = (a + IF Magnitude(d) <= rate THEN d ELSE IF d > 0 THEN rate ELSE -rate) % Turn
  BY DEF Slewed
<1>5. Magnitude(d) <= rate => s = b
  <2>1. (a + d) % Turn = b
    BY <1>1, TurnsToTarget
  <2> HIDE DEF d, s
  <2> QED BY <1>4, <2>1
<1> HIDE DEF d, s
<1>6. s \in Headings
  <2>1. d \in Int /\ -rate \in Int
    BY <1>1, <1>3, TurnFacts
  <2> QED BY <1>1, <1>4, <2>1, ModRange
<1>7. ASSUME NEW step \in Int, NEW rest \in -HalfTurn + 1 .. HalfTurn - 1,
             s = (a + step) % Turn, d = step + rest
      PROVE  Apart(s, b) = Magnitude(rest)
  <2> DEFINE p == (a + step) \div Turn
             k == p - q
  <2>1. p \in Int /\ a + step = p * Turn + s
    BY <1>1, <1>7, Division, TurnFacts
  <2> HIDE DEF p
  <2>2. k \in Int /\ b - s = rest + k * Turn
    <3>1. b = a + d - q * Turn
      BY <1>1, <1>2, TurnFacts
    <3>2. s \in Int /\ rest \in Int /\ s = a + step - p * Turn
      BY <1>1, <1>6, <1>7, <2>1, TurnFacts DEF Headings
    <3>3. (p - q) * Turn = p * Turn - q * Turn /\ p * Turn \in Int /\ q * Turn \in Int
      BY <1>2, <2>1, TurnFacts
    <3> QED BY <1>1, <1>2, <1>7, <2>1, <3>1, <3>2, <3>3
  <2> HIDE DEF k
  <2>3. CASE rest >= 0
    <3>1. rest \in Headings
      BY <2>3, TurnFacts DEF Headings
    <3>2. (b - s) % Turn = rest
      BY <2>2, <3>1, ModUnique
    <3> QED BY <3>2, TurnFacts DEF Apart, NormalizeAngle
  <2>4. CASE rest < 0
    <3>1. rest + Turn \in Headings
      BY <2>4, TurnFacts DEF Headings
    <3>2. b - s = (rest + Turn) + (k - 1) * Turn
      <4>1. (k - 1) * Turn = k * Turn - Turn /\ k * Turn \in Int
        BY <2>2, TurnFacts
      <4> QED BY <2>2, <4>1, TurnFacts
    <3>3. (b - s) % Turn = rest + Turn
      BY <2>2, <3>1, <3>2, ModUnique
    <3>4. NormalizeAngle(b - s, 1) = (rest + Turn) - Turn
      BY <2>4, <3>3, TurnFacts DEF NormalizeAngle
    <3> QED BY <3>4, TurnFacts DEF Apart
  <2> QED BY <2>3, <2>4, TurnFacts
<1>8. CASE ~(Magnitude(d) <= rate) /\ d > 0
  <2>1. /\ d - rate \in -HalfTurn + 1 .. HalfTurn - 1 /\ d = rate + (d - rate)
        /\ Magnitude(d - rate) = Magnitude(d) - rate
    BY <1>1, <1>3, <1>8, TurnFacts DEF Magnitude
  <2>2. s = (a + rate) % Turn
    BY <1>4, <1>8
  <2>3. Apart(s, b) = Magnitude(d - rate)
    BY <1>1, <1>7, <2>1, <2>2
  <2> QED BY <1>3, <1>6, <2>1, <2>3 DEF s
<1>9. CASE ~(Magnitude(d) <= rate) /\ ~(d > 0)
  <2>1. /\ d + rate \in -HalfTurn + 1 .. HalfTurn - 1 /\ d = -rate + (d + rate)
        /\ Magnitude(d + rate) = Magnitude(d) - rate /\ -rate \in Int
    BY <1>1, <1>3, <1>9, TurnFacts DEF Magnitude
  <2>2. s = (a + (-rate)) % Turn
    BY <1>4, <1>9
  <2>3. Apart(s, b) = Magnitude(d + rate)
    BY <1>7, <2>1, <2>2
  <2> QED BY <1>3, <1>6, <2>1, <2>3 DEF s
<1> QED BY <1>5, <1>6, <1>8, <1>9 DEF s

-----------------------------------------------------------------------------
(* Sums over a finite set.  The library's induction theorems are about     *)
(* operators, which the provers here cannot be given; what is used instead *)
(* is that a set of natural numbers has a least one: of what a statement   *)
(* about all finite sets fails for, there is one with fewest elements.     *)
LEMMA LeastNatural ==
    ASSUME NEW N \in SUBSET Nat, N # {}
    PROVE  \E n \in N : \A m \in N : n <= m
<1>1. IsWellFoundedOn({ p \in Nat \X Nat : p[1] < p[2] }, Nat)
  BY NatLessThanWellFounded DEF OpToRel
<1>2. PICK n \in N : \A m \in N : ~(<<m, n>> \in { p \in Nat \X Nat : p[1] < p[2] })
  BY <1>1, WFMin
<1>3. \A m \in N : n \in Int /\ m \in Int /\ ~(m < n)
  <2> SUFFICES ASSUME NEW m \in N PROVE n \in Int /\ m \in Int /\ ~(m < n)
    OBVIOUS
  <2>1. <<m, n>> \in Nat \X Nat
    OBVIOUS
  <2>2. m < n => <<m, n>> \in { p \in Nat \X Nat : p[1] < p[2] }
    BY <2>1
  <2> QED BY <1>2, <2>2
<1> QED BY <1>3

(* The element a sum takes first. *)
One(s) == CHOOSE x \in s : TRUE

(* g adds up F over every subset of S, one element at a time. *)
AddsUp(g, F, S) ==
    g = [s \in SUBSET S |-> IF s = {} THEN 0 ELSE F[One(s)] + g[s \ {One(s)}]]

(* If there are bad subsets, there is one that is no longer bad without    *)
(* the element its sum takes first.                                        *)
LEMMA SmallestSubset ==
    ASSUME NEW S, IsFiniteSet(S), NEW B \in SUBSET (SUBSET S), B # {}, {} \notin B
    PROVE  \E s \in B : /\ s # {} /\ One(s) \in s /\ s \in SUBSET S
                        /\ s \ {One(s)} \in (SUBSET S) \ B
<1> DEFINE N == { Cardinality(s) : s \in B }
<1>1. \A s \in SUBSET S : IsFiniteSet(s) /\ Cardinality(s) \in Nat
  BY FS_Subset, FS_CardinalityType
<1>2. N \in SUBSET Nat /\ N # {}
  BY <1>1
<1> HIDE DEF N
<1>3. PICK n \in N : \A m \in N : n <= m
  BY <1>2, LeastNatural
<1>4. PICK s \in B : n = Cardinality(s)
  BY <1>3 DEF N
<1>5. s # {} /\ One(s) \in s
  BY <1>4 DEF One
<1>6. Cardinality(s \ {One(s)}) = Cardinality(s) - 1
  BY <1>1, <1>5, FS_RemoveElement
<1>7. s \ {One(s)} \notin B
  <2>1. SUFFICES ASSUME s \ {One(s)} \in B PROVE FALSE
    OBVIOUS
  <2>2. Cardinality(s \ {One(s)}) \in N
    BY <2>1 DEF N
  <2> QED BY <1>1, <1>3, <1>4, <1>6, <2>2
<1> QED BY <1>5, <1>7

(* The recursion has a solution: by induction on n, one that is right for  *)
(* every subset of at most n elements.                                     *)
LEMMA TotalsExist ==
    ASSUME NEW S, IsFiniteSet(S), NEW F \in [S -> Int]
    PROVE  \E g \in [SUBSET S -> Int] : AddsUp(g, F, S)
<1> DEFINE Step(g, s) == IF s = {} THEN 0 ELSE F[One(s)] + g[s \ {One(s)}]
           Upto(g, n) == \A s \in SUBSET S : Cardinality(s) <= n => g[s] = Step(g, s)
           Bad == { n \in Nat : ~\E g \in [SUBSET S -> Int] : Upto(g, n) }
<1>1. \A s \in SUBSET S : IsFiniteSet(s) /\ Cardinality(s) \in Nat
  BY FS_Subset, FS_CardinalityType
<1>2. \A s \in SUBSET S : Cardinality(s) = 0 => s = {}
  BY <1>1, FS_EmptySet
<1>3. \A s \in SUBSET S : s # {} => One(s) \in s /\ One(s) \in S /\ s \ {One(s)} \in SUBSET S
                                    /\ Cardinality(s \ {One(s)}) = Cardinality(s) - 1
  <2> SUFFICES ASSUME NEW s \in SUBSET S, s # {}
               PROVE  One(s) \in s /\ Cardinality(s \ {One(s)}) = Cardinality(s) - 1
    OBVIOUS
  <2>1. One(s) \in s
    BY DEF One
  <2> QED BY <1>1, <2>1, FS_RemoveElement
<1>4. 0 \notin Bad
  <2> DEFINE g == [s \in SUBSET S |-> 0]
  <2>1. g \in [SUBSET S -> Int] /\ Upto(g, 0)
    BY <1>1, <1>2
  <2> QED BY <2>1
<1>5. ASSUME NEW n \in Nat, n \notin Bad
      PROVE  n + 1 \notin Bad
  <2>1. PICK g \in [SUBSET S -> Int] : Upto(g, n)
    BY <1>5
  <2> DEFINE h == [s \in SUBSET S |-> IF Cardinality(s) = n + 1 THEN Step(g, s) ELSE g[s]]
  <2>2. \A s \in SUBSET S : Step(g, s) \in Int
    <3> SUFFICES ASSUME NEW s \in SUBSET S, s # {} PROVE Step(g, s) \in Int
      OBVIOUS
    <3>1. F[One(s)] \in Int /\ g[s \ {One(s)}] \in Int
      BY <1>3
    <3> QED BY <3>1
  <2>3. h \in [SUBSET S -> Int]
    BY <2>2
  <2>4. \A s \in SUBSET S : Cardinality(s) <= n + 1 => Step(h, s) = Step(g, s)
    BY <1>1, <1>3
  <2>5. Upto(h, n + 1)
    <3> SUFFICES ASSUME NEW s \in SUBSET S, Cardinality(s) <= n + 1
                 PROVE  h[s] = Step(h, s)
      OBVIOUS
    <3>1. CASE Cardinality(s) = n + 1
      BY <2>4, <3>1
    <3>2. CASE Cardinality(s) <= n
      <4>1. h[s] = g[s] /\ g[s] = Step(g, s)
        BY <2>1, <3>2, <1>1
      <4> HIDE DEF Step, h
      <4> QED BY <2>4, <4>1
    <3> QED BY <1>1, <3>1, <3>2
  <2> QED BY <2>3, <2>5
<1> HIDE DEF Bad
<1>6. Bad = {}
  <2>1. SUFFICES ASSUME Bad # {} PROVE FALSE
    OBVIOUS
  <2>2. Bad \in SUBSET Nat
    BY DEF Bad
  <2>3. PICK n \in Bad : \A m \in Bad : n <= m
    BY <2>1, <2>2, LeastNatural
  <2>4. n - 1 \in Nat /\ n - 1 \notin Bad
    BY <1>4, <2>2, <2>3
  <2> QED BY <1>5, <2>2, <2>3, <2>4
<1>7. PICK g \in [SUBSET S -> Int] : Upto(g, Cardinality(S))
  BY <1>1, <1>6 DEF Bad
<1>8. \A s \in SUBSET S : g[s] = Step(g, s)
  BY <1>7, FS_Subset
<1>9. AddsUp(g, F, S)
  BY <1>8 DEF AddsUp
<1> QED BY <1>9

(* The sum of a function is what the recursion gives.                      *)
LEMMA SumOfFunction ==
    ASSUME NEW S, IsFiniteSet(S), NEW F \in [S -> Int]
    PROVE  \E g : AddsUp(g, F, S) /\ g[S] = SumFunction(F)
<1> DEFINE it == CHOOSE g : AddsUp(g, F, S)
<1>1. AddsUp(it, F, S)
  BY TotalsExist
<1>2. it[S] = SumFunction(F)
  BY DEF SumFunction, SumFunctionOnSet, FoldFunctionOnSet, MapThenFoldSet, AddsUp, One
<1> QED BY <1>1, <1>2

Linear(S, H, a, b, F, d, G) == \A c \in S : H[c] = a + b * F[c] + d * G[c]

(* A sum is linear.                                                        *)
LEMMA SumLinear ==
    ASSUME NEW S, IsFiniteSet(S), NEW F \in [S -> Int], NEW G \in [S -> Int], NEW H \in [S -> Int],
           NEW a \in Int, NEW b \in Int, NEW d \in Int,
           Linear(S, H, a, b, F, d, G)
    PROVE  /\ SumFunction(F) \in Int /\ SumFunction(G) \in Int /\ SumFunction(H) \in Int
           /\ SumFunction(H) = a * Cardinality(S) + b * SumFunction(F) + d * SumFunction(G)
<1>1. PICK f : AddsUp(f, F, S) /\ f[S] = SumFunction(F)
  BY SumOfFunction
<1>2. PICK g : AddsUp(g, G, S) /\ g[S] = SumFunction(G)
  BY SumOfFunction
<1>3. PICK h : AddsUp(h, H, S) /\ h[S] = SumFunction(H)
  BY SumOfFunction
<1> DEFINE Right(s) == /\ f[s] \in Int /\ g[s] \in Int
                       /\ h[s] = a * Cardinality(s) + b * f[s] + d * g[s]
           Bad == { s \in SUBSET S : ~Right(s) }
<1>4. f[{}] = 0 /\ g[{}] = 0 /\ h[{}] = 0 /\ Cardinality({}) = 0
  BY <1>1, <1>2, <1>3, FS_EmptySet DEF AddsUp
<1>5. {} \notin Bad
  BY <1>4
<1>6. ASSUME NEW s \in SUBSET S, s # {}, One(s) \in s, Right(s \ {One(s)})
      PROVE  Right(s)
  <2> DEFINE x == One(s)
             t == s \ {x}
  <2>1. /\ f[s] = F[x] + f[t]
        /\ g[s] = G[x] + g[t]
        /\ h[s] = H[x] + h[t]
    BY <1>1, <1>2, <1>3, <1>6 DEF AddsUp
  <2>2. x \in S /\ F[x] \in Int /\ G[x] \in Int /\ H[x] = a + b * F[x] + d * G[x]
    BY <1>6 DEF Linear
  <2>3. Cardinality(s) \in Nat /\ Cardinality(t) \in Nat /\ Cardinality(s) = Cardinality(t) + 1
    <3>1. IsFiniteSet(s) /\ Cardinality(s) \in Nat /\ IsFiniteSet(t) /\ Cardinality(t) \in Nat
      BY FS_Subset, FS_CardinalityType
    <3>2. Cardinality(t) = Cardinality(s) - 1
      BY <1>6, <3>1, FS_RemoveElement
    <3> QED BY <3>1, <3>2
  <2>4. f[t] \in Int /\ g[t] \in Int /\ h[t] = a * Cardinality(t) + b * f[t] + d * g[t]
    BY <1>6
  <2> HIDE DEF t, x
  <2>5. \A i, j, k \in Int : i * (j + k) = i * j + i * k
    OBVIOUS
  <2>6. /\ a * Cardinality(s) = a * Cardinality(t) + a * 1
        /\ b * f[s] = b * F[x] + b * f[t]
        /\ d * g[s] = d * G[x] + d * g[t]
    <3>1. a * (Cardinality(t) + 1) = a * Cardinality(t) + a * 1
      BY <2>3, <2>5
    <3>2. b * (F[x] + f[t]) = b * F[x] + b * f[t]
      BY <2>2, <2>4, <2>5
    <3>3. d * (G[x] + g[t]) = d * G[x] + d * g[t]
      BY <2>2, <2>4, <2>5
    <3> QED BY <2>1, <2>3, <3>1, <3>2, <3>3
  <2>7. /\ a * Cardinality(t) \in Int /\ b * F[x] \in Int /\ d * G[x] \in Int
        /\ b * f[t] \in Int /\ d * g[t] \in Int
    BY <2>2, <2>3, <2>4
  <2>8. f[s] \in Int /\ g[s] \in Int /\ a * 1 = a
    BY <2>1, <2>2, <2>4
  <2>9. h[s] = (a + b * F[x] + d * G[x]) + (a * Cardinality(t) + b * f[t] + d * g[t])
    BY <2>1, <2>2, <2>4
  <2>10. h[s] = a * Cardinality(s) + b * f[s] + d * g[s]
    BY <2>6, <2>7, <2>8, <2>9
  <2> QED BY <2>8, <2>10
<1> HIDE DEF Right
<1>7. Bad = {}
  <2>1. SUFFICES ASSUME Bad # {} PROVE FALSE
    OBVIOUS
  <2>2. PICK s \in Bad : /\ s # {} /\ One(s) \in s /\ s \in SUBSET S
                         /\ s \ {One(s)} \in (SUBSET S) \ Bad
    BY <1>5, <2>1, SmallestSubset
  <2> QED BY <1>6, <2>2
<1>8. Right(S)
  BY <1>7
<1>9. /\ SumFunction(F) \in Int /\ SumFunction(G) \in Int
      /\ SumFunction(H) = a * Cardinality(S) + b * SumFunction(F) + d * SumFunction(G)
  BY <1>1, <1>2, <1>3, <1>8 DEF Right
<1>10. Cardinality(S) \in Int
  BY FS_CardinalityType
<1>11. /\ a * Cardinality(S) \in Int
       /\ b * SumFunction(F) \in Int /\ d * SumFunction(G) \in Int
  BY <1>9, <1>10
<1> QED BY <1>9, <1>11

=============================================================================
