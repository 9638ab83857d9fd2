------------------------ MODULE SwerveSteeringProofs ------------------------
(***************************************************************************)
(* Theorems about repeated calls of compute_corner_commands, for every     *)
(* geometry, every ring of directions and every bound on the winding, and  *)
(* about the axes of swerve_sim_node, for every rate and period.           *)
(***************************************************************************)
EXTENDS SwerveSteering, SwerveSim, SwerveKinematicsProofs

LEMMA CallTypes ==
    ASSUME NEW call \in Calls
    PROVE  call.mode \in Modes /\ call.twist \in Twist /\ call.home \in Readings
  BY SteeringAssumption DEF Calls

(* The angles kept from call to call are the ones commanded: the part of   *)
(* the type invariant the theorems below need.                             *)
Kept == /\ last_steering_angle \in [Corners -> Int]
        /\ \A c \in Corners : command[c].angle = last_steering_angle[c]

LEMMA ComputeFacts ==
    ASSUME Kept, NEW call \in Calls, NEW tie \in {-1, 1}, Compute(call, tie),
           NEW c \in Corners
    PROVE  LET w == Wheel(call.mode, call.twist, c, last_steering_angle, tie)
           IN  /\ input' = call
               /\ command'[c].angle = w.angle
               /\ last_steering_angle'[c] = w.angle
               /\ ~AnyPendingHome(call.mode, call.home) => command'[c].speed = w.speed
  BY DEF Compute, ComputeCornerCommands

LEMMA KeptInvariant == Spec => []Kept
<1>1. Init => Kept
  BY DEF Init, Kept
<1>2. Kept /\ [Next]_vars => Kept'
  <2> SUFFICES ASSUME Kept, [Next]_vars PROVE Kept'
    OBVIOUS
  <2>1. ASSUME NEW call \in Calls, NEW tie \in {-1, 1}, Compute(call, tie)
        PROVE  Kept'
    <3>1. ASSUME NEW c \in Corners
          PROVE  /\ command'[c].angle \in Int
                 /\ command'[c].angle = last_steering_angle'[c]
      <4> DEFINE w == Wheel(call.mode, call.twist, c, last_steering_angle, tie)
      <4>1. command'[c].angle = w.angle /\ last_steering_angle'[c] = w.angle
        BY <2>1, ComputeFacts
      <4>2. w.angle \in Int
        BY CallTypes, WheelFacts DEF Kept
      <4> QED BY <4>1, <4>2
    <3>2. last_steering_angle' = [c \in Corners |-> command'[c].angle]
      BY <2>1 DEF Compute
    <3> QED BY <3>1, <3>2 DEF Kept
  <2>2. CASE UNCHANGED vars
    BY <2>2 DEF vars, Kept
  <2> QED BY <2>1, <2>2 DEF Next
<1> QED BY <1>1, <1>2, PTL DEF Spec

(* A corner with no reason to turn is commanded the angle it has.          *)
LEMMA SettledStays ==
    ASSUME NEW m \in Modes, NEW twist \in Twist, NEW c \in Corners,
           NEW last \in [Corners -> Int], NEW tie \in {-1, 1},
           IF Locked(m, c) THEN last[c] % Turn = LockedAngle(m)
                           ELSE CornerVelocity(twist, c) = Still
    PROVE  Wheel(m, twist, c, last, tie).angle = last[c]
<1> DEFINE v == CornerVelocity(twist, c)
<1>0. last[c] \in Int /\ v \in WheelVelocities
  BY DEF WheelVelocities
<1>1. CASE Locked(m, c)
  <2>1. Wheel(m, twist, c, last, tie).angle
           = last[c] + NormalizeAngle(LockedAngle(m) - last[c], tie)
    BY <1>1 DEF Wheel, LockedWheel
  <2> DEFINE q == last[c] \div Turn
  <2>2. q \in Int /\ last[c] = q * Turn + LockedAngle(m) /\ LockedAngle(m) \in Int
    BY <1>0, <1>1, TurnFacts, Division DEF LockedAngle
  <2> HIDE DEF q
  <2>3. LockedAngle(m) - last[c] = 0 + (-q) * Turn
    <3>1. (-q) * Turn = -(q * Turn) /\ q * Turn \in Int
      BY <2>2, TurnFacts
    <3> QED BY <2>2, <3>1
  <2>4. (LockedAngle(m) - last[c]) % Turn = 0
    <3>1. 0 \in Headings /\ -q \in Int
      BY <2>2, TurnFacts
    <3>2. (0 + (-q) * Turn) % Turn = 0
      BY <3>1, ModUnique
    <3> QED BY <2>3, <3>2
  <2>5. NormalizeAngle(LockedAngle(m) - last[c], tie) = 0
    BY <2>4, TurnFacts DEF NormalizeAngle
  <2> QED BY <1>0, <2>1, <2>5
<1>2. CASE ~Locked(m, c)
  <2>1. v = Still /\ SpeedOf[v] = 0
    BY <1>0, <1>2, PolarFacts
  <2>2. 0 % Turn = 0
    <3>1. (0 + 0 * Turn) % Turn = 0
      BY ModUnique, TurnFacts
    <3> QED BY <3>1, TurnFacts
  <2>3. NormalizeAngle(last[c] - last[c], tie) = 0
    BY <1>0, <2>2, TurnFacts DEF NormalizeAngle
  <2>4. FreeWheel(v, last[c], tie) = [speed |-> 0, angle |-> last[c] + 0]
    BY <2>1, <2>3, TurnFacts DEF FreeWheel, Flips, Magnitude
  <2> QED BY <1>0, <1>2, <2>4 DEF Wheel
<1> QED BY <1>1, <1>2

(* No call turns a free corner by more than a quarter turn, a locked one   *)
(* by more than half a turn, or a settled one at all, whatever came before.*)
THEOREM RotationBound == Spec => ShortRotation
<1> DEFINE Short == \A c \in Corners :
                       Magnitude(command'[c].angle - command[c].angle)
                          <= IF Settled(c) THEN 0
                             ELSE IF Locked(input.mode, c)' THEN HalfTurn ELSE Quarter
<1>1. Kept /\ [Next]_vars => [Short]_vars
  <2> SUFFICES ASSUME Kept, NEW call \in Calls, NEW tie \in {-1, 1},
                      Compute(call, tie), NEW c \in Corners
               PROVE  Magnitude(command'[c].angle - command[c].angle)
                         <= IF Settled(c) THEN 0
                            ELSE IF Locked(input.mode, c)' THEN HalfTurn ELSE Quarter
    BY DEF Next
  <2> DEFINE w == Wheel(call.mode, call.twist, c, last_steering_angle, tie)
  <2>1. input' = call /\ command'[c].angle = w.angle
    BY ComputeFacts
  <2>2. command[c].angle = last_steering_angle[c] /\ last_steering_angle[c] \in Int
    BY DEF Kept
  <2>3. /\ w.angle \in Int
        /\ w.angle - last_steering_angle[c]
              \in IF Locked(call.mode, c) THEN -HalfTurn .. HalfTurn ELSE -Quarter .. Quarter
    BY CallTypes, WheelFacts DEF Kept
  <2>4. Locked(input.mode, c)' <=> Locked(call.mode, c)
    BY <2>1 DEF Locked
  <2>5. ASSUME Settled(c) PROVE w.angle = last_steering_angle[c]
    <3>1. IF Locked(call.mode, c) THEN last_steering_angle[c] % Turn = LockedAngle(call.mode)
                                  ELSE CornerVelocity(call.twist, c) = Still
      BY <2>1, <2>2, <2>5 DEF Settled, Locked, LockedAngle, CornerVelocity
    <3> QED BY <3>1, CallTypes, SettledStays DEF Kept
  <2> HIDE DEF w
  <2> QED BY <2>1, <2>2, <2>3, <2>4, <2>5, TurnFacts, SMTT(30) DEF Magnitude
<1> QED BY <1>1, KeptInvariant, PTL DEF Spec, ShortRotation

(* The direction half a turn away is the opposite one.                     *)
LEMMA Opposite ==
    ASSUME NEW h \in Headings, NEW q \in Int, NEW k \in Int
    PROVE  Along(-k, (h + HalfTurn + q * Turn) % Turn) = Along(k, h)
<1>1. /\ h \in Int /\ 0 <= h /\ h < Turn /\ Turn = 2 * HalfTurn
      /\ HalfTurn \in Nat /\ Turn \in Nat
  BY TurnFacts DEF Headings
<1>2. CASE h < HalfTurn
  <2>1. h + HalfTurn \in Headings /\ h \in 0 .. HalfTurn - 1
    BY <1>1, <1>2 DEF Headings
  <2>2. (h + HalfTurn + q * Turn) % Turn = h + HalfTurn
    BY <2>1, ModUnique
  <2>3. Dir[h + HalfTurn] = [x |-> -Dir[h].x, y |-> -Dir[h].y]
    BY <2>1, RingAssumption
  <2>4. Dir[h].x \in Int /\ Dir[h].y \in Int
    BY RingAssumption
  <2>5. (-k) * (-Dir[h].x) = k * Dir[h].x /\ (-k) * (-Dir[h].y) = k * Dir[h].y
    BY <2>4
  <2> QED BY <2>2, <2>3, <2>5 DEF Along
<1>3. CASE h >= HalfTurn
  <2> DEFINE g == h - HalfTurn
  <2>1. g \in Headings /\ g \in 0 .. HalfTurn - 1 /\ g + HalfTurn = h
    BY <1>1, <1>3 DEF Headings
  <2>2. h + HalfTurn + q * Turn = g + (q + 1) * Turn
    <3>1. (q + 1) * Turn = q * Turn + Turn /\ q * Turn \in Int
      BY <1>1
    <3> QED BY <1>1, <3>1
  <2>3. (h + HalfTurn + q * Turn) % Turn = g
    BY <2>1, <2>2, ModUnique
  <2>4. Dir[g + HalfTurn] = [x |-> -Dir[g].x, y |-> -Dir[g].y]
    BY <2>1, RingAssumption
  <2>5. Dir[g].x \in Int /\ Dir[g].y \in Int
    BY <2>1, RingAssumption
  <2> HIDE DEF g
  <2>6. (-k) * Dir[g].x = k * (-Dir[g].x) /\ (-k) * Dir[g].y = k * (-Dir[g].y)
    BY <2>5
  <2> QED BY <2>1, <2>3, <2>4, <2>6 DEF Along
<1> QED BY <1>1, <1>2, <1>3

(* What a free wheel is told to do is the velocity it was asked for.       *)
LEMMA FreeWheelVelocity ==
    ASSUME NEW v \in WheelVelocities, NEW last \in Int, NEW tie \in {-1, 1}
    PROVE  WheelVelocity(FreeWheel(v, last, tie)) = v
<1> DEFINE speed  == SpeedOf[v]
           target == IF speed > 0 THEN HeadingOf[v] ELSE last
           delta  == NormalizeAngle(target - last, tie)
           back   == NormalizeAngle(target + HalfTurn - last, tie)
           w      == FreeWheel(v, last, tie)
<1>0. \/ w.speed = -speed /\ w.angle = last + back
      \/ w.speed = speed /\ w.angle = last + delta
  BY DEF FreeWheel
<1>1. speed \in 0 .. Reach /\ target \in Int
  BY PolarFacts DEF Headings
<1>2. delta \in Int /\ back \in Int
  <2>1. target - last \in Int /\ target + HalfTurn - last \in Int
    BY <1>1, TurnFacts
  <2>2. delta \in -HalfTurn .. HalfTurn /\ back \in -HalfTurn .. HalfTurn
    <3> HIDE DEF target
    <3> QED BY <2>1, NormalizeFacts
  <2> HIDE DEF delta, back
  <2> QED BY <2>2, TurnFacts
<1>3. CASE v = Still
  <2>1. speed = 0
    BY <1>1, <1>3, PolarFacts
  <2>2. w.speed = 0 /\ w.angle \in Int
    BY <1>0, <1>2, <2>1
  <2>3. w.angle % Turn \in Headings
    BY <2>2, ModRange
  <2>4. \A h \in Headings : Along(0, h) = Still
    BY RingAssumption DEF Along, Still
  <2> HIDE DEF w
  <2>5. WheelVelocity(w) = Still
    BY <2>2, <2>3, <2>4 DEF WheelVelocity
  <2> QED BY <1>3, <2>5 DEF w
<1>4. CASE v # Still
  <2>1. /\ speed > 0 /\ target = HeadingOf[v] /\ target \in Headings
        /\ v = Along(speed, target)
    BY <1>4, PolarFacts
  <2> HIDE DEF speed, target
  <2>2. CASE w.speed = speed /\ w.angle = last + delta
    <3>1. (last + delta) % Turn = target
      BY <2>1, TurnsToTarget
    <3> HIDE DEF w, delta
    <3>2. WheelVelocity(w) = v
      BY <2>1, <2>2, <3>1 DEF WheelVelocity
    <3> QED BY <3>2 DEF w
  <2>3. CASE w.speed = -speed /\ w.angle = last + back
    <3>1. target + HalfTurn - last \in Int
      BY <1>1, TurnFacts
    <3>2. PICK q \in Int : back = (target + HalfTurn - last) + q * Turn
      BY <3>1, NormalizeFacts
    <3> HIDE DEF w, back
    <3>3. q * Turn \in Int
      BY <3>2, TurnFacts
    <3>4. last + back = target + HalfTurn + q * Turn
      BY <1>1, <3>2, <3>3, TurnFacts
    <3>5. Along(-speed, (last + back) % Turn) = v
      BY <1>1, <2>1, <3>4, Opposite
    <3>6. WheelVelocity(w) = v
      BY <2>3, <3>5 DEF WheelVelocity
    <3> QED BY <3>6 DEF w
  <2> QED BY <1>0, <2>2, <2>3
<1> QED BY <1>3, <1>4

(* In every behaviour, every free corner is commanded exactly the velocity *)
(* the twist asks of it, flipped or not.                                   *)
THEOREM MotionPreserved == Spec => []FlipPreservesMotion
<1>1. Init => FlipPreservesMotion
  <2> SUFFICES ASSUME Init, NEW c \in Corners
               PROVE  WheelVelocity(command[c]) = CornerVelocity(input.twist, c)
    BY DEF FlipPreservesMotion
  <2>1. CornerVelocity(input.twist, c) = Still
    BY CornerAssumption DEF Init, CornerVelocity, Zero, Still
  <2>2. command[c].speed = 0 /\ command[c].angle = 0
    BY DEF Init
  <2>3. 0 % Turn \in Headings
    BY ModRange
  <2>4. \A h \in Headings : Along(0, h) = Still
    BY RingAssumption DEF Along, Still
  <2> QED BY <2>1, <2>2, <2>3, <2>4 DEF WheelVelocity
<1>2. Kept /\ FlipPreservesMotion /\ [Next]_vars => FlipPreservesMotion'
  <2> SUFFICES ASSUME Kept, FlipPreservesMotion, [Next]_vars PROVE FlipPreservesMotion'
    OBVIOUS
  <2>1. ASSUME NEW call \in Calls, NEW tie \in {-1, 1}, Compute(call, tie)
        PROVE  FlipPreservesMotion'
    <3> SUFFICES ASSUME NEW c \in Corners, ~Locked(call.mode, c),
                        ~AnyPendingHome(call.mode, call.home)
                 PROVE  WheelVelocity(command'[c]) = CornerVelocity(call.twist, c)
      BY <2>1 DEF FlipPreservesMotion, Compute, Locked, AnyPendingHome, Confirmed,
                  WheelVelocity, CornerVelocity, Along
    <3> DEFINE v == CornerVelocity(call.twist, c)
               w == Wheel(call.mode, call.twist, c, last_steering_angle, tie)
    <3>1. command'[c].angle = w.angle /\ command'[c].speed = w.speed
      BY <2>1, ComputeFacts
    <3>2. w = FreeWheel(v, last_steering_angle[c], tie)
      BY DEF Wheel
    <3>3. v \in WheelVelocities /\ last_steering_angle[c] \in Int
      BY CallTypes DEF WheelVelocities, Kept
    <3>4. WheelVelocity(w) = v
      BY <3>2, <3>3, FreeWheelVelocity
    <3> HIDE DEF w, v
    <3> QED BY <3>1, <3>4 DEF WheelVelocity, v
  <2>2. CASE UNCHANGED vars
    BY <2>2 DEF vars, FlipPreservesMotion, WheelVelocity, CornerVelocity, Along,
                Locked, AnyPendingHome, Confirmed
  <2> QED BY <2>1, <2>2 DEF Next
<1> QED BY <1>1, <1>2, KeptInvariant, PTL DEF Spec

-----------------------------------------------------------------------------
(* The fit.  What a call asks of a locked corner is its velocity projected *)
(* on the reference.                                                       *)
Projected(mode, v) == IF mode = "LOCKED_90" THEN [x |-> 0, y |-> v.y] ELSE [x |-> v.x, y |-> 0]

FitInv ==
    /\ input \in Calls \cup [mode : {"FULL_SWERVE"}, twist : {Zero}, home : Readings]
    /\ \A c \in Corners :
          Locked(input.mode, c) /\ ~AnyPendingHome(input.mode, input.home)
             => WheelVelocity(command[c]) = Projected(input.mode, CornerVelocity(input.twist, c))

LEMMA ZeroTwist == Zero \in Twist
  BY ReachAssumption DEF Zero, Twist

LEMMA FitInvariant == Spec => []FitInv
<1>1. Init => FitInv
  BY DEF Init, FitInv, Locked
<1>2. Kept /\ FitInv /\ [Next]_vars => FitInv'
  <2> SUFFICES ASSUME Kept, FitInv, [Next]_vars PROVE FitInv'
    OBVIOUS
  <2>1. ASSUME NEW call \in Calls, NEW tie \in {-1, 1}, Compute(call, tie)
        PROVE  FitInv'
    <3> SUFFICES ASSUME NEW c \in Corners, Locked(call.mode, c),
                        ~AnyPendingHome(call.mode, call.home)
                 PROVE  WheelVelocity(command'[c])
                           = Projected(call.mode, CornerVelocity(call.twist, c))
      BY <2>1 DEF FitInv, Compute, Locked, AnyPendingHome, Confirmed, WheelVelocity,
                  CornerVelocity, Along, Projected
    <3> DEFINE v == CornerVelocity(call.twist, c)
               w == Wheel(call.mode, call.twist, c, last_steering_angle, tie)
               r == LockedAngle(call.mode)
    <3>1. command'[c].angle = w.angle /\ command'[c].speed = w.speed
      BY <2>1, ComputeFacts
    <3>2. w.speed = (IF call.mode = "LOCKED_90" THEN v.y ELSE v.x) /\ w.angle % Turn = r
      <4>1. w.speed = IF call.mode = "LOCKED_90" THEN v.y ELSE v.x
        BY DEF Wheel, LockedWheel
      <4>2. w.angle % Turn = r
        BY CallTypes, WheelFacts DEF Kept
      <4> QED BY <4>1, <4>2
    <3>3. v.x \in Int /\ v.y \in Int
      <4>1. v \in WheelVelocities /\ Reach \in Nat
        BY CallTypes, ReachAssumption DEF WheelVelocities
      <4> HIDE DEF v
      <4> QED BY <4>1, PolarFacts
    <3>4. /\ r = IF call.mode = "LOCKED_90" THEN Quarter ELSE 0
          /\ Dir[0] = [x |-> 1, y |-> 0] /\ Dir[Quarter] = [x |-> 0, y |-> 1]
      BY RingAssumption DEF LockedAngle
    <3> HIDE DEF w, v, r
    <3>5. WheelVelocity(command'[c]) = Along(IF call.mode = "LOCKED_90" THEN v.y ELSE v.x, r)
      BY <3>1, <3>2 DEF WheelVelocity
    <3>6. CASE call.mode = "LOCKED_90"
      <4>1. Along(v.y, r) = [x |-> v.y * 0, y |-> v.y * 1]
        BY <3>4, <3>6 DEF Along
      <4>2. v.y * 0 = 0 /\ v.y * 1 = v.y
        BY <3>3
      <4> QED BY <3>5, <3>6, <4>1, <4>2 DEF Projected, v
    <3>7. CASE call.mode # "LOCKED_90"
      <4>1. Along(v.x, r) = [x |-> v.x * 1, y |-> v.x * 0]
        BY <3>4, <3>7 DEF Along
      <4>2. v.x * 0 = 0 /\ v.x * 1 = v.x
        BY <3>3
      <4> QED BY <3>5, <3>7, <4>1, <4>2 DEF Projected, v
    <3> QED BY <3>6, <3>7
  <2>2. CASE UNCHANGED vars
    BY <2>2 DEF vars, FitInv, WheelVelocity, CornerVelocity, Along, Projected,
                Locked, AnyPendingHome, Confirmed
  <2> QED BY <2>1, <2>2 DEF Next
<1> QED BY <1>1, <1>2, KeptInvariant, PTL DEF Spec

(* What a corner's position makes of a velocity across it.                *)
Moment(P, V) == [c \in Corners |-> P[c] * V[c]]

(* The corners being centred, rotation drops out of the sum of the          *)
(* velocities along an axis, and translation out of that of their moments. *)
LEMMA AxisSums ==
    ASSUME NEW P \in [Corners -> Int], SumFunction(P) = 0, NEW k \in Int, NEW w \in Int,
           NEW V \in [Corners -> Int], Linear(Corners, V, k, w, P, 0, P)
    PROVE  /\ SumFunction(V) = Cardinality(Corners) * k
           /\ SumFunction(Moment(P, V)) = w * SumFunction(Moment(P, P))
           /\ SumFunction(Moment(P, V)) \in Int /\ SumFunction(Moment(P, P)) \in Int
<1> DEFINE PV == Moment(P, V)
           PP == Moment(P, P)
           n  == Cardinality(Corners)
<1>1. IsFiniteSet(Corners) /\ n \in Nat
  BY CornerAssumption, FS_CardinalityType
<1>2. PP \in [Corners -> Int] /\ PV \in [Corners -> Int]
  BY DEF Moment
<1>3. \A c \in Corners : V[c] = k + w * P[c]
  BY DEF Linear
<1>4. Linear(Corners, PV, 0, k, P, w, PP)
  <2> SUFFICES ASSUME NEW c \in Corners PROVE P[c] * V[c] = 0 + k * P[c] + w * (P[c] * P[c])
    BY <1>3 DEF Linear, Moment
  <2>1. \A i, j, l \in Int : i * (j + l * i) = 0 + j * i + l * (i * i)
    OBVIOUS
  <2>2. V[c] = k + w * P[c] /\ P[c] \in Int
    BY <1>3
  <2> QED BY <2>1, <2>2
<1> HIDE DEF PV, PP, n
<1>5. SumFunction(V) = k * n + w * 0 + 0 * 0
  BY <1>1, SumLinear DEF n
<1>6. /\ SumFunction(PP) \in Int /\ SumFunction(PV) \in Int
      /\ SumFunction(PV) = 0 * n + k * SumFunction(P) + w * SumFunction(PP)
  <2>1. IsFiniteSet(Corners) /\ 0 \in Int /\ PV \in [Corners -> Int] /\ PP \in [Corners -> Int]
    BY <1>1, <1>2
  <2> QED BY <1>4, <2>1, SumLinear DEF n
<1>7. SumFunction(V) = n * k
  BY <1>1, <1>5
<1>8. SumFunction(PV) = w * SumFunction(PP)
  BY <1>1, <1>6
<1> QED BY <1>6, <1>7, <1>8 DEF PV, PP, n

Moving(wheel, X, Y) ==
    \A c \in Corners : WheelVelocity(wheel[c]) = [x |-> X[c], y |-> Y[c]]

(* The sums of the fit, of velocities given component by component.        *)
LEMMA SumsByAxis ==
    ASSUME NEW wheel, NEW X \in [Corners -> Int], NEW Y \in [Corners -> Int],
           Moving(wheel, X, Y)
    PROVE  /\ BodySums(wheel).vx = SumFunction(X)
           /\ BodySums(wheel).vy = SumFunction(Y)
           /\ BodySums(wheel).wz = SumFunction(Moment(PosX, Y)) - SumFunction(Moment(PosY, X))
           /\ BodySums(wheel) = [vx |-> BodySums(wheel).vx, vy |-> BodySums(wheel).vy,
                                 wz |-> BodySums(wheel).wz]
<1> DEFINE M == Moment(PosX, Y)
           N == Moment(PosY, X)
           D == [c \in Corners |-> PosX[c] * Y[c] - PosY[c] * X[c]]
<1>1. IsFiniteSet(Corners) /\ PosX \in [Corners -> Int] /\ PosY \in [Corners -> Int]
  BY CornerAssumption
<1>2. M \in [Corners -> Int] /\ N \in [Corners -> Int] /\ D \in [Corners -> Int]
  BY <1>1 DEF Moment
<1>3. Linear(Corners, D, 0, 1, M, -1, N)
  BY <1>1 DEF Linear, Moment
<1>4. /\ [c \in Corners |-> WheelVelocity(wheel[c]).x] = X
      /\ [c \in Corners |-> WheelVelocity(wheel[c]).y] = Y
      /\ [c \in Corners |-> PosX[c] * WheelVelocity(wheel[c]).y
                              - PosY[c] * WheelVelocity(wheel[c]).x] = D
  <2>1. \A c \in Corners : WheelVelocity(wheel[c]).x = X[c] /\ WheelVelocity(wheel[c]).y = Y[c]
    <3> SUFFICES ASSUME NEW c \in Corners
                 PROVE  WheelVelocity(wheel[c]).x = X[c] /\ WheelVelocity(wheel[c]).y = Y[c]
      OBVIOUS
    <3>1. WheelVelocity(wheel[c]) = [x |-> X[c], y |-> Y[c]]
      BY DEF Moving
    <3> QED BY <3>1
  <2> QED BY <2>1
<1>5. BodySums(wheel) = [vx |-> SumFunction(X), vy |-> SumFunction(Y), wz |-> SumFunction(D)]
  BY <1>4, Zenon DEF BodySums
<1> HIDE DEF M, N, D
<1>6. /\ SumFunction(M) \in Int /\ SumFunction(N) \in Int
      /\ SumFunction(D) = 0 * Cardinality(Corners) + 1 * SumFunction(M) + (-1) * SumFunction(N)
  BY <1>1, <1>2, <1>3, SumLinear
<1>7. SumFunction(D) = SumFunction(M) - SumFunction(N)
  BY <1>1, <1>6, FS_CardinalityType
<1> QED BY <1>5, <1>7 DEF M, N

LEMMA SquaresAdd ==
    /\ SumSquares = SumFunction(Moment(PosX, PosX)) + SumFunction(Moment(PosY, PosY))
    /\ SumFunction(Moment(PosX, PosX)) \in Int /\ SumFunction(Moment(PosY, PosY)) \in Int
<1> DEFINE M == Moment(PosX, PosX)
           N == Moment(PosY, PosY)
           D == [c \in Corners |-> PosX[c] * PosX[c] + PosY[c] * PosY[c]]
<1>1. IsFiniteSet(Corners) /\ PosX \in [Corners -> Int] /\ PosY \in [Corners -> Int]
  BY CornerAssumption
<1>2. M \in [Corners -> Int] /\ N \in [Corners -> Int] /\ D \in [Corners -> Int]
  BY <1>1 DEF Moment
<1>3. Linear(Corners, D, 0, 1, M, 1, N)
  BY <1>1 DEF Linear, Moment
<1>4. SumSquares = SumFunction(D)
  BY DEF SumSquares
<1> HIDE DEF M, N, D
<1>5. /\ SumFunction(M) \in Int /\ SumFunction(N) \in Int
      /\ SumFunction(D) = 0 * Cardinality(Corners) + 1 * SumFunction(M) + 1 * SumFunction(N)
  BY <1>1, <1>2, <1>3, SumLinear
<1>6. SumFunction(D) = SumFunction(M) + SumFunction(N)
  BY <1>1, <1>5, FS_CardinalityType
<1> QED BY <1>4, <1>5, <1>6 DEF M, N

(* What the fit makes of a twist that every wheel follows, of its forward  *)
(* half and of its sideways half.                                          *)
LEMMA FitOfTwist ==
    ASSUME Centred, NEW t \in Twist, NEW wheel, NEW full \in BOOLEAN, NEW side \in BOOLEAN,
           \A c \in Corners :
              LET v == CornerVelocity(t, c)
              IN  WheelVelocity(wheel[c]) = IF full THEN v
                                            ELSE IF side THEN [x |-> 0, y |-> v.y]
                                                         ELSE [x |-> v.x, y |-> 0]
    PROVE  LET n  == Cardinality(Corners)
               XX == SumFunction(Moment(PosX, PosX))
               YY == SumFunction(Moment(PosY, PosY))
           IN  BodySums(wheel) =
                  IF full THEN [vx |-> n * t.vx, vy |-> n * t.vy, wz |-> SumSquares * t.wz]
                  ELSE IF side THEN [vx |-> 0, vy |-> n * t.vy, wz |-> XX * t.wz]
                               ELSE [vx |-> n * t.vx, vy |-> 0, wz |-> YY * t.wz]
<1> DEFINE n  == Cardinality(Corners)
           XX == SumFunction(Moment(PosX, PosX))
           YY == SumFunction(Moment(PosY, PosY))
           VX == [c \in Corners |-> t.vx - t.wz * PosY[c]]
           VY == [c \in Corners |-> t.vy + t.wz * PosX[c]]
           Nil == [c \in Corners |-> 0]
           MX == SumFunction(Moment(PosY, VX))
           MY == SumFunction(Moment(PosX, VY))
<1>1. /\ t.vx \in Int /\ t.vy \in Int /\ t.wz \in Int /\ -t.wz \in Int
      /\ PosX \in [Corners -> Int] /\ PosY \in [Corners -> Int]
      /\ SumFunction(PosX) = 0 /\ SumFunction(PosY) = 0 /\ n \in Nat
  BY CornerAssumption, ReachAssumption, FS_CardinalityType DEF Twist, Centred
<1>2. /\ VX \in [Corners -> Int] /\ VY \in [Corners -> Int] /\ Nil \in [Corners -> Int]
      /\ \A c \in Corners : CornerVelocity(t, c) = [x |-> VX[c], y |-> VY[c]]
  BY <1>1 DEF CornerVelocity
<1>3. /\ Linear(Corners, VX, t.vx, -t.wz, PosY, 0, PosY)
      /\ Linear(Corners, VY, t.vy, t.wz, PosX, 0, PosX)
  <2>1. \A i, j, k \in Int : i - j * k = i + (-j) * k + 0 * k /\ i + j * k = i + j * k + 0 * k
    OBVIOUS
  <2> QED BY <1>1, <2>1 DEF Linear
<1> HIDE DEF VX, VY
<1>4. SumFunction(VX) = n * t.vx /\ MX = (-t.wz) * YY /\ YY \in Int
  <2> DEFINE w == -t.wz
  <2>1. /\ t.vx \in Int /\ w \in Int /\ PosY \in [Corners -> Int] /\ SumFunction(PosY) = 0
        /\ VX \in [Corners -> Int] /\ Linear(Corners, VX, t.vx, w, PosY, 0, PosY)
    BY <1>1, <1>2, <1>3
  <2> HIDE DEF w
  <2>2. SumFunction(VX) = n * t.vx /\ MX = w * YY /\ YY \in Int
    BY <2>1, AxisSums
  <2> QED BY <2>2 DEF w
<1>5. SumFunction(VY) = n * t.vy /\ MY = t.wz * XX /\ XX \in Int
  <2>1. /\ t.vy \in Int /\ t.wz \in Int /\ PosX \in [Corners -> Int] /\ SumFunction(PosX) = 0
        /\ VY \in [Corners -> Int] /\ Linear(Corners, VY, t.vy, t.wz, PosX, 0, PosX)
    BY <1>1, <1>2, <1>3
  <2> QED BY <2>1, AxisSums
<1>6. SumFunction(Nil) = 0
  <2>1. Linear(Corners, Nil, 0, 0, PosX, 0, PosX)
    BY <1>1 DEF Linear
  <2>2. /\ 0 \in Int /\ IsFiniteSet(Corners)
        /\ PosX \in [Corners -> Int] /\ Nil \in [Corners -> Int]
    BY CornerAssumption
  <2> HIDE DEF Nil
  <2>3. SumFunction(Nil) = 0 * n + 0 * SumFunction(PosX) + 0 * SumFunction(PosX)
    BY <2>1, <2>2, SumLinear
  <2> QED BY <1>1, <2>3
<1>7. Moment(PosX, Nil) = Nil /\ Moment(PosY, Nil) = Nil
  BY <1>1 DEF Moment
<1>8. SumSquares = XX + YY
  BY SquaresAdd
<1>9. /\ MY - MX = SumSquares * t.wz /\ MY - 0 = XX * t.wz /\ 0 - MX = YY * t.wz
  <2> HIDE DEF XX, YY, MX, MY
  <2>1. \A i, j, w \in Int : w * i - (-w) * j = (i + j) * w /\ w * i - 0 = i * w /\ 0 - (-w) * j = j * w
    OBVIOUS
  <2> QED BY <1>1, <1>4, <1>5, <1>8, <2>1
<1>10. CASE full
  <2>1. Moving(wheel, VX, VY)
    BY <1>2, <1>10 DEF Moving
  <2>2. /\ BodySums(wheel).vx = SumFunction(VX) /\ BodySums(wheel).vy = SumFunction(VY)
        /\ BodySums(wheel).wz = MY - MX
        /\ BodySums(wheel) = [vx |-> BodySums(wheel).vx, vy |-> BodySums(wheel).vy,
                              wz |-> BodySums(wheel).wz]
    BY <1>2, <2>1, SumsByAxis
  <2> QED BY <1>4, <1>5, <1>9, <1>10, <2>2
<1>11. CASE ~full /\ side
  <2>1. Moving(wheel, Nil, VY)
    BY <1>2, <1>11 DEF Moving
  <2>2. /\ BodySums(wheel).vx = SumFunction(Nil) /\ BodySums(wheel).vy = SumFunction(VY)
        /\ BodySums(wheel).wz = MY - SumFunction(Moment(PosY, Nil))
        /\ BodySums(wheel) = [vx |-> BodySums(wheel).vx, vy |-> BodySums(wheel).vy,
                              wz |-> BodySums(wheel).wz]
    BY <1>2, <2>1, SumsByAxis
  <2> HIDE DEF Nil
  <2> QED BY <1>5, <1>6, <1>7, <1>9, <1>11, <2>2
<1>12. CASE ~full /\ ~side
  <2>1. Moving(wheel, VX, Nil)
    BY <1>2, <1>12 DEF Moving
  <2>2. /\ BodySums(wheel).vx = SumFunction(VX) /\ BodySums(wheel).vy = SumFunction(Nil)
        /\ BodySums(wheel).wz = SumFunction(Moment(PosX, Nil)) - MX
        /\ BodySums(wheel) = [vx |-> BodySums(wheel).vx, vy |-> BodySums(wheel).vy,
                              wz |-> BodySums(wheel).wz]
    BY <1>2, <2>1, SumsByAxis
  <2> HIDE DEF Nil
  <2> QED BY <1>4, <1>6, <1>7, <1>9, <1>12, <2>2
<1> QED BY <1>10, <1>11, <1>12

(* The diagonal fit of compute_body_twist reads back the twist commanded,  *)
(* in every mode that locks all or no corner.                              *)
THEOREM FitInverts == Spec => []FitInvertsKinematics
<1>1. FitInv /\ FlipPreservesMotion => FitInvertsKinematics
  <2> SUFFICES ASSUME FitInv, FlipPreservesMotion, ~AnyPendingHome(input.mode, input.home)
               PROVE  FitInvertsKinematics
    BY DEF FitInvertsKinematics
  <2>1. input.mode \in Modes /\ input.twist \in Twist
    BY CallTypes, ZeroTwist DEF FitInv, Modes
  <2>2. Centred
    BY SteeringAssumption
  <2>3. CASE input.mode = "FULL_SWERVE"
    <3>1. \A c \in Corners : WheelVelocity(command[c]) = CornerVelocity(input.twist, c)
      BY <2>3 DEF FlipPreservesMotion, Locked
    <3>2. BodySums(command) = [vx |-> Cardinality(Corners) * input.twist.vx,
                               vy |-> Cardinality(Corners) * input.twist.vy,
                               wz |-> SumSquares * input.twist.wz]
      BY <2>1, <2>2, <3>1, FitOfTwist
    <3> QED BY <2>3, <3>2 DEF FitInvertsKinematics
  <2>4. CASE input.mode = "LOCKED_0"
    <3>1. \A c \in Corners : WheelVelocity(command[c])
                                = [x |-> CornerVelocity(input.twist, c).x, y |-> 0]
      BY <2>4 DEF FitInv, Locked, Projected
    <3>2. BodySums(command) =
             [vx |-> Cardinality(Corners) * input.twist.vx, vy |-> 0,
              wz |-> SumFunction(Moment(PosY, PosY)) * input.twist.wz]
      BY <2>1, <2>2, <3>1, FitOfTwist
    <3> QED BY <2>4, <3>2 DEF FitInvertsKinematics, Moment
  <2>5. CASE input.mode = "LOCKED_90"
    <3>1. \A c \in Corners : WheelVelocity(command[c])
                                = [x |-> 0, y |-> CornerVelocity(input.twist, c).y]
      BY <2>5 DEF FitInv, Locked, Projected
    <3>2. BodySums(command) =
             [vx |-> 0, vy |-> Cardinality(Corners) * input.twist.vy,
              wz |-> SumFunction(Moment(PosX, PosX)) * input.twist.wz]
      BY <2>1, <2>2, <3>1, FitOfTwist
    <3> QED BY <2>5, <3>2 DEF FitInvertsKinematics, Moment
  <2>6. CASE input.mode = "TWO_WHEEL"
    BY <2>6 DEF FitInvertsKinematics
  <2> QED BY <2>1, <2>3, <2>4, <2>5, <2>6 DEF Modes
<1> QED BY <1>1, FitInvariant, MotionPreserved, PTL

-----------------------------------------------------------------------------
(* The simulated axes: an axis that is not there yet has used every period *)
(* since the command came to get nearer.                                   *)
AxesInv ==
    /\ latest_steering_angle \in [Corners -> Headings]
    /\ steering_state \in [Corners -> Headings]
    /\ steering_cmd = NoCmd \/ steering_cmd \in [Corners -> Headings]
    /\ settled \in 0 .. SlewTime
    /\ \A c \in Corners :
          \/ steering_state[c] = latest_steering_angle[c]
          \/ Apart(steering_state[c], latest_steering_angle[c]) + MaxStep * settled <= HalfTurn

LEMMA SlewTimeFacts ==
    SlewTime \in Nat /\ MaxStep \in 1 .. HalfTurn /\ MaxStep * SlewTime >= HalfTurn
<1>1. MaxStep \in Nat /\ MaxStep >= 1 /\ MaxStep <= HalfTurn /\ HalfTurn \in Nat
  BY SimAssumption, TurnFacts
<1> DEFINE a == HalfTurn + MaxStep - 1
           n == a \div MaxStep
<1>2. a \in Nat /\ a >= 0
  BY <1>1
<1>3. n \in Int /\ a % MaxStep \in 0 .. MaxStep - 1 /\ a = n * MaxStep + (a % MaxStep)
  BY <1>1, <1>2, Division
<1>4. SlewTime = n /\ a = HalfTurn + MaxStep - 1
  BY DEF SlewTime
<1> HIDE DEF a, n
<1>5. n * MaxStep \in Int /\ n * MaxStep >= HalfTurn /\ n * MaxStep = MaxStep * n
  BY <1>1, <1>3, <1>4
<1>6. n \in Nat
  <2>1. CASE n <= -1
    <3>1. n * MaxStep <= -MaxStep
      BY <1>1, <1>3, <2>1, Multiples
    <3> QED BY <1>1, <1>5, <3>1
  <2> QED BY <1>3, <2>1
<1> QED BY <1>1, <1>4, <1>5, <1>6

(* When the time is up there is nothing left to go.                        *)
LEMMA TimeIsUp ==
    ASSUME AxesInv, settled >= SlewTime, NEW c \in Corners
    PROVE  steering_state[c] = latest_steering_angle[c]
<1>1. settled = SlewTime
  BY SlewTimeFacts DEF AxesInv
<1>2. steering_state[c] \in Headings /\ latest_steering_angle[c] \in Headings
  BY DEF AxesInv
<1>3. ASSUME Apart(steering_state[c], latest_steering_angle[c]) + MaxStep * settled <= HalfTurn
      PROVE  Apart(steering_state[c], latest_steering_angle[c]) = 0
  <2>1. MaxStep * SlewTime \in Int /\ MaxStep * SlewTime >= HalfTurn
    BY SlewTimeFacts
  <2>2. Apart(steering_state[c], latest_steering_angle[c]) \in 0 .. HalfTurn
    BY <1>2, ApartFacts
  <2> QED BY <1>1, <1>3, <2>1, <2>2, TurnFacts
<1> QED BY <1>2, <1>3, ApartFacts DEF AxesInv

LEMMA SimTick ==
    ASSUME AxesInv, NEW ties \in [Corners -> {-1, 1}], SimOnTick(ties)
    PROVE  AxesInv'
<1>1. /\ UNCHANGED <<latest_steering_angle, steering_cmd>>
      /\ steering_state' = [c \in Corners |-> Slewed(steering_state[c], latest_steering_angle[c],
                                                     MaxStep, ties[c])]
      /\ settled' = IF settled < SlewTime THEN settled + 1 ELSE settled
  BY DEF SimOnTick, StepSteering
<1>2. /\ settled \in Nat /\ settled <= SlewTime /\ SlewTime \in Nat
      /\ MaxStep \in 1 .. HalfTurn /\ MaxStep \in Nat
  BY SlewTimeFacts, TurnFacts DEF AxesInv
<1>3. settled' \in 0 .. SlewTime
  BY <1>1, <1>2
<1>4. ASSUME NEW c \in Corners
      PROVE  /\ steering_state'[c] \in Headings
             /\ \/ steering_state'[c] = latest_steering_angle[c]
                \/ Apart(steering_state'[c], latest_steering_angle[c]) + MaxStep * settled' <= HalfTurn
  <2> DEFINE a == steering_state[c]
             b == latest_steering_angle[c]
             s == steering_state'[c]
  <2>1. a \in Headings /\ b \in Headings /\ ties[c] \in {-1, 1} /\ s = Slewed(a, b, MaxStep, ties[c])
    BY <1>1 DEF AxesInv
  <2> HIDE DEF a, b, s
  <2>2. s \in Headings /\ (s = b \/ Apart(s, b) = Apart(a, b) - MaxStep)
    BY <1>2, <2>1, SlewFacts
  <2>3. a = b \/ Apart(a, b) + MaxStep * settled <= HalfTurn
    BY DEF AxesInv, a, b
  <2>4. settled >= SlewTime => a = b
    BY TimeIsUp DEF a, b
  <2>5. CASE s = b
    BY <2>2, <2>5 DEF s, b
  <2>6. CASE s # b
    <3>1. Apart(s, b) = Apart(a, b) - MaxStep
          /\ Apart(s, b) \in 0 .. HalfTurn /\ Apart(a, b) \in 0 .. HalfTurn
      BY <2>1, <2>2, <2>6, ApartFacts
    <3>2. a # b
      <4>1. Apart(a, a) = 0
        BY <2>1, ApartFacts
      <4>2. CASE a = b
        BY <1>2, <3>1, <4>1, <4>2, TurnFacts
      <4> QED BY <4>2
    <3>3. settled' = settled + 1
      BY <1>1, <1>2, <2>4, <3>2
    <3>4. MaxStep * settled \in Int /\ MaxStep * (settled + 1) = MaxStep * settled + MaxStep
      BY <1>2
    <3>5. Apart(s, b) + MaxStep * settled' <= HalfTurn
      BY <1>2, <2>3, <3>1, <3>2, <3>3, <3>4, TurnFacts
    <3> QED BY <2>2, <3>5 DEF s, b
  <2> QED BY <2>5, <2>6
<1>5. steering_state' \in [Corners -> Headings]
  BY <1>1, <1>4
<1> QED BY <1>1, <1>3, <1>4, <1>5 DEF AxesInv

LEMMA AxesInvariant == SimSpec => []AxesInv
<1>1. SimInit => AxesInv
  BY TurnFacts, SlewTimeFacts DEF SimInit, AxesInv, Parked
<1>2. AxesInv /\ [SimNext]_simVars => AxesInv'
  <2> SUFFICES ASSUME AxesInv, [SimNext]_simVars PROVE AxesInv'
    OBVIOUS
  <2>1. ASSUME NEW twist \in SimTwists, NEW tie \in {-1, 1}, Resolve(twist, tie)
        PROVE  AxesInv'
    <3>1. latest_steering_angle \in [Corners -> Int] /\ twist \in Twist
      BY SimAssumption, TurnFacts DEF AxesInv, Headings
    <3>2. ASSUME NEW c \in Corners
          PROVE  Wheel("FULL_SWERVE", twist, c, latest_steering_angle, tie).angle % Turn \in Headings
      BY <3>1, WheelFacts, ModRange DEF Modes
    <3>3. /\ UNCHANGED <<latest_steering_angle, steering_state, settled>>
          /\ steering_cmd' = [c \in Corners |->
                Wheel("FULL_SWERVE", twist, c, latest_steering_angle, tie).angle % Turn]
      BY <2>1 DEF Resolve, ComputeCornerCommands, node
    <3>4. steering_cmd' \in [Corners -> Headings]
      BY <3>2, <3>3
    <3> QED BY <3>3, <3>4 DEF AxesInv
  <2>2. CASE OnWheelCmd
    BY <2>2 DEF OnWheelCmd, AxesInv
  <2>3. CASE OnSteeringCmd
    <3>1. /\ steering_cmd \in [Corners -> Headings] /\ latest_steering_angle' = steering_cmd
          /\ steering_state' = steering_state /\ steering_cmd' = NoCmd
          /\ settled' = IF steering_cmd = latest_steering_angle THEN settled ELSE 0
      BY <2>3 DEF OnSteeringCmd, AxesInv
    <3>2. CASE steering_cmd = latest_steering_angle
      BY <3>1, <3>2 DEF AxesInv
    <3>3. CASE steering_cmd # latest_steering_angle
      <4>1. settled' = 0 /\ MaxStep * 0 = 0 /\ 0 \in 0 .. SlewTime
        BY <3>1, <3>3, SlewTimeFacts
      <4>2. \A c \in Corners : Apart(steering_state[c], steering_cmd[c]) + 0 <= HalfTurn
        <5> SUFFICES ASSUME NEW c \in Corners
                     PROVE  Apart(steering_state[c], steering_cmd[c]) + 0 <= HalfTurn
          OBVIOUS
        <5>1. steering_state[c] \in Headings /\ steering_cmd[c] \in Headings
          BY <3>1 DEF AxesInv
        <5>2. Apart(steering_state[c], steering_cmd[c]) \in 0 .. HalfTurn
          BY <5>1, ApartFacts
        <5> QED BY <5>2, TurnFacts
      <4> QED BY <3>1, <4>1, <4>2 DEF AxesInv
    <3> QED BY <3>2, <3>3
  <2>4. ASSUME NEW ties \in [Corners -> {-1, 1}], SimOnTick(ties) PROVE AxesInv'
    BY <2>4, SimTick
  <2>5. CASE UNCHANGED simVars
    BY <2>5 DEF simVars, node, AxesInv
  <2> QED BY <2>1, <2>2, <2>3, <2>4, <2>5 DEF SimNext
<1> QED BY <1>1, <1>2, PTL DEF SimSpec

(* Every axis stands at its command when the command has stood for half a  *)
(* turn's time, wherever the axis was and whatever else arrived meanwhile. *)
THEOREM AxesGetThere == SimSpec => []AxesArrive
<1>1. AxesInv => AxesArrive
  BY TimeIsUp DEF AxesArrive
<1> QED BY <1>1, AxesInvariant, PTL

-----------------------------------------------------------------------------
(* The odometry of the simulator.  The speeds and the angles that were     *)
(* last sent, arrived or not, are those of the twist last asked for; and   *)
(* what was last published is the fit of the commands in force then, or    *)
(* nothing.                                                                *)
SpeedsSent == IF wheel_cmd = NoCmd THEN latest_wheel_velocity ELSE wheel_cmd
AnglesSent == IF steering_cmd = NoCmd THEN latest_steering_angle ELSE steering_cmd

Answers(speeds, angles, twist) ==
    /\ speeds \in [Corners -> Int] /\ angles \in [Corners -> Headings] /\ twist \in Twist
    /\ \A c \in Corners : Along(speeds[c], angles[c]) = CornerVelocity(twist, c)

OdomInv ==
    /\ Answers(SpeedsSent, AnglesSent, asked)
    /\ wheel_cmd_age = NoCmd \/ wheel_cmd_age \in Nat
    /\ wheel_cmd_age \in 1 .. CmdTimeout + 1 /\ settled >= SlewTime
          => odom = SolveBodyTwist(latest_wheel_velocity, latest_steering_angle)
    /\ wheel_cmd_age = NoCmd \/ wheel_cmd_age > CmdTimeout + 1 => odom = NoMotion

LEMMA SolvedTwist ==
    ASSUME NEW speeds, NEW angles, NEW t, Answers(speeds, angles, t)
    PROVE  SolveBodyTwist(speeds, angles) = [vx |-> Cardinality(Corners) * t.vx,
                                             vy |-> Cardinality(Corners) * t.vy,
                                             wz |-> SumSquares * t.wz]
<1> DEFINE wheel == [c \in Corners |-> [speed |-> speeds[c], angle |-> angles[c]]]
<1>1. ASSUME NEW c \in Corners
      PROVE  WheelVelocity(wheel[c]) = CornerVelocity(t, c)
  <2>1. angles[c] \in Headings
    BY DEF Answers
  <2>2. angles[c] % Turn = angles[c]
    <3>1. (angles[c] + 0 * Turn) % Turn = angles[c] /\ angles[c] + 0 * Turn = angles[c]
      <4>1. 0 * Turn = 0 /\ angles[c] \in Int
        BY <2>1, TurnFacts DEF Headings
      <4> QED BY <2>1, <4>1, ModUnique
    <3> QED BY <3>1
  <2>3. WheelVelocity(wheel[c]) = Along(speeds[c], angles[c])
    BY <2>2 DEF WheelVelocity
  <2> QED BY <2>3 DEF Answers
<1> HIDE DEF wheel
<1>2. t \in Twist /\ Centred /\ TRUE \in BOOLEAN
  BY SimAssumption DEF Answers
<1>3. BodySums(wheel) = [vx |-> Cardinality(Corners) * t.vx, vy |-> Cardinality(Corners) * t.vy,
                         wz |-> SumSquares * t.wz]
  BY <1>1, <1>2, FitOfTwist
<1> QED BY <1>3 DEF SolveBodyTwist, wheel

LEMMA StandingStill ==
    ASSUME NEW angles \in [Corners -> Headings]
    PROVE  Answers(Parked, angles, Zero) /\ SolveBodyTwist(Parked, angles) = NoMotion
<1>1. \A h \in Headings : Along(0, h) = Still
  BY RingAssumption DEF Along, Still
<1>2. \A c \in Corners : CornerVelocity(Zero, c) = Still
  BY CornerAssumption DEF CornerVelocity, Zero, Still
<1>3. Answers(Parked, angles, Zero)
  BY <1>1, <1>2, ZeroTwist DEF Answers, Parked
<1>4. Cardinality(Corners) \in Int /\ SumSquares \in Int
  BY CornerAssumption, FS_CardinalityType, SquaresAdd
<1> QED BY <1>3, <1>4, SolvedTwist DEF NoMotion, Zero

LEMMA ResolvedAnswers ==
    ASSUME AxesInv, OdomInv, NEW twist \in SimTwists, NEW tie \in {-1, 1}, Resolve(twist, tie)
    PROVE  /\ Answers(wheel_cmd', steering_cmd', asked')
           /\ wheel_cmd' # NoCmd /\ steering_cmd' # NoCmd
<1> DEFINE w(c) == Wheel("FULL_SWERVE", twist, c, latest_steering_angle, tie)
<1>1. /\ wheel_cmd' = [c \in Corners |-> w(c).speed]
      /\ steering_cmd' = [c \in Corners |-> w(c).angle % Turn]
      /\ asked' = twist /\ twist \in Twist
  BY SimAssumption DEF Resolve, ComputeCornerCommands, AnyPendingHome, Locked
<1>2. latest_steering_angle \in [Corners -> Int] /\ "FULL_SWERVE" \in Modes
  BY TurnFacts DEF AxesInv, Headings, Modes
<1>3. ASSUME NEW c \in Corners
      PROVE  /\ w(c).speed \in Int /\ w(c).angle % Turn \in Headings
             /\ Along(w(c).speed, w(c).angle % Turn) = CornerVelocity(twist, c)
  <2> DEFINE v == CornerVelocity(twist, c)
  <2>1. w(c) = FreeWheel(v, latest_steering_angle[c], tie)
    BY DEF Wheel, Locked
  <2>2. v \in WheelVelocities /\ latest_steering_angle[c] \in Int
    BY <1>1, <1>2 DEF WheelVelocities
  <2>3. w(c).speed \in -Reach .. Reach /\ w(c).angle \in Int
    BY <1>1, <1>2, WheelFacts
  <2> HIDE DEF v, w
  <2>4. WheelVelocity(w(c)) = v
    BY <2>1, <2>2, FreeWheelVelocity
  <2>5. w(c).speed \in Int /\ w(c).angle % Turn \in Headings
    BY <2>3, ModRange, ReachAssumption
  <2> QED BY <2>4, <2>5 DEF WheelVelocity, v
<1> HIDE DEF w
<1>4. Answers(wheel_cmd', steering_cmd', asked')
  BY <1>1, <1>3 DEF Answers
<1>5. Headings \subseteq Int
  BY TurnFacts DEF Headings
<1> QED BY <1>4, <1>5, SimAssumption DEF Answers

LEMMA OdomTick ==
    ASSUME AxesInv, AxesInv', AxesArrive', OdomInv,
           NEW ties \in [Corners -> {-1, 1}], SimOnTick(ties)
    PROVE  OdomInv'
<1>1. /\ UNCHANGED <<latest_wheel_velocity, latest_steering_angle, asked, wheel_cmd, steering_cmd>>
      /\ odom' = SolveBodyTwist(WheelVelocityInForce, steering_state')
      /\ wheel_cmd_age' = IF wheel_cmd_age \in 0 .. CmdTimeout + 1
                          THEN wheel_cmd_age + 1 ELSE wheel_cmd_age
  BY DEF SimOnTick
<1>2. CmdTimeout \in Nat /\ NoCmd \notin Nat /\ (wheel_cmd_age = NoCmd \/ wheel_cmd_age \in Nat)
  BY SimAssumption DEF OdomInv
<1>3. Answers(SpeedsSent, AnglesSent, asked)'
  BY <1>1 DEF OdomInv, Answers, SpeedsSent, AnglesSent
<1>4. wheel_cmd_age' = NoCmd \/ wheel_cmd_age' \in Nat
  BY <1>1, <1>2
<1>5. ASSUME wheel_cmd_age' \in 1 .. CmdTimeout + 1, settled' >= SlewTime
      PROVE  odom' = SolveBodyTwist(latest_wheel_velocity', latest_steering_angle')
  <2>1. wheel_cmd_age \in 0 .. CmdTimeout
    BY <1>1, <1>2, <1>5
  <2>2. ~SimStale
    BY <1>2, <2>1 DEF SimStale
  <2>3. WheelVelocityInForce = latest_wheel_velocity
    BY <2>2 DEF WheelVelocityInForce
  <2>4. steering_state' = latest_steering_angle'
    <3>1. \A c \in Corners : steering_state'[c] = latest_steering_angle'[c]
      BY <1>5 DEF AxesArrive
    <3> QED BY <3>1 DEF AxesInv
  <2> QED BY <1>1, <2>3, <2>4
<1>6. ASSUME wheel_cmd_age' = NoCmd \/ wheel_cmd_age' > CmdTimeout + 1
      PROVE  odom' = NoMotion
  <2>1. wheel_cmd_age = NoCmd \/ wheel_cmd_age > CmdTimeout
    BY <1>1, <1>2, <1>6
  <2>2. WheelVelocityInForce = Parked
    BY <2>1 DEF WheelVelocityInForce, SimStale
  <2>3. steering_state' \in [Corners -> Headings]
    BY DEF AxesInv
  <2> QED BY <1>1, <2>2, <2>3, StandingStill
<1> QED BY <1>3, <1>4, <1>5, <1>6 DEF OdomInv

LEMMA OdomInvariant == SimSpec => []OdomInv
<1>1. SimInit => OdomInv
  <2> SUFFICES ASSUME SimInit PROVE OdomInv
    OBVIOUS
  <2>1. Parked \in [Corners -> Headings]
    BY TurnFacts DEF Parked
  <2>2. /\ SpeedsSent = Parked /\ AnglesSent = Parked /\ asked = Zero
        /\ wheel_cmd_age = NoCmd /\ odom = NoMotion
    BY DEF SimInit, SpeedsSent, AnglesSent
  <2>3. wheel_cmd_age \notin 1 .. CmdTimeout + 1
    BY <2>2, SimAssumption
  <2> QED BY <2>1, <2>2, <2>3, StandingStill DEF OdomInv
<1>2. AxesInv /\ AxesInv' /\ AxesArrive' /\ OdomInv /\ [SimNext]_simVars => OdomInv'
  <2> SUFFICES ASSUME AxesInv, AxesInv', AxesArrive', OdomInv, [SimNext]_simVars PROVE OdomInv'
    OBVIOUS
  <2>1. ASSUME NEW twist \in SimTwists, NEW tie \in {-1, 1}, Resolve(twist, tie)
        PROVE  OdomInv'
    <3>1. Answers(SpeedsSent, AnglesSent, asked)'
      BY <2>1, ResolvedAnswers DEF SpeedsSent, AnglesSent, Answers
    <3>2. /\ UNCHANGED <<latest_wheel_velocity, latest_steering_angle, wheel_cmd_age, odom, settled>>
      BY <2>1 DEF Resolve, node
    <3> QED BY <3>1, <3>2 DEF OdomInv, SolveBodyTwist, BodySums
  <2>2. CASE OnWheelCmd
    <3>1. /\ wheel_cmd # NoCmd /\ wheel_cmd_age' = 0 /\ latest_wheel_velocity' = wheel_cmd
          /\ wheel_cmd' = NoCmd
          /\ UNCHANGED <<latest_steering_angle, odom, asked, steering_cmd, settled>>
      BY <2>2 DEF OnWheelCmd
    <3>2. Answers(SpeedsSent, AnglesSent, asked)'
      BY <3>1 DEF OdomInv, SpeedsSent, AnglesSent, Answers
    <3>3. 0 \in Nat /\ 0 \notin 1 .. CmdTimeout + 1 /\ 0 # NoCmd /\ ~(0 > CmdTimeout + 1)
      BY SimAssumption
    <3> QED BY <3>1, <3>2, <3>3 DEF OdomInv
  <2>3. CASE OnSteeringCmd
    <3>1. /\ steering_cmd # NoCmd /\ latest_steering_angle' = steering_cmd
          /\ steering_cmd' = NoCmd
          /\ settled' = IF steering_cmd = latest_steering_angle THEN settled ELSE 0
          /\ UNCHANGED <<latest_wheel_velocity, wheel_cmd_age, odom, asked, wheel_cmd>>
      BY <2>3 DEF OnSteeringCmd
    <3>2. Answers(SpeedsSent, AnglesSent, asked)'
      BY <3>1 DEF OdomInv, SpeedsSent, AnglesSent, Answers
    <3>3. ~(0 >= SlewTime)
      <4> SUFFICES ASSUME 0 >= SlewTime PROVE FALSE
        OBVIOUS
      <4>1. SlewTime = 0
        BY SlewTimeFacts
      <4>2. MaxStep \in Nat /\ MaxStep * 0 = 0
        BY SimAssumption
      <4>3. 0 >= HalfTurn
        BY <4>1, <4>2, SlewTimeFacts
      <4> QED BY <4>3, TurnFacts
    <3>4. wheel_cmd_age' \in 1 .. CmdTimeout + 1 /\ settled' >= SlewTime
             => odom' = SolveBodyTwist(latest_wheel_velocity', latest_steering_angle')
      BY <3>1, <3>3 DEF OdomInv
    <3> QED BY <3>1, <3>2, <3>4 DEF OdomInv, SolveBodyTwist, BodySums
  <2>4. ASSUME NEW ties \in [Corners -> {-1, 1}], SimOnTick(ties) PROVE OdomInv'
    BY <2>4, OdomTick
  <2>5. CASE UNCHANGED simVars
    BY <2>5 DEF simVars, node, OdomInv, Answers, SpeedsSent, AnglesSent
  <2> QED BY <2>1, <2>2, <2>3, <2>4, <2>5 DEF SimNext
<1> QED BY <1>1, <1>2, AxesInvariant, AxesGetThere, PTL DEF SimSpec

(* The odometry is the twist asked for once messages, ticks and axes have  *)
(* had their time, and nothing once the speeds are stale.                  *)
THEOREM OdometryIsTrue == SimSpec => []OdometryFollows
<1>1. OdomInv => OdometryFollows
  <2> SUFFICES ASSUME OdomInv PROVE OdometryFollows
    OBVIOUS
  <2>1. ASSUME wheel_cmd = NoCmd, steering_cmd = NoCmd
        PROVE  SolveBodyTwist(latest_wheel_velocity, latest_steering_angle)
                  = [vx |-> Cardinality(Corners) * asked.vx,
                     vy |-> Cardinality(Corners) * asked.vy, wz |-> SumSquares * asked.wz]
    <3>1. Answers(latest_wheel_velocity, latest_steering_angle, asked)
      BY <2>1 DEF OdomInv, SpeedsSent, AnglesSent
    <3> QED BY <3>1, SolvedTwist
  <2> QED BY <2>1 DEF OdomInv, OdometryFollows
<1> QED BY <1>1, OdomInvariant, PTL

=============================================================================
