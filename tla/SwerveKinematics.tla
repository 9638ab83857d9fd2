-------------------------- MODULE SwerveKinematics --------------------------
(***************************************************************************)
(* The arithmetic of rp1_swerve_controller.cpp: the inverse kinematics     *)
(* with the homing gate (compute_corner_commands), the forward kinematics  *)
(* (compute_body_twist) and the angle helper normalize_angle.  No state.   *)
(*                                                                         *)
(* Directions are exact.  A wheel velocity with small integer components   *)
(* lies on one of finitely many primitive directions; Dir lists them in    *)
(* the order of their angle, so an angle is an integer (the index of its   *)
(* direction plus full turns, hence unwrapped) and comparing two rotations *)
(* with a quarter turn is comparing integers.  A wheel command is a signed *)
(* multiple of its direction.  The wheel radius, which converts m/s into   *)
(* rad/s on the way out and back again on the way in, is the unit.         *)
(***************************************************************************)
EXTENDS Integers, FiniteSets, FiniteSetsExt, Functions

CONSTANTS
    Corners,          \* the steering corners (NUM_CORNERS of them)
    PosX, PosY,       \* corner_position_
    TwoWheelSteered,  \* two_wheel_steered_: the corners free in TWO_WHEEL
    SensorsAvailable, \* steering_home_sensors_available_
    Quarter,          \* directions in a quarter turn (pi/2)
    Dir,              \* the directions, by increasing angle
    MaxLinear,        \* largest |vx|, |vy| of a command
    MaxAngular,       \* largest |wz| of a command
    Reach             \* largest multiple of a direction, and component, a
                      \* wheel velocity can have

Turn     == 4 * Quarter
HalfTurn == 2 * Quarter
Headings == 0 .. Turn - 1

Modes == {"FULL_SWERVE", "LOCKED_0", "LOCKED_90", "TWO_WHEEL"}

Twist == [vx : -MaxLinear .. MaxLinear,
          vy : -MaxLinear .. MaxLinear,
          wz : -MaxAngular .. MaxAngular]

Zero == [vx |-> 0, vy |-> 0, wz |-> 0]

(* Rigid-body twist at a corner: v_body + wz x r_i. *)
CornerVelocity(twist, c) == [x |-> twist.vx - twist.wz * PosY[c],
                             y |-> twist.vy + twist.wz * PosX[c]]

(* The corners are those of a rectangle around the centre (cpp:107-110),   *)
(* which makes the normal equations of a fit to the wheels diagonal.       *)
Centred == SumFunction(PosX) = 0 /\ SumFunction(PosY) = 0

Along(speed, h) == [x |-> speed * Dir[h].x, y |-> speed * Dir[h].y]

Still == [x |-> 0, y |-> 0]

ASSUME CornerAssumption ==
    /\ IsFiniteSet(Corners) /\ Corners # {}
    /\ PosX \in [Corners -> Int] /\ PosY \in [Corners -> Int]
    /\ TwoWheelSteered \subseteq Corners
    /\ SensorsAvailable \in BOOLEAN

ASSUME RingAssumption ==
    /\ Quarter \in Nat \ {0}
    /\ Dir \in [Headings -> [x : Int, y : Int]]
    /\ Dir[0] = [x |-> 1, y |-> 0] /\ Dir[Quarter] = [x |-> 0, y |-> 1]
    /\ \A h \in 0 .. HalfTurn - 1 :
          Dir[h + HalfTurn] = [x |-> -Dir[h].x, y |-> -Dir[h].y]

ASSUME ReachAssumption ==
    /\ MaxLinear \in Nat /\ MaxAngular \in Nat /\ Reach \in Nat
    /\ \A twist \in Twist, c \in Corners :
          LET v == CornerVelocity(twist, c)
          IN  /\ v.x \in -Reach .. Reach /\ v.y \in -Reach .. Reach
              /\ v # Still =>
                    \E h \in Headings, k \in 1 .. Reach : v = Along(k, h)

-----------------------------------------------------------------------------
(* Angles.  At exactly half a turn atan2(sin, cos) returns +pi or -pi by   *)
(* the sign of a rounding error, at exactly a quarter turn one decides     *)
(* whether |delta| > pi/2: tie stands for that sign.                       *)

(* Mutant: the remainder is not brought back into half a turn. *)
NormalizeAngleUnfolded(a, tie) == a % Turn

NormalizeAngle(a, tie) ==
    LET r == a % Turn
    IN  IF r < HalfTurn THEN r ELSE IF r = HalfTurn THEN tie * HalfTurn
                                                    ELSE r - Turn

Magnitude(n) == IF n < 0 THEN -n ELSE n

(* The slew of the simulated steering actuators: towards the target by the *)
(* shortest way, by at most rate in one step.                              *)

(* Mutant: the last step is a full one as well. *)
SlewedOvershooting(angle, target, rate, tie) ==
    LET delta == NormalizeAngle(target - angle, tie)
    IN  (angle + IF delta > 0 THEN rate ELSE IF delta < 0 THEN -rate ELSE 0) % Turn

Slewed(angle, target, rate, tie) ==
    LET delta == NormalizeAngle(target - angle, tie)
        step  == IF Magnitude(delta) <= rate THEN delta
                 ELSE IF delta > 0 THEN rate ELSE -rate
    IN  (angle + step) % Turn

(* hypot and atan2 of a wheel velocity, tabulated. *)
WheelVelocities == { CornerVelocity(twist, c) : twist \in Twist, c \in Corners }

HeadingOf == [v \in WheelVelocities \ {Still} |->
                CHOOSE h \in Headings : \E k \in 1 .. Reach : v = Along(k, h)]

SpeedOf == [v \in WheelVelocities |->
              IF v = Still THEN 0
              ELSE CHOOSE k \in 1 .. Reach : v = Along(k, HeadingOf[v])]

-----------------------------------------------------------------------------
(* compute_corner_commands, first pass: which corners the mode locks, to   *)
(* which reference, and whether that reference is confirmed by its sensor. *)
(* home.deg0 and home.deg90 are the corners whose sensor reads true.       *)

Locked(mode, c) == \/ mode \in {"LOCKED_0", "LOCKED_90"}
                   \/ mode = "TWO_WHEEL" /\ c \notin TwoWheelSteered

LockedAngle(mode) == IF mode = "LOCKED_90" THEN Quarter ELSE 0

Confirmed(mode, c, home) ==
    SensorsAvailable /\ c \in IF mode = "LOCKED_90" THEN home.deg90 ELSE home.deg0

AnyPendingHome(mode, home) ==
    \E c \in Corners : Locked(mode, c) /\ ~Confirmed(mode, c, home)

SeekCommand(mode, c, home) ==
    IF Locked(mode, c) /\ ~Confirmed(mode, c, home)
    THEN IF mode = "LOCKED_90" THEN "seek_90" ELSE "seek_0"
    ELSE "none"

(* Mutant: the brake engages as soon as the corner is locked. *)
BrakeCommandEarly(mode, c, home) == Locked(mode, c)

BrakeCommand(mode, c, home) == Locked(mode, c) /\ Confirmed(mode, c, home)

(* Second pass: a locked corner projects its velocity on the reference and *)
(* turns to it by the shortest way; a free one takes the velocity's own    *)
(* direction, or its opposite with the speed reversed when that is nearer. *)

(* Mutant: the projection forgets that the reference is at 90 degrees. *)
LockedWheelAlongX(mode, v, last, tie) ==
    [speed |-> v.x, angle |-> last + NormalizeAngle(LockedAngle(mode) - last, tie)]

LockedWheel(mode, v, last, tie) ==
    [speed |-> IF mode = "LOCKED_90" THEN v.y ELSE v.x,
     angle |-> last + NormalizeAngle(LockedAngle(mode) - last, tie)]

Flips(delta, tie) == Magnitude(delta) > Quarter \/ (Magnitude(delta) = Quarter /\ tie = -1)

(* Mutant: a flipped wheel keeps its forward speed. *)
FreeWheelUnreversed(v, last, tie) ==
    LET target == IF SpeedOf[v] > 0 THEN HeadingOf[v] ELSE last
        delta  == NormalizeAngle(target - last, tie)
    IN  [speed |-> SpeedOf[v],
         angle |-> last + IF Flips(delta, tie)
                          THEN NormalizeAngle(target + HalfTurn - last, tie)
                          ELSE delta]

FreeWheel(v, last, tie) ==
    LET speed  == SpeedOf[v]
        target == IF speed > 0 THEN HeadingOf[v] ELSE last
        delta  == NormalizeAngle(target - last, tie)
    IN  IF Flips(delta, tie)
        THEN [speed |-> -speed,
              angle |-> last + NormalizeAngle(target + HalfTurn - last, tie)]
        ELSE [speed |-> speed, angle |-> last + delta]

Wheel(mode, twist, c, last, tie) ==
    LET v == CornerVelocity(twist, c)
    IN  IF Locked(mode, c) THEN LockedWheel(mode, v, last[c], tie)
                           ELSE FreeWheel(v, last[c], tie)

(* Mutant: an unconfirmed corner holds only its own wheel. *)
ComputeCornerCommandsOwnGate(mode, twist, home, last, tie) ==
    [c \in Corners |->
        LET wheel == Wheel(mode, twist, c, last, tie)
        IN  [speed |-> IF Locked(mode, c) /\ ~Confirmed(mode, c, home)
                       THEN 0 ELSE wheel.speed,
             angle |-> wheel.angle,
             seek  |-> SeekCommand(mode, c, home),
             brake |-> BrakeCommand(mode, c, home)]]

ComputeCornerCommands(mode, twist, home, last, tie) ==
    [c \in Corners |->
        LET wheel == Wheel(mode, twist, c, last, tie)
        IN  [speed |-> IF AnyPendingHome(mode, home) THEN 0 ELSE wheel.speed,
             angle |-> wheel.angle,
             seek  |-> SeekCommand(mode, c, home),
             brake |-> BrakeCommand(mode, c, home)]]

-----------------------------------------------------------------------------
(* compute_body_twist: the sums of the least-squares fit, before they are  *)
(* divided by the number of corners (linear) and by SumSquares (angular).  *)
(* wheel[c] is [speed, angle] as the state interfaces report it.           *)

WheelVelocity(wheel) == Along(wheel.speed, wheel.angle % Turn)

BodySums(wheel) ==
    LET v(c) == WheelVelocity(wheel[c])
    IN  [vx |-> SumFunction([c \in Corners |-> v(c).x]),
         vy |-> SumFunction([c \in Corners |-> v(c).y]),
         wz |-> SumFunction([c \in Corners |-> PosX[c] * v(c).y - PosY[c] * v(c).x])]

SumSquares == SumFunction([c \in Corners |-> PosX[c] * PosX[c] + PosY[c] * PosY[c]])

(* is_stopped of update(): every axis of the measured twist is strictly    *)
(* below mode_switch_stopped_tolerance, which is tolerance / unit.         *)
IsStopped(sums, tolerance, unit) ==
    /\ Magnitude(sums.vx) * unit < tolerance * Cardinality(Corners)
    /\ Magnitude(sums.vy) * unit < tolerance * Cardinality(Corners)
    /\ Magnitude(sums.wz) * unit < tolerance * SumSquares

=============================================================================
