--------------------------- MODULE SwerveSteering ---------------------------
(***************************************************************************)
(* Repeated calls of compute_corner_commands, with the one thing that      *)
(* lives from call to call: last_steering_angle_, unwrapped.  Every call   *)
(* takes any mode, twist and sensor reading.  What the sequence of calls   *)
(* commands is what the robot's geometry is about.                         *)
(***************************************************************************)
EXTENDS SwerveKinematics

CONSTANTS
    CommandTwists,  \* the twists update() may pass
    Readings,       \* the sensor readings
    MaxWinding      \* bound: no steering angle beyond this many turns

ASSUME SteeringAssumption ==
    /\ CommandTwists \subseteq Twist
    /\ Readings \subseteq [deg0 : SUBSET Corners, deg90 : SUBSET Corners]
    /\ MaxWinding \in Nat
    /\ Centred

VARIABLES
    last_steering_angle,  \* per corner, unwrapped
    command,              \* what the last call returned
    input                 \* what it was called with

vars == <<last_steering_angle, command, input>>

Calls == [mode : Modes, twist : CommandTwists, home : Readings]

(* on_init fills last_steering_angle_ with 0; no call has been made. *)
Init ==
    /\ last_steering_angle = [c \in Corners |-> 0]
    /\ input \in [mode : {"FULL_SWERVE"}, twist : {Zero}, home : Readings]
    /\ command = [c \in Corners |->
                    [speed |-> 0, angle |-> 0, seek |-> "none", brake |-> FALSE]]

Compute(call, tie) ==
    LET commands == ComputeCornerCommands(call.mode, call.twist, call.home,
                                          last_steering_angle, tie)
    IN  /\ \A c \in Corners : Magnitude(commands[c].angle) <= MaxWinding * Turn
        /\ input' = call
        /\ command' = commands
        /\ last_steering_angle' = [c \in Corners |-> commands[c].angle]

Next == \E call \in Calls, tie \in {-1, 1} : Compute(call, tie)

Spec == Init /\ [][Next]_vars

-----------------------------------------------------------------------------
(* What the wheels do is what was asked: reversing the speed of a flipped  *)
(* wheel compensates the half turn exactly, at every free corner, whatever *)
(* the winding of its angle (the angle-flip optimisation, cpp:541-556).    *)
FlipPreservesMotion ==
    \A c \in Corners :
       ~Locked(input.mode, c) /\ ~AnyPendingHome(input.mode, input.home)
          => WheelVelocity(command[c]) = CornerVelocity(input.twist, c)

(* The odometry reads back the twist that was commanded: the diagonal      *)
(* least-squares fit of compute_body_twist inverts the inverse kinematics  *)
(* in every mode that locks all or no corner (a skid-steer robot locked at *)
(* 0 cannot move sideways, one locked at 90 cannot move forward).          *)
FitInvertsKinematics ==
    LET sums == BodySums(command)
        t    == input.twist
        n    == Cardinality(Corners)
        Sum2(P) == SumFunction([c \in Corners |-> P[c] * P[c]])
    IN  ~AnyPendingHome(input.mode, input.home) =>
          CASE input.mode = "FULL_SWERVE" ->
                 sums = [vx |-> n * t.vx, vy |-> n * t.vy, wz |-> SumSquares * t.wz]
            [] input.mode = "LOCKED_0" ->
                 sums = [vx |-> n * t.vx, vy |-> 0, wz |-> Sum2(PosY) * t.wz]
            [] input.mode = "LOCKED_90" ->
                 sums = [vx |-> 0, vy |-> n * t.vy, wz |-> Sum2(PosX) * t.wz]
            [] OTHER -> TRUE

(* A corner has no reason to turn when it has no velocity of its own, or   *)
(* stands on its locked reference already.                                 *)
Settled(c) == IF Locked(input.mode, c)'
              THEN command[c].angle % Turn = LockedAngle(input.mode)'
              ELSE CornerVelocity(input.twist, c)' = Still

(* No call makes a free wheel turn more than a quarter turn or a locked    *)
(* one more than half a turn from where the previous call left it, and a   *)
(* corner with no reason to turn is not turned at all, however far the     *)
(* angles have wound up and whichever mode came before.                    *)
ShortRotation ==
    [][\A c \in Corners :
          Magnitude(command'[c].angle - command[c].angle)
             <= IF Settled(c) THEN 0
                ELSE IF Locked(input.mode, c)' THEN HalfTurn ELSE Quarter]_vars

=============================================================================
