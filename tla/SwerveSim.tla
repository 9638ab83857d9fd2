------------------------------- MODULE SwerveSim -------------------------------
(***************************************************************************)
(* swerve_sim_node: the kinematic stand-in for the robot.  Two callbacks   *)
(* store the last wheel speeds and steering angles, a timer slews the four *)
(* simulated axes, fits a body twist to the wheels and publishes it on     *)
(* odom.  Wheel speeds go stale and then count as zero; steering angles    *)
(* are held for ever.                                                      *)
(*                                                                         *)
(* Whoever publishes is external ("driven by hand", package.xml): here, a  *)
(* resolver that turns a twist into per-wheel commands as the controller   *)
(* does in FULL_SWERVE, and sends them as two messages on two topics; they *)
(* may arrive in either order, with ticks of the timer in between.  Time   *)
(* is counted in periods of the timer.  The integration of the pose and    *)
(* the feedback messages, which repeat the state, are left out.            *)
(***************************************************************************)
EXTENDS SwerveKinematics

CONSTANTS
    NoCmd,          \* no message, or no stamp yet
    SimTwists,      \* twists that are commanded
    CmdTimeout,     \* cmd_timeout_sec, in periods
    MaxStep         \* max_steering_rate times one period

(* Periods in which an axis gets round half a turn. *)
SlewTime == (HalfTurn + MaxStep - 1) \div MaxStep

(* The wheels lie symmetrically around the centre here too (sim:68-74).    *)
ASSUME SimAssumption ==
    /\ SimTwists \subseteq Twist /\ SimTwists # {}
    /\ CmdTimeout \in Nat /\ MaxStep \in 1 .. HalfTurn
    /\ NoCmd \notin [Corners -> Int] /\ NoCmd \notin Nat
    /\ Centred

VARIABLES
    latest_wheel_velocity, latest_steering_angle,
    steering_state,        \* the slewed axes
    wheel_cmd_age,         \* ticks since the last wheel_cmd, or NoCmd
    odom,                  \* the sums of the fit last published
    asked,                 \* history: the twist last resolved
    wheel_cmd, steering_cmd,  \* in flight on either topic
    settled                \* history: periods for which the angles in force have stood

node == <<latest_wheel_velocity, latest_steering_angle, steering_state,
          wheel_cmd_age, odom>>
simVars == <<node, asked, wheel_cmd, steering_cmd, settled>>

Parked == [c \in Corners |-> 0]
NoMotion == [vx |-> 0, vy |-> 0, wz |-> 0]

-----------------------------------------------------------------------------
SimInit ==
    /\ latest_wheel_velocity = Parked /\ latest_steering_angle = Parked
    /\ steering_state = Parked
    /\ wheel_cmd_age = NoCmd
    /\ odom = NoMotion
    /\ asked = Zero /\ wheel_cmd = NoCmd /\ steering_cmd = NoCmd
    /\ settled = SlewTime

(* The publisher, when its last two messages have arrived.                 *)
Resolve(twist, tie) ==
    LET commands == ComputeCornerCommands("FULL_SWERVE", twist,
                                          [deg0 |-> {}, deg90 |-> {}],
                                          latest_steering_angle, tie)
    IN  /\ wheel_cmd = NoCmd /\ steering_cmd = NoCmd
        /\ wheel_cmd' = [c \in Corners |-> commands[c].speed]
        /\ steering_cmd' = [c \in Corners |-> commands[c].angle % Turn]
        /\ asked' = twist
        /\ UNCHANGED <<node, settled>>

OnWheelCmd ==
    /\ wheel_cmd # NoCmd
    /\ wheel_cmd_age' = 0 /\ latest_wheel_velocity' = wheel_cmd
    /\ wheel_cmd' = NoCmd
    /\ UNCHANGED <<latest_steering_angle, steering_state, odom, asked,
                   steering_cmd, settled>>

OnSteeringCmd ==
    /\ steering_cmd # NoCmd
    /\ latest_steering_angle' = steering_cmd
    /\ settled' = IF steering_cmd = latest_steering_angle THEN settled ELSE 0
    /\ steering_cmd' = NoCmd
    /\ UNCHANGED <<latest_wheel_velocity, steering_state, wheel_cmd_age, odom,
                   asked, wheel_cmd>>

SimStaleNever == wheel_cmd_age = NoCmd   \* Mutant: an old command is as good as a new one

SimStale == wheel_cmd_age = NoCmd \/ wheel_cmd_age > CmdTimeout

WheelVelocityInForce == IF SimStale THEN Parked ELSE latest_wheel_velocity

(* Each axis has a rounding error, hence a tie, of its own.                *)
StepSteering(ties) ==
    steering_state' =
        [c \in Corners |-> Slewed(steering_state[c], latest_steering_angle[c],
                                  MaxStep, ties[c])]

SolveBodyTwist(wheel_velocity, steering_angle) ==
    BodySums([c \in Corners |-> [speed |-> wheel_velocity[c], angle |-> steering_angle[c]]])

(* Ages beyond the first tick that found the command stale are one.        *)
SimOnTick(ties) ==
    /\ StepSteering(ties)
    /\ odom' = SolveBodyTwist(WheelVelocityInForce, steering_state')
    /\ wheel_cmd_age' = IF wheel_cmd_age \in 0 .. CmdTimeout + 1
                        THEN wheel_cmd_age + 1 ELSE wheel_cmd_age
    /\ settled' = IF settled < SlewTime THEN settled + 1 ELSE settled
    /\ UNCHANGED <<latest_wheel_velocity, latest_steering_angle, asked,
                   wheel_cmd, steering_cmd>>

SimNext ==
    \/ \E twist \in SimTwists, tie \in {-1, 1} : Resolve(twist, tie)
    \/ OnWheelCmd \/ OnSteeringCmd
    \/ \E ties \in [Corners -> {-1, 1}] : SimOnTick(ties)

SimSpec == SimInit /\ [][SimNext]_simVars

-----------------------------------------------------------------------------
(* Each axis stands at its commanded angle once that command has stood for *)
(* as long as half a turn takes at the slew rate, from wherever the axis   *)
(* was caught by the command and although the other messages kept coming   *)
(* (sim:139-145).                                                          *)
AxesArrive ==
    settled >= SlewTime =>
       \A c \in Corners : steering_state[c] = latest_steering_angle[c]

(* The odometry reports the twist that was asked for, once both messages   *)
(* have arrived, in whichever order and with whichever ticks in between,   *)
(* a tick has seen the speeds fresh and the axes have had their time; and  *)
(* no motion once a tick has found the speeds stale, though axes may still *)
(* be turning (sim:118-137).                                               *)
OdometryFollows ==
    LET n == Cardinality(Corners)
    IN  /\ wheel_cmd_age \in 1 .. CmdTimeout + 1 /\ settled >= SlewTime
           /\ wheel_cmd = NoCmd /\ steering_cmd = NoCmd
              => odom = [vx |-> n * asked.vx, vy |-> n * asked.vy,
                         wz |-> SumSquares * asked.wz]
        /\ wheel_cmd_age = NoCmd \/ wheel_cmd_age > CmdTimeout + 1
              => odom = NoMotion

=============================================================================
