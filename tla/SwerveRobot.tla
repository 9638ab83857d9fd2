---------------------------- MODULE SwerveRobot ----------------------------
(***************************************************************************)
(* The controller in its loop: wheels and steering axes that follow the    *)
(* command interfaces, and the telemetry that brings their state back.     *)
(*                                                                         *)
(* The hardware is not in this repository (vesc_dronecan_driver and the    *)
(* VESC firmware); what is assumed of it is what the controller's header   *)
(* and README rely on: a drive follows its velocity command with bounded   *)
(* acceleration, a steering axis follows its position command at a bounded *)
(* rate unless the brake holds it (the slew is the one of the repository's *)
(* own simulated actuator, simulation/sim_actuator_node.py), each status   *)
(* frame carries what the corner is doing, a frame may be lost, and a      *)
(* state that was never reported reads as zero (compute_body_twist's       *)
(* state_or_zero).                                                         *)
(***************************************************************************)
EXTENDS SwerveController

CONSTANTS
    Acceleration,      \* change of a wheel's speed in one cycle
    SteeringRate,      \* directions an axis turns in one cycle
    Tolerance, Unit,   \* mode_switch_stopped_tolerance is Tolerance / Unit
    FramesLost         \* the kinds of bus: does it lose status frames?

ASSUME RobotAssumption ==
    /\ Acceleration \in Nat \ {0} /\ SteeringRate \in Nat \ {0}
    /\ Tolerance \in Nat /\ Unit \in Nat \ {0}
    /\ FramesLost \subseteq BOOLEAN /\ FramesLost # {}
    /\ Readings = [deg0 : SUBSET Corners, deg90 : SUBSET Corners]

VARIABLES
    lossy,    \* this robot's bus loses status frames
    wheel,    \* actual speed of each drive
    axis,     \* actual direction of each steering axis
    reported  \* per corner, the drive and steering state interfaces

plant == <<lossy, wheel, axis, reported>>
robotVars == <<vars, plant>>

-----------------------------------------------------------------------------
(* n moved towards target by at most step. *)
Approach(n, target, step) == IF n < target THEN Least(n + step, target)
                                           ELSE Greatest(n - step, target)

Spin(c) == Approach(wheel[c], drive[c], Acceleration)

Turned(c, tie) == IF brake[c] THEN axis[c]
                  ELSE Slewed(axis[c], steer[c], SteeringRate, tie)

(* The home bits travel in the corner's own status frame.                  *)
SensorBits(old, heard, h) == (old \ heard) \cup { c \in heard : axis'[c] = h }

RobotInit ==
    /\ Init /\ home = [deg0 |-> {}, deg90 |-> {}] /\ lossy \in FramesLost
    /\ wheel = [c \in Corners |-> 0] /\ axis = [c \in Corners |-> 0]
    /\ reported = [c \in Corners |-> [speed |-> 0, angle |-> 0]]

(* One period of the plant, then the read() that starts the next cycle:    *)
(* the frames of the corners in heard have arrived.                        *)
RobotRead(ticks, heard, tie) ==
    /\ heard = Corners \/ lossy
    /\ wheel' = [c \in Corners |-> Spin(c)]
    /\ axis' = [c \in Corners |-> Turned(c, tie)]
    /\ reported' = [c \in Corners |-> IF c \in heard
                                      THEN [speed |-> wheel'[c], angle |-> axis'[c]]
                                      ELSE reported[c]]
    /\ ReadStates(ticks,
                  [deg0  |-> SensorBits(home.deg0, heard, 0),
                   deg90 |-> SensorBits(home.deg90, heard, Quarter)],
                  IsStopped(BodySums(reported'), Tolerance, Unit))
    /\ UNCHANGED lossy

RobotUpdate ==
    /\ \/ GetCommand
       \/ \E tie \in {-1, 1}, lost \in LossSets : FinishUpdate(tie, lost)
    /\ UNCHANGED plant

RobotCycle ==
    \/ \E ticks \in Periods, heard \in SUBSET Corners, tie \in {-1, 1} :
          RobotRead(ticks, heard, tie)
    \/ RobotUpdate

AllHeard == \E ticks \in Periods, tie \in {-1, 1} : RobotRead(ticks, Corners, tie)

RobotNext == \/ Lifecycle /\ UNCHANGED plant
             \/ Callbacks /\ UNCHANGED plant
             \/ RobotCycle

RobotSpec == RobotInit /\ [][RobotNext]_robotVars

(* The controller manager's thread keeps cycling: it finishes each update, *)
(* and reads again, now and then with a status frame from every corner at  *)
(* once.  Nothing is assumed of publishers or of lifecycle requests.       *)
FairRobotSpec == RobotSpec /\ WF_robotVars(RobotUpdate) /\ SF_robotVars(AllHeard)

-----------------------------------------------------------------------------
(* With every frame heard, the corners change their roles only while no    *)
(* wheel is really turning (cpp:660-662: "confirmed actually stopped, not  *)
(* just commanded to stop").                                               *)
RolesChangeAtRest ==
    [][~lossy /\ active_mode' # active_mode /\ lifecycle = "active"
          => \A c \in Corners : wheel[c] = 0]_robotVars

(* With every frame heard, an engaged brake never works against the        *)
(* steering servo: the axis really stands where its position command says, *)
(* in every state, also while a switch is committed, while the next mode   *)
(* is being homed and while the controller is inactive.                    *)
BrakeNeverFights == ~lossy => \A c \in Corners : brake[c] => axis[c] = steer[c]

(* No switch waits forever: whatever keeps being published on ~/cmd_vel,   *)
(* and even if the request on ~/mode keeps changing, the controller does   *)
(* not stay active with a pending switch for good (hpp:180-192: a caller   *)
(* that keeps publishing could otherwise "block the switch forever").      *)
(* on_init accepts a tolerance of 0 (cpp:73), under which it does not hold.*)
SwitchLands == []<>(lifecycle = "active" => ValidateMode(mode) = active_mode)

(* A publisher that goes quiet stops the robot, not only its commands:     *)
(* with the controller left active the wheels come to rest and stay there, *)
(* whatever is requested on ~/mode meanwhile (hpp:146-154).                *)
QuietRobotRests ==
    <>[](lifecycle = "active" /\ silence = SilenceCap)
        => <>[](\A c \in Corners : wheel[c] = 0)

(* The homing gate opens: a robot left alone in a locked mode gets every   *)
(* locked corner confirmed on its reference, from wherever its axes stood  *)
(* and although a brake was engaged on an outdated sensor reading.         *)
HomingCompletes ==
    []<>(lifecycle = "active" /\ ValidateMode(mode) = active_mode
            => ~AnyPendingHome(active_mode, home))

=============================================================================
