-------------------------------- MODULE Bringup --------------------------------
(***************************************************************************)
(* The launch files of rp1_bringup, as the state machines they set up: a   *)
(* launch file edits the robot description for its tier and refuses to     *)
(* start when there is nothing to edit, waits for a timer and then starts  *)
(* controller spawners, each when the one before has exited.               *)
(*                                                                         *)
(* launch, controller_manager and its spawner are not in this repository:  *)
(* a spawner waits until the controller manager serves it, and then exits, *)
(* with its controller active or, when that failed, without.  The other    *)
(* nodes a launch file starts (teleop, rviz, sensors) are left out.        *)
(***************************************************************************)
EXTENDS Integers, Sequences, FiniteSets, SequencesExt

CONSTANTS
    Launches,   \* the launch files looked at
    Urdfs       \* robot descriptions as they may be found on disk

Corners == {"front_left", "front_right", "rear_left", "rear_right"}

(* FRONT_IS_PRESETS. *)
Presets == [right |-> [front_left |-> 2, front_right |-> 4, rear_left |-> 1, rear_right |-> 3],
            front |-> [front_left |-> 1, front_right |-> 2, rear_left |-> 3, rear_right |-> 4]]

(* The driver of the CAN bus, under its name and under another one.        *)
RealHardware == {"VescDroneCanSystem", "RenamedSystem"}

(* The places in a description that launch files look for; "<plugin>" is   *)
(* the tag without attributes that they match.                             *)
Places == {"<plugin>", "can_iface", "PARAMS_FILE_PLACEHOLDER", "</robot>"}

(* A description on disk: the hardware plugin it names, which places are   *)
(* there, and the esc_index of each corner's joint and gpio, 0 where the   *)
(* tag is missing; interfaces are what it declares.                        *)
IsUrdf(u) ==
    /\ u.plugin \in RealHardware /\ u.places \subseteq Places
    /\ u.joint \in [Corners -> 0 .. 4] /\ u.gpio \in [Corners -> 0 .. 4]
    /\ DOMAIN u.interfaces = {"command", "state"}

ASSUME BringupAssumption == \A u \in Urdfs : IsUrdf(u)

VARIABLES
    launch, args,   \* the launch file and its arguments
    urdf,           \* the description on disk
    stage,          \* "starting", "refused", or "up" with the description latched
    hardware,       \* the plugin the controller manager has loaded, or "none"
    timer,          \* the TimerAction is still to fire
    running,        \* spawner processes
    exited,         \* exits the launch system has yet to handle
    done            \* spawners whose exit has been handled

vars == <<launch, args, urdf, stage, hardware, timer, running, exited, done>>
spawning == <<timer, running, exited, done>>

-----------------------------------------------------------------------------
File(plugin, edits, chain) == [plugin |-> plugin, edits |-> edits, chain |-> chain]

RP1Mvp == File("mock", {"can_iface", "esc_index"},
    <<"joint_state_broadcaster", "diff_drive_controller", "esc_telemetry_broadcaster">>)

DiffDrive == <<"joint_state_broadcaster", "diff_drive_controller">>

RP1MvpElrs == File("as it is", {}, DiffDrive)
RP1Gazebo  == File("GazeboSimSystem", {"<plugin>", "</robot>"}, DiffDrive)

Swerve == <<"joint_state_broadcaster", "rp1_swerve_controller">>

RP1SwerveMock     == File("mock", {"<plugin>"}, Swerve)
RP1SwerveDronecan == File("as it is", {"can_iface"}, Swerve)
RP1SwerveGazebo   == File("GazeboSimSystem", {"plugin by name", "PARAMS_FILE_PLACEHOLDER"}, Swerve)
SteeringBench     == File("as it is", {},
    <<"joint_state_broadcaster", "steering_position_controller">>)

Files == [rp1_mvp |-> RP1Mvp, rp1_mvp_elrs |-> RP1MvpElrs, rp1_gazebo |-> RP1Gazebo,
          rp1_swerve_mock |-> RP1SwerveMock, rp1_swerve_dronecan |-> RP1SwerveDronecan,
          rp1_swerve_gazebo |-> RP1SwerveGazebo, steering_bench |-> SteeringBench]

ASSUME LaunchAssumption == Launches \subseteq DOMAIN Files

file == Files[launch]

(* Of the launch arguments those that change the description; only rp1_mvp *)
(* has them.                                                               *)
Arguments == [use_mock : BOOLEAN, front_is : {"right", "front", "left"}]
Defaults == [use_mock |-> FALSE, front_is |-> "right"]

-----------------------------------------------------------------------------
(* _robot_description: one edit after the other, each with its check;      *)
(* esc_index is for every corner, in both places, and for a known front_is.*)
Edits == file.edits \cup (IF launch = "rp1_mvp" /\ args.use_mock THEN {"<plugin>"} ELSE {})

Matches(edit) ==
    CASE edit = "plugin by name" ->
            "<plugin>" \in urdf.places /\ urdf.plugin = "VescDroneCanSystem"
      [] edit = "esc_index" ->
            /\ args.front_is \in DOMAIN Presets
            /\ \A c \in Corners : urdf.joint[c] # 0 /\ urdf.gpio[c] # 0
      [] OTHER -> edit \in urdf.places

Replaced(edit) == edit \in Edits /\ Matches(edit)
PluginReplaced == Replaced("<plugin>") \/ Replaced("plugin by name")

DescriptionJointsOnly ==   \* Mutant: the gpio blocks keep the esc_index on disk
    [plugin |-> IF PluginReplaced THEN file.plugin ELSE urdf.plugin,
     joint  |-> IF Replaced("esc_index") THEN Presets[args.front_is] ELSE urdf.joint,
     gpio   |-> urdf.gpio]

(* What the edits make of the text: one that matches nothing changes       *)
(* nothing.                                                                *)
Description ==
    [plugin |-> IF PluginReplaced THEN file.plugin ELSE urdf.plugin,
     joint  |-> IF Replaced("esc_index") THEN Presets[args.front_is] ELSE urdf.joint,
     gpio   |-> IF Replaced("esc_index") THEN Presets[args.front_is] ELSE urdf.gpio]

RefusedNever == FALSE   \* Mutant: the number of substitutions is not checked

(* A RuntimeError ends the launch.                                         *)
Refused == \E e \in Edits : ~Matches(e)

Init ==
    /\ launch \in Launches
    /\ args \in Arguments /\ (launch # "rp1_mvp" => args = Defaults)
    /\ urdf \in Urdfs
    /\ stage = "starting" /\ hardware = "none"
    /\ timer = TRUE
    /\ running = {} /\ exited = {} /\ done = {}

Describe ==
    /\ stage = "starting"
    /\ stage' = IF Refused THEN "refused" ELSE "up"
    /\ UNCHANGED <<launch, args, urdf, hardware, spawning>>

(* controller_manager takes the description from the topic, whenever it    *)
(* has come up.                                                            *)
LoadHardware ==
    /\ stage = "up" /\ hardware = "none"
    /\ hardware' = Description.plugin
    /\ UNCHANGED <<launch, args, urdf, stage, spawning>>

FirstTogether == ToSet(file.chain)   \* Mutant: all spawners are started by the timer

First == {Head(file.chain)}

TimerFires ==
    /\ stage = "up" /\ timer
    /\ timer' = FALSE
    /\ running' = running \cup First
    /\ UNCHANGED <<launch, args, urdf, stage, hardware, exited, done>>

(* The spawner of c exits, successful or not.                              *)
SpawnerExits(c, activated) ==
    /\ c \in running /\ hardware # "none"
    /\ running' = running \ {c}
    /\ exited' = exited \cup {[name |-> c, activated |-> activated]}
    /\ UNCHANGED <<launch, args, urdf, stage, hardware, timer, done>>

(* OnProcessExit: what is started when a spawner has exited, with whatever *)
(* code.                                                                   *)
Following(c) ==
    { file.chain[i + 1] : i \in { j \in 1 .. Len(file.chain) - 1 : file.chain[j] = c } }

OnExitIfActivated ==   \* Mutant: a failed spawner ends the chain
    \E e \in exited :
       /\ exited' = exited \ {e} /\ done' = done \cup {e.name}
       /\ running' = running \cup (IF e.activated THEN Following(e.name) ELSE {})
       /\ UNCHANGED <<launch, args, urdf, stage, hardware, timer>>

OnExit ==
    \E e \in exited :
       /\ exited' = exited \ {e} /\ done' = done \cup {e.name}
       /\ running' = running \cup Following(e.name)
       /\ UNCHANGED <<launch, args, urdf, stage, hardware, timer>>

-----------------------------------------------------------------------------
(* controller_manager hangs when two spawners call its services at once    *)
(* (rp1_mvp.launch.py:327-332): there is never more than one spawner.      *)
OneSpawnerAtATime == Cardinality(running) <= 1

(* The real hardware is driven only by a launch that was meant to: what    *)
(* the launch file cannot replace in the description makes it refuse to    *)
(* start, it never falls back on the CAN bus (rp1_mvp.launch.py:103-117).  *)
SimulationStaysOffTheBus ==
    launch \in {"rp1_gazebo", "rp1_swerve_mock", "rp1_swerve_gazebo"}
       \/ (launch = "rp1_mvp" /\ args.use_mock)
    => hardware \notin RealHardware

(* The esc_index of a corner's joint and of its telemetry are swapped      *)
(* together and follow front_is, whatever the file on disk has: the wheel  *)
(* that is driven is the wheel that is measured (rp1_mvp.launch.py:127-149). *)
CornersAgree ==
    launch = "rp1_mvp" /\ stage = "up" =>
       /\ Description.joint = Description.gpio
       /\ Description.joint = Presets[args.front_is]

(* The chain of spawners reaches its end, also behind one that fails.      *)
ChainCompletes == <>(stage = "refused" \/ done = ToSet(file.chain))

=============================================================================
