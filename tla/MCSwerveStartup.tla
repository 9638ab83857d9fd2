--------------------------- MODULE MCSwerveStartup ---------------------------
EXTENDS SwerveStartup

Everything == DOMAIN Files

MCCornerNames == {"front_left", "front_right", "rear_left", "rear_right"}

Drives   == <<"drive_1", "drive_2", "drive_3", "drive_4">>
Steering == <<"steer_1", "steer_2", "steer_3", "steer_4">>
Sensors  == <<"gpio_1", "gpio_2", "gpio_3", "gpio_4">>

Good == [drive |-> Drives, steering |-> Steering, sensors |-> Sensors,
         homing |-> TRUE, braking |-> TRUE,
         steered |-> <<"front_left", "front_right">>,
         geometry |-> 1, tolerance |-> 1, deceleration |-> 1, timeout |-> 1]

(* Lists of the right length, one name too short, and with a repeated      *)
(* name; every combination of the two flags; each number around zero.      *)
MCConfigurations ==
    { [Good EXCEPT !.homing = h, !.braking = b, !.drive = d, !.sensors = s] :
         h \in BOOLEAN, b \in BOOLEAN,
         d \in {Drives, [Drives EXCEPT ![2] = "drive_1"], Tail(Drives)},
         s \in {Sensors, [Sensors EXCEPT ![4] = "gpio_1"], Tail(Sensors)} }
    \cup { [Good EXCEPT !.steered = s] :
              s \in {<<"front_left", "front_left">>, <<"front_left">>,
                     <<"front_right", "middle">>, <<"front_right", "front_left">>} }
    \cup { [Good EXCEPT !.geometry = n] : n \in -1 .. 1 }
    \cup { [Good EXCEPT !.tolerance = n] : n \in -1 .. 1 }
    \cup { [Good EXCEPT !.deceleration = n] : n \in -1 .. 1 }
    \cup { [Good EXCEPT !.timeout = n] : n \in -1 .. 1 }

Joints(interfaces) == (ToSet(Drives) \cup ToSet(Steering)) \X interfaces
Gpios == ToSet(Sensors) \X {"home_0deg", "home_90deg"}

Declared ==
    [command |-> Joints({"velocity", "position", "seek_home", "brake"}),
     state   |-> Joints({"velocity", "position"}) \cup Gpios]

(* The description of the repository, and ones that an edit of the file    *)
(* could leave behind: the plugin renamed, or in a tag with attributes, no *)
(* place for the interface, a gpio block whose esc_index no longer         *)
(* matches, corners numbered in another way, no proximity sensors.         *)
OnDisk == [plugin |-> "VescDroneCanSystem", places |-> Places, interfaces |-> Declared,
           joint |-> Presets.right, gpio |-> Presets.right]

MCUrdfs == {OnDisk, [OnDisk EXCEPT !.plugin = "RenamedSystem"],
            [OnDisk EXCEPT !.places = Places \ {"<plugin>"}],
            [OnDisk EXCEPT !.places = Places \ {"can_iface"}],
            [OnDisk EXCEPT !.gpio["rear_left"] = 0], [OnDisk EXCEPT !.gpio = Presets.front],
            [OnDisk EXCEPT !.interfaces.state = Joints({"velocity", "position"})]}
=============================================================================
