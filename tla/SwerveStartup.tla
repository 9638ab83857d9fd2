---------------------------- MODULE SwerveStartup ----------------------------
(***************************************************************************)
(* A launch file and the swerve controller it brings up: Bringup with the  *)
(* life of RP1SwerveController (SwerveConfig) inside.  What the hardware   *)
(* exports follows from the description that the launch file has made of   *)
(* the file on disk; what the controller names follows from its parameter  *)
(* files, to which one tier adds another; and whether its spawner succeeds *)
(* is no longer a choice but what on_init and on_activate come to.         *)
(*                                                                         *)
(* The controller manager is external: it loads and activates what it is   *)
(* asked to, on behalf of the spawner and later of anybody else.           *)
(***************************************************************************)
EXTENDS Bringup

CONSTANTS
    NumCorners, CornerNames, MaxActivations,
    Configurations   \* the parameters that rp1_swerve_controllers.yaml may give

(* The parameters by their declared types; what their values may be is for *)
(* on_init to find out.                                                    *)
ParameterTypes ==
    [drive : Seq(STRING), steering : Seq(STRING), sensors : Seq(STRING), steered : Seq(STRING),
     homing : BOOLEAN, braking : BOOLEAN,
     geometry : Int, tolerance : Int, deceleration : Int, timeout : Int]

ASSUME StartupAssumption ==
    /\ NumCorners \in Nat \ {0} /\ MaxActivations \in Nat \ {0}
    /\ \A p \in Configurations : p \in ParameterTypes

VARIABLES lifecycle, params, two_wheel_steered, available, loans, bound, activations

controller == <<lifecycle, params, two_wheel_steered, available, loans, bound, activations>>

Controller == INSTANCE SwerveConfig WITH stage <- lifecycle

-----------------------------------------------------------------------------
(* The mock and the DroneCAN system export what the description declares,  *)
(* Gazebo's only the interfaces a simulated joint has.                     *)
Exported(interfaces) ==
    IF Description.plugin = "GazeboSimSystem"
    THEN { i \in interfaces : i[2] \in {"velocity", "position", "effort"} }
    ELSE interfaces

OverlaidNever(p) == p   \* Mutant: the second --param-file is left out

(* A later --param-file wins: rp1_swerve_gazebo_overrides.yaml.            *)
Overlaid(p) ==
    IF launch = "rp1_swerve_gazebo" THEN [p EXCEPT !.homing = FALSE, !.braking = FALSE] ELSE p

StartupInit ==
    /\ Init
    /\ Controller!Init
    /\ \E p \in Configurations : params = Overlaid(p)

StartupLoadHardware ==
    /\ LoadHardware
    /\ Controller!Export([command |-> Exported(urdf.interfaces.command),
                          state |-> Exported(urdf.interfaces.state)])

OtherSpawnerExits ==
    /\ \E c \in running \ {"rp1_swerve_controller"}, activated \in BOOLEAN :
          SpawnerExits(c, activated)
    /\ UNCHANGED controller

Spawning == "rp1_swerve_controller" \in running /\ hardware # "none"

Load == Spawning /\ Controller!OnInit /\ UNCHANGED vars

Activate == Controller!OnActivate /\ UNCHANGED vars

(* The spawner gives up on a controller that was not loaded, or that the   *)
(* resource manager or on_activate refuses.                                *)
SwerveSpawnerExits ==
    /\ \/ lifecycle \in {"rejected", "error", "active"}
       \/ lifecycle = "inactive" /\ ~Controller!Granted
    /\ SpawnerExits("rp1_swerve_controller", lifecycle = "active")
    /\ UNCHANGED controller

(* Somebody switches the controller off, and may switch it on again.       *)
Deactivate == ~Spawning /\ Controller!OnDeactivate /\ UNCHANGED vars

LaunchStep == (Describe \/ TimerFires \/ OnExit) /\ UNCHANGED controller

Next == \/ LaunchStep \/ StartupLoadHardware \/ OtherSpawnerExits
        \/ Load \/ Activate \/ SwerveSpawnerExits \/ Deactivate

Spec == StartupInit /\ [][Next]_<<vars, controller>>

(* The processes get to run and launch handles its events.                 *)
FairSpec ==
    /\ Spec
    /\ WF_<<vars, controller>>(LaunchStep)
    /\ WF_<<vars, controller>>(StartupLoadHardware)
    /\ WF_<<vars, controller>>(OtherSpawnerExits \/ SwerveSpawnerExits)
    /\ WF_<<vars, controller>>(Load) /\ WF_<<vars, controller>>(Spawning /\ Activate)

-----------------------------------------------------------------------------
(* Declaring and looking up agree (SwerveConfig).                          *)
GrantedMeansFound == Controller!GrantedMeansFound

(* update() finds a reference for every corner (SwerveConfig).             *)
EveryCornerBound == Controller!EveryCornerBound

(* No reference outlives its loan (SwerveConfig).                          *)
NothingDangles == Controller!NothingDangles

(* Every tier brings the controller up: when on_init accepts the           *)
(* parameters and all they name is declared in the description, it becomes *)
(* active, on the hardware that exports less than is declared too          *)
(* (rp1_swerve_gazebo_overrides.yaml:4-10).                                *)
Complete ==
    /\ Controller!Valid(params) /\ Controller!ClaimedOnce(params)
    /\ Controller!DeclaredCommands(params) \subseteq urdf.interfaces.command
    /\ Controller!DeclaredStates(params) \subseteq urdf.interfaces.state

SwerveComesUp ==
    "rp1_swerve_controller" \in ToSet(file.chain) /\ ~Refused /\ Complete
       => <>(lifecycle = "active")

=============================================================================
