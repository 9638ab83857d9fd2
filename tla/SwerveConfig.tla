---------------------------- MODULE SwerveConfig ----------------------------
(***************************************************************************)
(* How RP1SwerveController gets its parameters and its interfaces: on_init *)
(* validates the parameters, command_/state_interface_configuration name   *)
(* the interfaces to claim, and on_activate looks the claimed ones up by   *)
(* name and keeps references, which update() then indexes by corner.       *)
(*                                                                         *)
(* The resource manager is not in this repository; rp1_swerve_controller   *)
(* .hpp:88-91 relies on it to refuse the activation of a controller that   *)
(* names an interface no hardware exports, and it lends a command          *)
(* interface to one borrower at a time.  What is lent is lent for one      *)
(* activation: a loan carries its number.                                  *)
(***************************************************************************)
EXTENDS Integers, Sequences, SequencesExt

CONSTANTS
    NumCorners,      \* NUM_CORNERS
    CornerNames,     \* the names two_wheel_steered_corners may list
    MaxActivations   \* bound: how often the controller is activated

VARIABLES
    stage,        \* the lifecycle state, or "rejected" by on_init
    params,       \* the parameters given
    two_wheel_steered,
    available,    \* the interfaces the hardware exports: [command, state]
    loans,        \* the interfaces lent to the controller: [command, state]
    bound,        \* the vectors of references, by the interface they hold
    activations

vars == <<stage, params, two_wheel_steered, available, loans, bound, activations>>

-----------------------------------------------------------------------------
(* on_init's checks.  The numbers are reduced to what is compared with 0;  *)
(* geometry stands for half_wheelbase, half_track and wheel_radius and     *)
(* deceleration for both rates, as the least of them.                      *)
Valid(p) ==
    /\ Len(p.drive) = NumCorners /\ Len(p.steering) = NumCorners
    /\ Len(p.sensors) = NumCorners
    /\ p.geometry > 0
    /\ p.tolerance >= 0
    /\ p.deceleration > 0
    /\ p.timeout > 0
    /\ Len(p.steered) = 2
    /\ ToSet(p.steered) \subseteq CornerNames

On(names, interface) == { <<n, interface>> : n \in ToSet(names) }

Optional(flag, set) == IF flag THEN set ELSE {}

(* Mutant: the brake is looked up but not named. *)
DeclaredCommandsUnbraked(p) ==
    On(p.drive, "velocity") \cup On(p.steering, "position")
      \cup Optional(p.homing, On(p.steering, "seek_home"))

DeclaredCommands(p) ==
    On(p.drive, "velocity") \cup On(p.steering, "position")
      \cup Optional(p.homing, On(p.steering, "seek_home"))
      \cup Optional(p.braking, On(p.steering, "brake"))

DeclaredStates(p) ==
    On(p.drive, "velocity") \cup On(p.steering, "position")
      \cup Optional(p.homing, On(p.sensors, "home_0deg") \cup On(p.sensors, "home_90deg"))

ClaimedOnce(p) == IsInjective(p.drive) /\ IsInjective(p.steering)

(* The references to the interfaces of names, up to the first that is not  *)
(* among the lent ones; wanted FALSE leaves the vector empty.              *)
Found(names, interface, lent, wanted) ==
    LET missing == { i \in DOMAIN names :
                        ~ \E loan \in lent : loan.id = <<names[i], interface>> }
        count   == IF ~wanted THEN 0 ELSE
                   IF missing = {} THEN Len(names)
                   ELSE (CHOOSE i \in missing : \A j \in missing : i <= j) - 1
    IN  [i \in 1 .. count |->
           CHOOSE loan \in lent : loan.id = <<names[i], interface>>]

Vectors == {"drive_velocity_command", "steering_position_command",
            "steering_seek_home_command", "steering_brake_command",
            "drive_velocity_state", "steering_position_state",
            "steering_home_0deg_state", "steering_home_90deg_state"}

Cleared == [v \in Vectors |-> <<>>]

LookedUpTwice(p, lent) ==   \* Mutant: home_0deg is looked up in the place of home_90deg
    [drive_velocity_command     |-> Found(p.drive, "velocity", lent.command, TRUE),
     steering_position_command  |-> Found(p.steering, "position", lent.command, TRUE),
     steering_seek_home_command |-> Found(p.steering, "seek_home", lent.command, p.homing),
     steering_brake_command     |-> Found(p.steering, "brake", lent.command, p.braking),
     drive_velocity_state       |-> Found(p.drive, "velocity", lent.state, TRUE),
     steering_position_state    |-> Found(p.steering, "position", lent.state, TRUE),
     steering_home_0deg_state   |-> Found(p.sensors, "home_0deg", lent.state, p.homing),
     steering_home_90deg_state  |-> Found(p.sensors, "home_0deg", lent.state, p.homing)]

LookedUp(p, lent) ==
    [drive_velocity_command     |-> Found(p.drive, "velocity", lent.command, TRUE),
     steering_position_command  |-> Found(p.steering, "position", lent.command, TRUE),
     steering_seek_home_command |-> Found(p.steering, "seek_home", lent.command, p.homing),
     steering_brake_command     |-> Found(p.steering, "brake", lent.command, p.braking),
     drive_velocity_state       |-> Found(p.drive, "velocity", lent.state, TRUE),
     steering_position_state    |-> Found(p.steering, "position", lent.state, TRUE),
     steering_home_0deg_state   |-> Found(p.sensors, "home_0deg", lent.state, p.homing),
     steering_home_90deg_state  |-> Found(p.sensors, "home_90deg", lent.state, p.homing)]

(* Which vectors update() indexes for every corner. *)
Used(p) == { v \in Vectors :
    /\ v \in {"steering_seek_home_command", "steering_home_0deg_state",
              "steering_home_90deg_state"} => p.homing
    /\ v = "steering_brake_command" => p.braking }

-----------------------------------------------------------------------------
NoInterfaces == [command |-> {}, state |-> {}]

(* Before on_init, of a controller that is given params. *)
Init ==
    /\ stage = "created"
    /\ two_wheel_steered = {}
    /\ available = NoInterfaces /\ loans = NoInterfaces /\ bound = Cleared
    /\ activations = 0

OnInit ==
    /\ stage = "created"
    /\ stage' = IF Valid(params) THEN "inactive" ELSE "rejected"
    /\ two_wheel_steered' = IF Valid(params) THEN ToSet(params.steered) ELSE {}
    /\ UNCHANGED <<params, available, loans, bound, activations>>

(* The resource manager has loaded a hardware. *)
Export(interfaces) ==
    /\ available' = interfaces
    /\ UNCHANGED <<stage, params, two_wheel_steered, loans, bound, activations>>

(* It lends what is named if all of it is there.  A command interface that *)
(* is named twice would be claimed twice.                                  *)
Granted ==
    /\ DeclaredCommands(params) \subseteq available.command
    /\ DeclaredStates(params) \subseteq available.state
    /\ ClaimedOnce(params)

Lend(declared, number) == { [id |-> id, number |-> number] : id \in declared }

(* The resource manager lends what was named, or refuses; then on_activate *)
(* clears the vectors of an earlier activation and fills them again.  The  *)
(* node is left in "error" when a look-up finds nothing.                   *)
OnActivate ==
    /\ stage = "inactive" /\ activations < MaxActivations
    /\ Granted
    /\ activations' = activations + 1
    /\ loans' = [command |-> Lend(DeclaredCommands(params), activations'),
                 state   |-> Lend(DeclaredStates(params), activations')]
    /\ bound' = LookedUp(params, loans')
    /\ stage' = IF \A v \in Used(params) : Len(bound'[v]) = NumCorners
                THEN "active" ELSE "error"
    /\ UNCHANGED <<params, two_wheel_steered, available>>

(* on_deactivate drops the references before the loans are given back.     *)
OnDeactivateKeeping ==   \* Mutant: the references are kept
    /\ stage = "active"
    /\ stage' = "inactive"
    /\ loans' = NoInterfaces
    /\ UNCHANGED <<params, two_wheel_steered, available, bound, activations>>

OnDeactivate ==
    /\ stage = "active"
    /\ stage' = "inactive"
    /\ bound' = Cleared /\ loans' = NoInterfaces
    /\ UNCHANGED <<params, two_wheel_steered, available, activations>>

-----------------------------------------------------------------------------
Lent == loans.command \cup loans.state

(* Declaring and looking up agree: a controller whose parameters passed    *)
(* on_init and whose interfaces were all lent never fails to find one      *)
(* (cpp:153-206 against cpp:247-397), with or without sensors and brakes.  *)
GrantedMeansFound == stage # "error"

(* update() indexes its vectors by corner without a check.  While it may   *)
(* run each of them has one reference per corner, to the interface of that *)
(* corner's own joint or sensor, lent for this activation; and no two      *)
(* corners write to the same interface.  Nothing is left of an earlier     *)
(* activation.                                                             *)
Own(i) == [drive_velocity_command     |-> <<params.drive[i], "velocity">>,
           steering_position_command  |-> <<params.steering[i], "position">>,
           steering_seek_home_command |-> <<params.steering[i], "seek_home">>,
           steering_brake_command     |-> <<params.steering[i], "brake">>,
           drive_velocity_state       |-> <<params.drive[i], "velocity">>,
           steering_position_state    |-> <<params.steering[i], "position">>,
           steering_home_0deg_state   |-> <<params.sensors[i], "home_0deg">>,
           steering_home_90deg_state  |-> <<params.sensors[i], "home_90deg">>]

CommandVectors == {"drive_velocity_command", "steering_position_command",
                   "steering_seek_home_command", "steering_brake_command"}

EveryCornerBound ==
    stage = "active" =>
       /\ \A v \in Used(params) :
             /\ Len(bound[v]) = NumCorners
             /\ \A i \in 1 .. NumCorners :
                   bound[v][i] = [id |-> Own(i)[v], number |-> activations]
       /\ \A v \in CommandVectors : IsInjective(bound[v])

(* No reference outlives its loan, in whatever state the lifecycle is.     *)
NothingDangles == \A v \in Vectors : ToSet(bound[v]) \subseteq Lent

=============================================================================
