-------------------------- MODULE SwerveController --------------------------
(***************************************************************************)
(* RP1SwerveController: its lifecycle, its two subscriptions and update(). *)
(*                                                                         *)
(* The controller manager's thread runs cycles: it reads the hardware      *)
(* states (ReadStates), calls update() when the controller is active       *)
(* (GetCommand, then FinishUpdate) and hands the command interfaces to the *)
(* hardware.  The executor's thread runs the ~/cmd_vel and ~/mode          *)
(* callbacks (ReceiveCmdVel, ReceiveMode) at any moment, also between      *)
(* update()'s read of the command box and its load of mode_: update() is   *)
(* two steps for that reason.  Lifecycle transitions run between cycles.   *)
(*                                                                         *)
(* Time is counted in ticks; a command carries its age, a cycle its        *)
(* period.  Steering angles are taken modulo a full turn here: what their  *)
(* winding adds is SwerveSteering's subject.  The measured body twist is   *)
(* reduced to is_stopped's answer, free at every cycle; SwerveRobot closes *)
(* that loop with wheels.  Odometry integration and publishing are left    *)
(* out: nothing here depends on them.                                      *)
(***************************************************************************)
EXTENDS SwerveKinematics

CONSTANTS
    NoCmd,          \* a null command pointer
    CommandTwists,  \* twists a publisher sends
    RawModes,       \* values a publisher puts on ~/mode, known or not
    Readings,       \* what the home sensors may read in one cycle
    Periods,        \* lengths of a control cycle, in ticks
    Timeout,        \* cmd_vel_timeout
    Skew,           \* bound: how far in the future a stamp may lie
    LinearStep,     \* mode_switch_linear_deceleration times one tick
    AngularStep,    \* mode_switch_angular_deceleration times one tick
    BrakeAvailable, \* steering_brake_available_
    MaxMissed,      \* bound: set_value() calls that fail in one cycle
    SilenceCap      \* bound: where the silence counter stops

Expired == Timeout + 1   \* the ages past the timeout are one
Interfaces == {"drive", "steer", "seek", "brake"}
Handles == Interfaces \X Corners
Seeks == {"none", "seek_0", "seek_90"}

Stamped == [twist : CommandTwists, age : -Skew .. Expired]
Boxes   == {NoCmd} \cup Stamped

ASSUME ControllerAssumption ==
    /\ NoCmd \notin CommandTwists /\ NoCmd \notin Stamped
    /\ CommandTwists \subseteq Twist /\ CommandTwists # {}
    /\ "FULL_SWERVE" \in RawModes
    /\ Readings # {} /\ Readings \subseteq [deg0 : SUBSET Corners, deg90 : SUBSET Corners]
    /\ Periods \subseteq Nat \ {0} /\ Periods # {}
    /\ Timeout \in Nat /\ Skew \in Nat
    /\ LinearStep \in Nat \ {0} /\ AngularStep \in Nat \ {0}
    /\ BrakeAvailable \in BOOLEAN
    /\ MaxMissed \in Nat /\ SilenceCap \in Nat
    /\ LET quiet == SilenceCap - (Timeout + Skew)
       IN  LinearStep * quiet >= MaxLinear /\ AngularStep * quiet >= MaxAngular

VARIABLES
    lifecycle,            \* the lifecycle node's state
    pc,                   \* where the current control cycle is
    input_cmd_vel,        \* the command box: NoCmd or [twist, age]
    mode,                 \* mode_, the raw value last received
    active_mode,
    mode_switch_ramping,
    ramp,                 \* ramp_vx_, ramp_vy_, ramp_wz_
    last_steering_angle,
    cmd_vel,              \* update()'s local copy: NoCmd or a twist
    period,               \* length of the current cycle
    home, stopped,        \* state interfaces, as read this cycle
    drive, steer, seek, brake,  \* command interfaces
    missed,               \* handles whose last set_value() failed
    silence               \* ticks of control since the last ~/cmd_vel

inputs     == <<input_cmd_vel, mode>>
modeState  == <<active_mode, mode_switch_ramping, ramp>>
states     == <<home, stopped>>
interfaces == <<drive, steer, seek, brake, missed>>
vars == <<lifecycle, pc, inputs, modeState, last_steering_angle, cmd_vel,
          period, states, interfaces, silence>>

-----------------------------------------------------------------------------
Least(a, b)    == IF a <= b THEN a ELSE b
Greatest(a, b) == IF a >= b THEN a ELSE b

(* Mutant: an unknown mode is passed through. *)
ValidateModeUnchecked(raw) == raw

ValidateMode(raw) == IF raw \in Modes THEN raw ELSE "FULL_SWERVE"

(* Mutant: a received command never ages out. *)
StaleUntimed(box) == box = NoCmd

Stale(box) == box = NoCmd \/ box.age > Timeout

Older(box, ticks) ==
    IF box = NoCmd THEN NoCmd
    ELSE [box EXCEPT !.age = Least(box.age + ticks, Expired)]

(* decelerate_toward_zero, on one axis and on the ramp. *)
Toward0(value, step) == IF value > 0 THEN Greatest(0, value - step)
                                     ELSE Least(0, value + step)

Decelerate(twist, ticks) == [vx |-> Toward0(twist.vx, LinearStep * ticks),
                             vy |-> Toward0(twist.vy, LinearStep * ticks),
                             wz |-> Toward0(twist.wz, AngularStep * ticks)]

(* One set_value() per command interface: a handle in lost keeps its value *)
(* and only logs a warning; an interface that does not exist is not        *)
(* written.                                                                *)
Written(interface, old, new, lost) ==
    [c \in Corners |-> IF <<interface, c>> \in lost THEN old[c] ELSE new[c]]

Exists(interface) == /\ interface = "seek" => SensorsAvailable
                     /\ interface = "brake" => BrakeAvailable

-----------------------------------------------------------------------------
Init ==
    /\ lifecycle = "unconfigured" /\ pc = "idle"
    /\ input_cmd_vel = NoCmd /\ mode = "FULL_SWERVE"
    /\ active_mode = "FULL_SWERVE" /\ mode_switch_ramping = FALSE /\ ramp = Zero
    /\ last_steering_angle = [c \in Corners |-> 0]
    /\ cmd_vel = NoCmd /\ period \in Periods
    /\ home \in Readings /\ stopped = TRUE
    /\ drive = [c \in Corners |-> 0] /\ steer = [c \in Corners |-> 0]
    /\ seek = [c \in Corners |-> "none"] /\ brake = [c \in Corners |-> FALSE]
    /\ missed = {} /\ silence = 0

BetweenCycles == pc \in {"idle", "written"}

(* on_configure: forgets the command, the modes and the ramp, but neither  *)
(* the steering angles nor what the command interfaces hold.               *)
OnConfigure ==
    /\ lifecycle = "unconfigured" /\ BetweenCycles
    /\ lifecycle' = "inactive" /\ pc' = "idle"
    /\ input_cmd_vel' = NoCmd /\ mode' = "FULL_SWERVE"
    /\ active_mode' = "FULL_SWERVE" /\ mode_switch_ramping' = FALSE
    /\ ramp' = Zero
    /\ UNCHANGED <<last_steering_angle, cmd_vel, period, states, interfaces, silence>>

(* on_activate finds the interfaces again; on_deactivate only drops them:  *)
(* commands, modes and ramp stay as they were.                             *)
OnActivate ==
    /\ lifecycle = "inactive" /\ BetweenCycles
    /\ lifecycle' = "active" /\ pc' = "idle"
    /\ UNCHANGED <<inputs, modeState, last_steering_angle, cmd_vel, period,
                   states, interfaces, silence>>

OnDeactivate ==
    /\ lifecycle = "active" /\ BetweenCycles
    /\ lifecycle' = "inactive" /\ pc' = "idle"
    /\ UNCHANGED <<inputs, modeState, last_steering_angle, cmd_vel, period,
                   states, interfaces, silence>>

(* The node's default on_cleanup. *)
OnCleanup ==
    /\ lifecycle = "inactive" /\ BetweenCycles
    /\ lifecycle' = "unconfigured" /\ pc' = "idle"
    /\ UNCHANGED <<inputs, modeState, last_steering_angle, cmd_vel, period,
                   states, interfaces, silence>>

-----------------------------------------------------------------------------
(* The ~/cmd_vel callback.  A stamped message may be late (any age) or     *)
(* ahead of the controller's clock (a negative one); an unstamped one is   *)
(* stamped on reception and has age 0.                                     *)
ReceiveCmdVel(twist, age) ==
    /\ lifecycle # "unconfigured"
    /\ input_cmd_vel' = [twist |-> twist, age |-> age]
    /\ silence' = 0
    /\ UNCHANGED <<lifecycle, pc, mode, modeState, last_steering_angle,
                   cmd_vel, period, states, interfaces>>

ReceiveMode(raw) ==
    /\ lifecycle # "unconfigured"
    /\ mode' = raw
    /\ UNCHANGED <<lifecycle, pc, input_cmd_vel, modeState, last_steering_angle,
                   cmd_vel, period, states, interfaces, silence>>

(* The hardware's read() at the start of a cycle; time has passed.         *)
ReadStates(ticks, reading, still) ==
    /\ BetweenCycles
    /\ pc' = IF lifecycle = "active" THEN "get" ELSE "idle"
    /\ period' = ticks
    /\ input_cmd_vel' = Older(input_cmd_vel, ticks)
    /\ silence' = IF lifecycle = "active" THEN Least(silence + ticks, SilenceCap)
                                          ELSE silence
    /\ home' = reading /\ stopped' = still
    /\ UNCHANGED <<lifecycle, mode, modeState, last_steering_angle, cmd_vel, interfaces>>

(* update(), first part: copy the box under its lock, drop a stale copy.   *)
GetCommand ==
    /\ pc = "get"
    /\ pc' = "finish"
    /\ cmd_vel' = IF Stale(input_cmd_vel) THEN NoCmd ELSE input_cmd_vel.twist
    /\ UNCHANGED <<lifecycle, inputs, modeState, last_steering_angle, period,
                   states, interfaces, silence>>

(* update(), the rest: commit the requested mode if the chassis stands,    *)
(* otherwise ramp down; then command every corner.                         *)
CommittedAtOnce == ValidateMode(mode)   \* Mutant: a moving chassis does not matter
Committed == IF stopped THEN ValidateMode(mode) ELSE active_mode
Pending   == ValidateMode(mode) # Committed
Received  == IF cmd_vel = NoCmd THEN Zero ELSE cmd_vel
Seed      == IF mode_switch_ramping THEN ramp ELSE Received
Ramped    == IF Pending THEN Decelerate(Seed, period) ELSE ramp
EffectiveUnramped == Received  \* Mutant: the command passes while a switch is pending
Effective == IF Pending THEN Ramped ELSE Received

FinishUpdate(tie, lost) ==
    LET commands == ComputeCornerCommands(Committed, Effective, home,
                                          last_steering_angle, tie)
    IN  /\ pc = "finish"
        /\ pc' = "written"
        /\ active_mode' = Committed
        /\ mode_switch_ramping' = Pending
        /\ ramp' = Ramped
        /\ last_steering_angle' = [c \in Corners |-> commands[c].angle % Turn]
        /\ drive' = Written("drive", drive, [c \in Corners |-> commands[c].speed], lost)
        /\ steer' = Written("steer", steer, last_steering_angle', lost)
        /\ seek' = IF Exists("seek")
                   THEN Written("seek", seek, [c \in Corners |-> commands[c].seek], lost)
                   ELSE seek
        /\ brake' = IF Exists("brake")
                    THEN Written("brake", brake, [c \in Corners |-> commands[c].brake], lost)
                    ELSE brake
        /\ missed' = lost
        /\ UNCHANGED <<lifecycle, inputs, cmd_vel, period, states, silence>>

-----------------------------------------------------------------------------
Writable == { h \in Handles : Exists(h[1]) }

(* Every set of at most MaxMissed handles. *)
LossSets == { {} } \cup { Range(f) : f \in [1 .. MaxMissed -> Writable] }

Lifecycle == OnConfigure \/ OnActivate \/ OnDeactivate \/ OnCleanup

Callbacks == \/ \E twist \in CommandTwists, age \in -Skew .. Expired :
                   ReceiveCmdVel(twist, age)
             \/ \E raw \in RawModes : ReceiveMode(raw)

Cycle == \/ \E ticks \in Periods, reading \in Readings, still \in BOOLEAN :
               ReadStates(ticks, reading, still)
         \/ GetCommand
         \/ \E tie \in {-1, 1}, lost \in LossSets : FinishUpdate(tie, lost)

Next == Lifecycle \/ Callbacks \/ Cycle

Spec == Init /\ [][Next]_vars

-----------------------------------------------------------------------------
(* Type invariant of the controller's members, its interfaces and the      *)
(* cycle's locals.                                                         *)
TypeOK ==
    /\ lifecycle \in {"unconfigured", "inactive", "active"}
    /\ pc \in {"idle", "get", "finish", "written"}
    /\ input_cmd_vel \in Boxes
    /\ mode \in RawModes
    /\ active_mode \in Modes
    /\ mode_switch_ramping \in BOOLEAN
    /\ ramp \in Twist
    /\ last_steering_angle \in [Corners -> Headings]
    /\ cmd_vel \in {NoCmd} \cup CommandTwists
    /\ period \in Periods
    /\ home \in Readings
    /\ stopped \in BOOLEAN
    /\ drive \in [Corners -> -Reach .. Reach]
    /\ steer \in [Corners -> Headings]
    /\ seek \in [Corners -> Seeks]
    /\ brake \in [Corners -> BOOLEAN]
    /\ missed \subseteq Handles
    /\ silence \in 0 .. SilenceCap

Ok(interface, c) == <<interface, c>> \notin missed

(* The homing gate (cpp:559-567, hpp "Homing gate"): when update() ends    *)
(* with some corner locked to a reference its sensor does not confirm, no  *)
(* wheel anywhere on the chassis is left turning, unless the write of that *)
(* very wheel's command failed in this cycle.                              *)
HomingHoldsChassis ==
    pc = "written" /\ AnyPendingHome(active_mode, home)
        => \A c \in Corners : Ok("drive", c) => drive[c] = 0

(* The steering brake (hpp "Steering-hold brake"): an engaged brake means  *)
(* that the corner is locked by the active mode, stands on its reference   *)
(* by its own sensor, is commanded to exactly that reference and is not    *)
(* asked to seek.                                                          *)
BrakeOnlyOnReference ==
    pc = "written" =>
        \A c \in Corners :
           brake[c] /\ (\A i \in Interfaces : Ok(i, c)) =>
              /\ Locked(active_mode, c) /\ Confirmed(active_mode, c, home)
              /\ steer[c] = LockedAngle(active_mode)
              /\ seek[c] = "none"

(* A wheel moves only on someone's authority: a command younger than the   *)
(* timeout, or a ramp that has not reached zero.  With the control loop    *)
(* running and nothing received, the ramp gives out in bounded time: after *)
(* the timeout and as many ticks as the steps need to exhaust the largest  *)
(* command, every drive command is zero -- whatever modes were requested,  *)
(* however often the switch was abandoned and requested again, and however *)
(* often the controller was deactivated in between.                        *)
SilenceStops ==
    /\ pc = "written"
    /\ LET quiet == silence - (Timeout + Skew)
       IN  /\ quiet > 0
           /\ LinearStep * quiet >= MaxLinear
           /\ AngularStep * quiet >= MaxAngular
    => \A c \in Corners : Ok("drive", c) => drive[c] = 0

(* The controller keeps the promise of ModeSwitch, with everything that    *)
(* goes on around it: requests that change in the middle of an update, a   *)
(* command that is dropped or gets through, writes that fail, and          *)
(* lifecycle transitions that keep the ramp.                               *)
Switch == INSTANCE ModeSwitch WITH Default <- "FULL_SWERVE", ramping <- mode_switch_ramping

SwitchesAsPromised == Switch!Spec

=============================================================================
