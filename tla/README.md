# A verification project for RP1

RP1 is a four-wheel robot on ROS 2: every corner has a driven wheel on a
steered axis, a VESC per motor on a DroneCAN bus, and a `ros2_control`
controller of its own, `RP1SwerveController`. This directory holds TLA+ modules
that model the program, the TLC configurations that check them on small
instances, and TLAPS proofs of the main properties for every instance.

Paths below are relative to `src/ros2_ws/src/`; `cpp` is
`rp1_swerve_controller/src/rp1_swerve_controller.cpp` and `hpp` its header.

## The system

| Component | State it keeps | Operations | Interacts with | What makes it correct |
|---|---|---|---|---|
| **Swerve controller** (`cpp`, `hpp`) | command box, raw and active mode, ramp, unwrapped steering angle per corner, odometry pose | `on_init`, `on_configure`, `on_activate`, `on_deactivate`, `~/cmd_vel` and `~/mode` callbacks, `update()` | publishers (executor thread), controller manager (control thread), hardware interfaces | a wheel only turns on a fresh command or a decaying ramp; a locked corner holds the whole chassis until its reference is confirmed; the brake never fights the servo; roles change at rest; every switch lands |
| **Teleop** (`rp1_teleop`) | last joy message and time | `_on_joy`, `_watchdog` | joy node, controller | no motion without the deadman button; a silent joystick stops the robot |
| **ESC telemetry to battery** (`rp1_elrs`) | last voltage and current per ESC | `_on_state`, `_tick` | driver and broadcaster, radio link | the reading follows the telemetry; missing ESCs do not distort it |
| **Swerve simulator** (`rp1_sim`) | commands with time stamps, steering angles, pose | callbacks, `_on_tick` | `rviz`, whoever publishes wheel and steering commands | stale speeds stop the robot; the axes get where they are told; the odometry reports the twist that was asked for |
| **IMU driver** (`rp1_imu`) | register bank of the chip, one-shot I2C master | configuration, `_poll` | chip | every access in the bank it means; never polled half configured |
| **Compass driver** (`rp1_compass`) | none but what the chip is doing | configuration, `_poll` | chip | whole samples, none twice, and always more of them |
| **Loopback test** (`src/simulation`) | simulator: wheels by index, their speed and target; checker: phase, velocities and voltages heard | command callback, status broadcast; tick, two subscriptions, phases | driver on `vcan0`, controller, broadcasters | a stack without a fault passes, one with a fault does not |
| **Bench tools** (`src/tools`) | GUI and `listen`: pairs seen, rows, nodes asked and answered; `pulse`: none | Status callback, refresh, GetNodeInfo; pulse and its `finally` | VESCs on the bench | the table is what is on the bus, ids belong to their nodes, a pulse ends at rest |
| **Launch files** (`rp1_bringup`) | the edited description, which spawner has exited | description edits, event handlers | controller manager, nodes | controllers are spawned one at a time, all of them; no simulation on real hardware; topics served, clocks agreed on |
| Drivers (`vesc_dronecan_driver`, `elrs_driver`) | not in this repository | | | assumed, see `SwerveRobot` |

The hard part of the program is the controller: two threads, a lifecycle that
forgets some of its state and not the rest, a mode switch gated on measured
motion, a ramp that takes the command away from its publisher, a homing gate
gated on sensors, and interface writes that may fail. `PROJECT.json` lists the
hazards at their lines.

## The modules

| Module | Models | Based on |
|---|---|---|
| `SwerveKinematics` | the arithmetic, no state: inverse kinematics with homing gate and brake, least-squares fit, angle helper | `cpp:17-20, 427-630, 668-670` |
| `SwerveSteering` | sequences of `compute_corner_commands` calls with the *unwrapped* angle carried over | extends `SwerveKinematics` |
| `SwerveController` | lifecycle, callbacks, `update()` in two steps; the measured standstill is free | extends `SwerveKinematics` |
| `SwerveRobot` | the controller in its loop with wheels, axes that slew like the simulated actuator's, brakes, sensors, and a bus that loses status frames or none | extends `SwerveController` |
| `SwerveSim` | `swerve_sim_node` under a publisher whose two messages arrive in any order | extends `SwerveKinematics` |
| `ModeSwitch` | abstract: what a user of `~/mode` is promised | implemented by `SwerveController` |
| `SwerveConfig` | `on_init`'s validation, declared interfaces, the look-up in `on_activate`, `on_deactivate` | on its own |
| `Bringup` | seven launch files: description edits, spawner chains | on its own |
| `SwerveStartup` | a launch file with the controller it brings up: what the hardware exports, what the parameter files name, whether the spawner succeeds | extends `Bringup`, instantiates `SwerveConfig` |
| `Teleop` | `rp1_teleop` between a joystick and the controller's watchdog, with delays and bounded queues | on its own |
| `CompassDriver` | the IST8310 driver, transaction by transaction, with a chip that measures on its own time | on its own |
| `ImuDriver` | the ICM20948 driver, transaction by transaction, with a banked chip and its I2C master | on its own |
| `EscBattery` | `esc_telemetry_to_battery` | on its own |
| `DronecanLoop` | `sim_vesc_node` and `check_dronecan_loopback` around an external driver and controller, and the battery adapter on the same telemetry | extends `EscBattery` |
| `LiveTable` | abstract: what a table that is redrawn shows | implemented by `VescBench` |
| `VescBench` | `can_vesc_gui`, `can_vesc_test listen` and `pulse` on a bench of VESCs that come and go | on its own |
| `SwerveKinematicsProofs` | lemmas about the arithmetic | extends `SwerveKinematics`, `TLAPS` |
| `SwerveSteeringProofs` | theorems about `SwerveSteering` and `SwerveSim` | extends both |
| `SwerveRobotProofs` | theorems about `SwerveController`, that it implements `ModeSwitch`, and about `SwerveRobot` | extends `SwerveRobot` |
| `TeleopProofs`, `StartupProofs`, `CompassProofs`, `ImuProofs` | theorems about `Teleop`, `SwerveStartup`, `CompassDriver`, `ImuDriver` | extend them |
| `BenchProofs` | theorems about `VescBench` and `DronecanLoop`, the tools around the bus | extends both |
| `MC...` | constants for TLC | |

### How the model corresponds to the code

*Directions are exact.* A wheel velocity with small integer components lies on
one of finitely many primitive directions. `Dir` lists them in the order of their
angle, so an angle is an integer (direction index plus full turns), a quarter
turn is `Quarter`, and the comparisons `compute_corner_commands` makes
(`|delta| > pi/2`, the normalisation into half a turn) are comparisons of
integers that agree with those of the real angles: a quarter and a half turn are
exact, everything else is ordered as the real angles are. Angles that are not
the direction of any velocity do not arise, since `last_steering_angle_` is
always a former direction, a reference or 0. The speed of a wheel is its signed
multiple of the direction (`hypot` in units of the direction's length); the wheel
radius, applied on the way out and undone on the way in, is the unit. In two
places the floating-point code may round either way, and both outcomes are modelled:
at exactly half a turn `atan2` returns +pi or -pi, and at exactly a quarter turn
`|delta| > pi/2` flips the wheel or does not (`Flips`). `tie` is the sign of the rounding error,
one for all corners of a call; the properties about a call speak of each corner by itself.

*Time is in ticks.* A command carries its age, which every cycle advances by its
period and which saturates one past the timeout. `Skew` bounds how far a
publisher's stamp lies ahead of the controller's clock.

*update() is two steps.* The callbacks run in the executor's thread. `update()`
reads the command box under its lock and, later, loads the atomic mode: between
these two points a callback can interleave, so `GetCommand` ends there and
`FinishUpdate` does the rest (commit, ramp, corner commands, interface writes).
Nothing after the load of the mode reads what a callback writes.

*Simulated axes slew.* `swerve_sim_node` and `sim_actuator_node` move an axis in the same way:
by at most one step per period, the short way round, and exactly onto the target when it is
within a step (`Slewed`, in `SwerveKinematics` because that is where the angles are). At exactly
half a turn rounding decides about the sense, for each axis by itself. `SwerveRobot` uses it for
its steering axes. `SwerveSim` counts time in periods of its timer; its `odom` holds the sums of the
least-squares fit, which for the symmetric wheels of `swerve_sim_node.py:68-74` are the twist times
fixed weights (`FitOfTwist`).

*Writes may fail.* `set_value()` can fail under contention; the code logs and
goes on. `FinishUpdate` takes the set of handles whose write fails, which keep
their old value; `missed` records it. At most `MaxMissed` fail in one cycle.

*The lifecycle* forgets the command, modes and ramp in `on_configure` and nothing
anywhere else; commands, a half-finished ramp and what the interfaces hold
survive a deactivation.

*What is left out of `update()`*: the integration of the odometry pose and the
publishers, which feed nothing back.

*Bus transactions are atomic and may fail.* In `CompassDriver` and `ImuDriver` every
register access is a step; one that raises may or may not have reached the chip. `_poll`
catches, the constructor does not. In `ImuDriver` a transaction carries the bank its
author had in mind (`meant`), the chip acts on the bank it has; its I2C master makes
whatever transfer SLV0 describes at the moment, also half-written. In the compass, between two accesses the chip may finish its
measurement and set DRDY or DOR, so the six bytes of the output are read in two
halves.

*Teleop's queues* hold messages that wait at most `MaxDelay` ticks before the
executor serves them; a message is stamped when it is *handled*, as `_new_twist`
does. Time cannot pass a message or a timer that is due.

*A launch file* is a record: plugin, edits, chain of spawners. The edits of the
description and their checks are one step; the spawners, the timer and the exits are
steps of their own. A spawner may fail; that of the swerve controller fails exactly when
`on_init`, the resource manager or `on_activate` refuse. A number in the parameters is
reduced to its sign, a description to the places the edits look for, the plugin, the
`esc_index` of each corner and the interfaces it declares.

*The loopback stack* has speeds in hundredths of an rpm and the integer divisions where
`int()` is (`Status.rpm`, the erpm). The CAN bus keeps the last Status of each index
and drops command frames; `/joint_states` queues, so that samples of one phase can reach
the next. `fault` says what is wrong with the tested stack: the last wheel's Status is
not decoded, it has no voltage, the controller latches its last command, or the pole
pairs of simulator and description differ. One thing at a time.

*The bench* is told apart by hardware id; node id and `esc_index` are what a VESC is
configured to. Any frame of a pulse may be lost. The pulse may end at any moment, by the clock, by Ctrl-C or
because `broadcast()` raises (`EndPulse`); its `finally` sends zero commands one by one (`StopPulse`) and may
itself be cut short, before the first of them or later (`CutStop`). A key of the GUI's table is the pair of both, as in the code, and
`rows` is `_row_keys`: cells are rewritten at every refresh. Of the age of a Status only
the comparison with `DROP_AFTER` matters.

## The runs

| Run | Instance | What it shows |
|---|---|---|
| `steering` | 4 corners, 32 directions, 10 twists, 4 modes, 2 sensor readings, angles up to one full turn of winding | the commands realise the twist at every free corner, also when flipped; the fit gives back the commanded twist; no sequence of calls makes a wheel turn the long way, and none turns a wheel that has no velocity or stands on its reference |
| `controller` | 2 corners (one free, one locked in `TWO_WHEEL`), raw modes `TWO_WHEEL`, `FULL_SWERVE` and an unknown one, periods of 1 and 2 ticks, one failing write per cycle | homing gate and brake with callbacks at every point of the cycle and lifecycle changes between cycles; bounded coasting: silence ends in zero drive commands; the controller implements `ModeSwitch`, so a ramp never accelerates or reverses |
| `robot_roles` | 4 corners, 3 twists, drives faster than axes | **violated**: wheels turning against each other read as a standstill |
| `robot_live` | a diagonal pair, one twist, axes of half a quarter turn per period, a bus that loses frames and one that does not | every pending switch lands, a silent publisher stops the wheels, homing opens the gate; without losses an engaged brake never works against the position command |
| `sim` | a diagonal pair, 16 directions, 5 twists, axes of 3 steps per period, speeds stale after 2 | axes arrive in time wherever a command catches them; the odometry reports the twist asked for once both messages are in force, and no motion when the speeds are stale |
| `teleop` | 2 twists, queues of 2, delays up to 1, link loss | no motion without the button once its bound has passed, a release stops within the latency, a held button drives without interruption |
| `compass` | 6 measurements, a chip within or beyond the poll period | whole samples, none twice; samples resume once the bus works |
| `startup` | 7 launch files, all arguments, 7 descriptions, a good parameter file and ones with a list, a name, a flag or a number off, 3 activations | one spawner at a time and all of them; simulations stay off the bus; corners agree; declared interfaces are found, belong to their corner and are dropped with their loan; with complete parameters and description the swerve controller comes up on every tier |
| `imu` | the whole configuration and poll, with and without magnetometer, a chip in three states left behind, any bank | every access in its bank; no half-configured chip polled; the magnetometer measures; samples resume |
| `loop` | 2 wheels at 0.5 m/s, queues of 1, four faults, pole pairs 7, 10 and 20 | PASS is earned by faultless stacks only, and by those always, unless a deadline or the watchdog comes first; the handset shows the pack |
| `loop_watchdog` | as `loop` | **violated**: simulator and watchdog wait for each other, a faultless stack does not pass |
| `bench` | 2 VESCs, 2 node ids, 2 indices, 2 changes of the bench, 5 stop commands, any frame of a pulse lost | ids beside the right node, the GUI's table settles on what is on the bus, and implements `LiveTable`; a pulse whose stop series goes out ends at rest unless all of it is lost, one whose series is cut short unless all that was sent is lost |

Type invariants are run where a theorem states them (`SwerveController`, `CompassDriver`); the
other modules have none, their runs are about the properties of the table.

### Bounds and why they are enough

The controller treats its corners alike except for the sums in the fit and the
conjunction in the homing gate, so two corners (one of each role in `TWO_WHEEL`)
already show one corner holding another; where the geometry matters (`steering`,
`robot_roles`) all four are there. The command age needs one value past
the timeout. The largest command takes two or three steps of the ramp, so that a
switch can be withdrawn and requested again in the middle of one. `SilenceCap` is
where the history variable `silence` stops counting; `ControllerAssumption` states
that it is late enough for `SilenceStops` to be about something. The winding is
cut at one full turn in either direction, four times what one call can turn a
free wheel; the theorems have no such bound on the state they start from.

In `Teleop` the counters stop one past the bound the properties wait for, and the
queues of 2 stand for those of 10: they do overflow, which is what depth is about.
`CompassDriver` numbers measurements in order to tell them apart; numbers not held
by anything are reused, six are as many as there are places. `Bringup`'s
descriptions each break one of the places the launch files look for, or lack interfaces.

The locked modes, whose corners are all alike, are in the `robot_...` runs, and stamps ahead
of the controller's clock (`Skew` above 0) in the theorem `BoundedCoast`, which has no
bound; the `controller` run has one mode of each kind of corner. `SwerveSim` treats its axes
alike; a slew of 3 does not divide half a turn of 8, so axes arrive with a shorter last step and
after 3 periods, and speeds that last 2 go stale before that.
`DronecanLoop` needs two wheels: one that is missing and one that is not. A queue of 1 still
delivers a sample of one phase in the next, which is the hazard; a target of 2217
hundredths, a slew of a status period and a tolerance of 239 are the defaults of the
tools at 0.5 m/s. `VescBench` needs two VESCs for a collision, for a
swap and for answers out of order; two changes let one leave and come back, or leave and
its place be taken. The frames of a pulse have no bound: it lasts as long as it likes, each may be
lost, and the 5 stop commands are those of the code. What happens with more wheels or VESCs is more of the same kind: rows
are inserted one by one, indices registered one by one. `ImuDriver` has no bound.

### Fairness

`FairRobotSpec` assumes that the control thread keeps cycling (the controller
manager runs its loop as long as it lives): an `update()` begun is finished (`RobotUpdate`), and
`read()` follows again and again, strongly fair, with a frame of every corner got through
in the same cycle. Nothing is assumed
of publishers or lifecycle requests: the liveness properties are conditional on
the controller staying active. `CompassDriver` assumes that the timer fires, transactions
return and measurements end, and nothing about the bus, which may fail for ever;
`ImuDriver` the same, with an I2C master that gets round to every transfer;
`SwerveStartup` that processes run and `launch` handles their exits, whatever the outcome.
`DronecanLoop` assumes that all processes keep running and, strongly fair, that of the
command frames that keep coming some decode; deadlines (`GiveUp`) and the end of the
grace period may come at any time. `VescBench` assumes that the GUI's timers fire, that
every powered VESC goes on broadcasting and that requests are answered or time out, as
the library guarantees.

## Refinements

* `SwerveController` implements `ModeSwitch` (`SwitchesAsPromised`): of threads, boxes,
  staleness, homing and corners a user of `~/mode` need know nothing, only that the mode
  changes at a measured standstill and that until then the robot is brought down
  monotonically. Receiving, copying and writing are stutters; lifecycle transitions keep the
  ramp, configuring forgets it.
* `VescBench` implements `LiveTable` (`TableAsRebuilt`, proved as `TableIsRebuilt`): keys seen are what is there, `_row_keys`
  is what is shown. The in-place edit (remove from the end, insert before the first larger)
  is at every refresh what sorting the keys would give.
* `SwerveStartup` is the composition of a launch file with `SwerveConfig` by `INSTANCE`: the
  choice whether a spawner succeeds, free in `Bringup`, becomes what the controller does.

## What is proved

The assumptions are the named `ASSUME`s: corners finite and not empty, directions
one ring with opposite directions opposite (`RingAssumption`), every reachable
corner velocity on some listed direction (`ReachAssumption`), and the ranges of
the parameters, which `on_init` validates. `SwerveSteering` and `SwerveSim` add `Centred`: the positions
of the corners add up to nothing along either axis, as on the rectangles of `cpp:107-110` and
`swerve_sim_node.py:68-74`; without it the code's diagonal normal equations would be no
least-squares fit. TLC evaluates them on every run. Where a theorem has a
hypothesis beside them, it is named below. A theorem holds for every value of the constants.

**The swerve controller** (`SwerveRobotProofs`), for every number of corners, ring of directions,
geometry, period, timeout, skew and deceleration:

* `TypeCorrect`: `TypeOK`. The delicate parts are that the speeds commanded stay
  within `Reach` and that the ramp stays a `Twist`; both rest on lemmas about the
  kinematics (`PolarFacts`, `WheelFacts`) and about `Toward0`.
* `HomingGate` and `BrakeSafety`: the corresponding invariants. They speak of the
  state right after `update()`; the strengthening says what the interface values
  were computed from and that nothing before the next `update()` changes it.
* `BoundedCoast`: `SilenceStops`. The inductive invariant `SilenceInv` relates the
  age of the boxed command, the local copy and the ramp to the number of silent
  ticks: a command that is still fresh was received at most `Timeout + Skew` ago, and
  every tick after that has taken its step off the ramp.
* `Refinement`: `Spec => Switch!Spec`. Initial states map to initial
  states; `FinishUpdate` maps to `Commit`, `BringDown` or `GiveUp` by whether the chassis stands and
  whether a switch is pending, everything else to `Measure`, `Configure` or a stutter. It
  needs `TypeOK` for the ramp to be a twist, and a lemma that `Toward0` slows down.

**Its loop** (`SwerveRobotProofs`):

* `RobotRefinesController`: `RobotSpec => Spec`. A sensor frame is one of the readings
  `ReadStates` allows and the fit of the reported wheels one of the standstills it allows, so all
  of the above holds of the robot.
* `BrakeNeverFightsServo`: `BrakeNeverFights`, for any geometry, rates, timing and lifecycle. What the
  sensors said in this cycle is where the axis still is (`SensorsTell`), and where there is no brake
  none grips (`NoBrakeNoGrip`). Hypothesis `MaxMissed = 0`: when the write of an angle fails and that of
  the brake does not, the brake does grip beside the reference until the next cycle. On a
  bus that loses frames the property claims nothing, since then the bits may be old.

**Steering and the simulator** (`SwerveSteeringProofs`):

* `RotationBound` and `MotionPreserved`: `ShortRotation` and
  `FlipPreservesMotion`, from the lemmas about `NormalizeAngle` (`NormalizeFacts`,
  `TurnsToTarget`).
* `FitInverts`: `FitInvertsKinematics`, that the fit gives back the commanded twist, or the half of it that
  locked corners can follow. `FlipPreservesMotion` says what free wheels do; `FitInv` adds that the command
  of a locked corner is the projection of its velocity on the reference. `FitOfTwist` sums over
  the corners; it rests on a sum over a finite set being linear (`SumLinear`).
* `AxesGetThere`: `AxesArrive` in `SwerveSim`. `AxesInv` bounds the way an axis still has to go, on the
  ring, by half a turn less what `settled` periods have taken off it. `SlewFacts`: one step takes off
  `MaxStep` or all that is left; `TimeIsUp`: after `SlewTime` nothing is left.
* `OdometryIsTrue`: `OdometryFollows`. `OdomInv`: the speeds and angles last sent, arrived or under way,
  are those of the twist asked for, and what is in `odom` is the fit of the commands in force at the last
  tick, or nothing when the speeds were stale. That the angles of the fit are those the axes have is
  `AxesArrive`; that the fit is then the twist is `FitOfTwist` again.

**Teleop** (`TeleopProofs`), for every queue depth, delay, period and timeout with `RateAssumption`:
`MotionEnds`, `ReleaseStops` and `HoldDrives` are the three properties of the run, from one inductive
invariant `IInv` (`Inductive`). It speaks of every place in which a twist can be: the joystick's
messages under way, the commands under way, the box (`Sent(0)`). `Asking`: what is not
zero was asked for within the time it can have taken so far, and will be answered for, by the
command behind it or by the watchdog. `Follows`: on a live link, what does not yet say what the
operator has wanted for `steady` ticks has a message behind it that gets through before
`Latency`. A full queue drops its oldest message, so both are stated by distance from the end
of the queue; the lemmas about `Enqueue` say how places move (`Joins`).

**Start-up** (`StartupProofs`), for every set of launch files, descriptions and parameters:

* `SpawnersTakeTurns`, `OffTheBus`, `CornersSwapTogether`. `OneAtWork` says that a spawner is running or
  its exit is to be handled, never both and never two; it holds because no name comes twice
  in a chain (`ChainsBranchNot`). `AsDescribed` says that what was refused never comes up.
* `NothingGrantedIsMissed`, `CornersAreBound`, `NoneDangles`: `GrantedMeansFound`, `EveryCornerBound` and
  `NothingDangles`. `EveryCornerBound` is about each of the eight vectors of references: what stands in it
  for a corner is the interface of that corner's joint or sensor (`Own`), lent for this activation. The invariant `Bound`: a controller that is loaded has valid parameters; it has references
  only while it is active, and then those that the look-up returned for its parameters and the
  loans of this activation. `FoundAll` and `FoundNone` say what the look-up by name returns,
  `Enough` that what `on_init` accepted and the resource manager granted is all it looks for. That the
  references are loans of this activation is `LentForThis`; that different names are held as different
  interfaces, so that no two corners write to one, `HeldOnce`.

**The sensors** (`CompassProofs`, `ImuProofs`):

* `NothingStale`, `SamplesAreWhole`, `SamplesAreNew`: a sample is published from two
  halves read one after the other. The inductive invariant says of every point of the poll
  which measurement the chip may hold and which the node has read; that the driver
  triggers a single measurement and only after it has read the last one is what keeps the
  halves together.
* `AccessesMeetTheirBank`, `PolledChipsAreConfigured`, `PromptMasterMeasures`: `RightBank`,
  `NeverHalfConfigured`, `MagnetometerRuns`. The transactions still to be made are a suffix of the
  configuration or of the poll (`Progress`) and each sequence leaves every access the bank it means, from
  any bank it starts in (`ChipChained`, `PollChained`); `SetSoFar` says which registers
  have been written, `MasterSteered` what the I2C master has been told and has done by then. The last
  theorem is about a master that is quick enough (`prompt`), as the property is.

**The bench and the loopback test** (`BenchProofs`):

* `TableIsRebuilt`: `TableAsRebuilt`, the refinement of `LiveTable`, for any number of VESCs, ids and
  indices. That sorting yields every key once and in order (`InOrderFacts`) is because the number of smaller keys
  maps the keys one to one onto the places. The in-place edit is an iteration (`Kept`, `Diff`); its steps
  keep the rows sorted (`SortedInsert`, `WithFacts`) and after the last one the rows hold exactly the keys
  (`KeptFacts`, `DiffFacts`). `TableInv` is what carries from one refresh to the next: the rows are
  sorted. A refresh is a redraw of the abstract table, everything else keys that come and go.
* `PulseAlwaysStops` and `IdsStayTrue`: for any number of VESCs. `PulseInv`: only the
  target ever has a duty, and on the way out, or where that was cut short, a motor that still
  runs means that every zero command sent so far was lost. Of a series cut short before its first
  command the theorem promises nothing, and nothing holds: see the disagreements.
* `PassIsEarned`: `NoFalsePass`, for any number of wheels, depth of the queues, speeds and
  tolerance. Of `LoopInv`, each fault has its part: at another scale the checker does not get past
  driving (`Mismatched`), nor with a wheel that is not made out (`Deaf`); without voltages it does
  not get past the telemetry (`NoVoltage`). `Latched` is the delicate one, about stale messages:
  once anything heard of a wheel says that it runs, everything heard after it does (`Steady`), so
  whatever the checker still has of it while coasting is not at rest. Hypothesis `Telling`: the
  numbers are such that the checker can tell, that is, the speed wanted is more than twice the
  tolerance, the speeds are reached within a status period and wrong pole pairs are
  off by more than the tolerance. `MCDronecanLoop` has TLC evaluate it for the instance.

**Induction.** The induction theorems of the library take an operator as a parameter and cannot be used. What the
sums over corners and the iterations over rows need is proved from a least counterexample instead: the
natural numbers are well-founded (`LeastNatural`), so a set of finite sets has a smallest member
(`SmallestSubset`) and a recursive function exists (`TotalsExist`, `IterationExists`) and has the property
claimed of each of its values. This needs the property spelled out for every use, and reaches recursive
functions, not `RECURSIVE` operators.

**Only model-checked.** `RolesChangeAtRest`, and `FaultlessPasses` of
`loop_watchdog`, which are violated. All liveness properties, for which the prover has neither fairness nor `ENABLED`:
`SwitchLands`, `QuietRobotRests`, `HomingCompletes`, `SamplesResume`, `ChainCompletes`, `SwerveComesUp`,
`HealthyPasses`, `PassLightsHandset`, `TableSettles`. Two theorems claim less than their runs' instances
might suggest: `BrakeNeverFightsServo` is for `MaxMissed = 0` and `PassIsEarned` for numbers that satisfy
`Telling`.

## Disagreements between the code and its documentation

* `cpp:660-662` says the mode changes once the chassis is "confirmed actually
  stopped". The measured twist is a least-squares fit; `update()` drives a wheel
  before its axis has arrived, and on the way from one twist to another all four
  wheels can turn against each other with a fit of exactly zero.
* `check_dronecan_loopback.py:4-10` "only passes if the whole path is intact", `:32` "Exits 0 if all three pass", to be
  run against `sim_vesc_node.py` and the launch file as they come; `simulation/README.md:74-75` expects
  telemetry "once `sim_vesc_node.py` receives commands". `sim_vesc_node.py:98` creates a wheel on
  its first nonzero command; the driver's watchdog (`rp1_drive.urdf:196-200`) commands zero to
  all while one has not been heard. If the grace period ends first, neither moves
  (`loop_watchdog`). `HealthyPasses` is what does hold.

Read in the code while modelling, without a run of their own:

* `cpp:639-643` says a stale command "zeroes every drive velocity". It does not
  while a mode switch is being ramped: the ramp was seeded from the command and
  keeps driving until it reaches zero. `SilenceStops` is what does hold.
* `rp1_mvp_elrs.launch.py:4-8` says it is "identical" to `rp1_mvp.launch.py` except for
  the source of `/joy`, and describes the path of the battery telemetry; it does not
  spawn the `esc_telemetry_broadcaster` that path starts with.
* `cpp:73` accepts a stopped tolerance of 0 ("must not be negative"); with the strict
  `<` of `cpp:668-670` no mode switch ever lands, the deadlock `hpp:187-188` rejects a
  zero deceleration for. `SwitchLands` is checked for positive tolerances.
* `hpp:202-203` and `cpp:119-120` speak of "exactly 2" steered corners; `cpp:117`
  counts names and accepts the same one twice. So does `SwerveConfig`.
* `esc_telemetry_to_battery.py:32` promises the "'mean' of the ESCs that have
  reported"; those that have not are on the topic too, at 0 V.
* Both sensor drivers say that a hardware hiccup "never kills the node"
  (`ist8310_driver_node.py:22-23`, `icm20948_driver_node.py:15-16`); one during the
  configuration, called from the constructor without a `try`, does. `Raise` of both modules
  has it that way, and `SamplesResume` is conditional on the node living.
* `icm20948_driver_node.py:181-188` writes SLV0 three times over without waiting for the I2C
  master. `MagnetometerRuns` is checked for a master that is always quick enough; with one
  that is not (`prompt` FALSE) the mode of the magnetometer may be lost.
* With a watchdog that interferes, `check_dronecan_loopback.py:102-105` can pass falsely: one sample
  of each joint at the target, or at zero, settles a phase. And a simulator with 9 or 11
  pole pairs passes: the default tolerance is wider than the difference.
* `can_vesc_gui.py:95-97` asks a node id once for ever: a VESC that takes it over is shown under the
  old hardware id, and a request that timed out is never repeated.
* `can_vesc_test.py:140-160`: a VESC first heard while the ids are asked is printed with "no
  GetNodeInfo response" although nobody asked it. The note of line 169 always appears: `seen`
  holds pairs, which are never in `_WHEEL_NAMES`.
* `can_vesc_test.py:260-262` targets one index "without touching the others"; the frame carries a
  zero for every lower index, and those VESCs obey it (`Obeyed`).
* `can_vesc_test.py:34-35` and `265` say that a zero command is "always" sent on exit ("normal, Ctrl-C, or
  error"). The loop of the `finally` (`276-280`) is itself unprotected: a second Ctrl-C, or a first one
  that comes when the time is over, ends it, and so does a `broadcast()` that raises, possibly
  the one that raised in the pulse already. Then fewer than 5 zero commands go out, or none
  (`CutStop`), and the motor keeps the last duty. `PulseStops` is what does hold.
* `can_vesc_gui.py:12-13` and `can_vesc_test.py:146-147` promise a COLLISION for more than one *physical* VESC on
  an `esc_index`. Both count pairs of index and node id (`gui:120-122`, `test:142-144`): two VESCs
  whose node ids coincide as well, as two fresh ones of the same configuration may, are one
  key and one row without a collision, whose Status alternates between them. `TableSettles` is therefore about
  VESCs with different node ids.
* `rp1_swerve_controllers.yaml:44-46`: "a publisher going quiet zeroes the drive
  wheels". Not under `rp1_swerve_gazebo.launch.py`, whose keyboard and steering GUI stamp
  with the wall clock and are judged by simulated time.

## What is not modelled

* `sim_actuator_node` but for its slew: the steering counterpart of `sim_vesc_node`, with no checker.
* `can_vesc_test watch` (printing only), `ch347lib`, `check_bus_continuity` (one register access after
  the other, results printed) and `mechanical_request_xlsx` (writes a spreadsheet): sequential
  programs without state that outlives a call.
* The odometry poses, publishers of feedback, scaling of sensor data and dry runs: nothing depends on
  them. In `Bringup`, the nodes besides the spawners (teleop, rviz, sensors).
* The CAN driver, the radio driver, the VESC firmware and ROS itself are not in the
  repository and appear as external actions.

## Plan

1. *Done*: kinematics, steering sequences, controller, closed loop; their theorems.
2. *Done*: `SwerveConfig`, `Teleop`, `CompassDriver`, `Bringup`.
3. *Done*: `ImuDriver`, `EscBattery`, `DronecanLoop`, `VescBench`; the composition `SwerveStartup`; the
   abstract `ModeSwitch` and `LiveTable`; theorems about the refinement, the compass, the start-up
   and the bench.
4. *Done*: `SwerveSim`; theorems about `Teleop`, `ImuDriver`, the interfaces of the swerve
   controller, `SwerveRobot`, `SwerveSim` and the verdict of the loopback test.
5. *Done*: the inductions: the fit and the odometry of the simulator, the refinement of `LiveTable`.
6. Open: an abstract dead-man switch that `Teleop` implements, from `Asking`; a sampler that both
   sensor drivers implement; `RolesChangeAtRest` under the hypothesis that axes are as fast as
   commands.
