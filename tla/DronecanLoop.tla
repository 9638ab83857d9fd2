------------------------------ MODULE DronecanLoop ------------------------------
(***************************************************************************)
(* The loopback test of simulation/: check_dronecan_loopback drives the    *)
(* bringup pipeline over a virtual CAN bus against sim_vesc_node, and      *)
(* grades what comes back; esc_telemetry_to_battery listens to the same    *)
(* telemetry.  A stack that is tested may have a fault, and the verdict    *)
(* should tell.                                                            *)
(*                                                                         *)
(* Not in this repository, and external here: diff_drive_controller, which *)
(* commands zero when cmd_vel has been silent for cmd_vel_timeout; the     *)
(* VESC driver, which turns speeds into one RPMCommand for all indices and *)
(* Status frames into state interfaces, and whose watchdog                 *)
(* (rp1_drive.urdf:196-200) commands zero to all wheels while an ESC has   *)
(* not been heard within esc_timeout_sec; the broadcasters.                *)
(*                                                                         *)
(* Speeds are hundredths of an rpm of the wheel (gear_ratio is 1).         *)
(***************************************************************************)
EXTENDS EscBattery, Sequences

CONSTANTS
    NumWheels,    \* NUM_WHEELS; the URDF numbers the wheels from 1
    Wanted,       \* the commanded speed over wheel_radius
    Tolerance,    \* --tolerance
    UrdfPolePairs,   \* motor_pole_pairs of the robot description
    SimPolePairs,    \* values of sim_vesc_node --pole-pairs
    MaxRpm, SlewStep,   \* MAX_RPM, and RPM_SLEW_PER_SEC over a status period
    Volts,        \* NOMINAL_VOLTAGE
    Sources,      \* values of battery_source
    Faults,       \* what may be wrong with the stack, and "none"
    Depth         \* bound: of each subscription's and the bus's queue

Wheels == 1 .. NumWheels

ASSUME LoopAssumption ==
    /\ NumWheels \in Nat \ {0} /\ Escs = Wheels
    /\ Wanted \in Nat \ {0} /\ Tolerance \in Nat
    /\ UrdfPolePairs \in Nat \ {0} /\ SimPolePairs \subseteq Nat \ {0}
    /\ MaxRpm \in Nat /\ SlewStep \in Nat \ {0} /\ Volts \in Nat \ {0}
    /\ Faults \subseteq {"none", "deaf", "no_voltage", "latched"}
    /\ Depth \in Nat \ {0}

VARIABLES
    fault, pole_pairs,
    phase,        \* of the checker: "drive", "telemetry", "coast", "pass", "fail"
    velocity,     \* _velocity of the checker: the joints heard of
    volts,        \* its _voltage
    fresh,        \* the controller has a command that has not timed out
    watchdog,     \* "grace": less than esc_timeout_sec since the driver was activated;
                  \* then whether all ESCs had been heard by the end: "met" or "late"
    heard,        \* the ESCs the driver has had a Status from
    exported,     \* the state interfaces: per wheel speed, voltage, current
    commands,     \* RPMCommand frames on the bus
    wire,         \* the Status frame of each index on the bus
    wheels,       \* the wheels of the simulator, by esc_index
    joint_states  \* messages on their way to the checker

sim == <<wheels>>
checker == <<phase, velocity, volts>>
driver == <<fresh, watchdog, heard, exported>>
bus == <<commands, wire>>
topics == <<joint_states>>
loopVars == <<fault, pole_pairs, checker, driver, bus, sim, topics, batteryVars>>

NoFrame == [rpm |-> 0, voltage |-> 0, current |-> 0]   \* a Status has a voltage

Faultless == fault = "none" /\ pole_pairs = UrdfPolePairs

(* One thing is out of the ordinary at a time. *)
LoopInit ==
    /\ fault \in Faults
    /\ pole_pairs \in IF fault = "none" THEN SimPolePairs ELSE {UrdfPolePairs}
    /\ phase = "drive" /\ velocity = <<>> /\ volts = <<>>
    /\ fresh = FALSE /\ watchdog = "grace" /\ heard = {}
    /\ exported = [w \in Wheels |-> NoFrame]
    /\ commands = <<>> /\ wire = [w \in Wheels |-> NoFrame]
    /\ wheels = <<>>
    /\ joint_states = <<>>
    /\ source \in IF Faultless THEN Sources ELSE {MeanSource}
    /\ BatteryInit

-----------------------------------------------------------------------------
(* The controller, the driver and the broadcasters (external).             *)
KeepLast(queue, item) ==
    IF Len(queue) < Depth THEN Append(queue, item) ELSE Append(Tail(queue), item)

Driving == phase \in {"drive", "telemetry"}

CmdTimeout ==
    /\ ~Driving /\ fresh /\ fault # "latched"
    /\ fresh' = FALSE
    /\ UNCHANGED <<fault, pole_pairs, checker, watchdog, heard, exported, bus, sim, topics,
                   batteryVars>>

GraceEnds ==
    /\ watchdog = "grace"
    /\ watchdog' = IF heard = Wheels THEN "met" ELSE "late"
    /\ UNCHANGED <<fault, pole_pairs, checker, fresh, heard, exported, bus, sim, topics,
                   batteryVars>>

HeldByWatchdog == watchdog = "late" /\ heard # Wheels

(* One frame carries an erpm for every index up to the highest, 0 among    *)
(* them, which is no wheel's.                                              *)
RpmCommand ==
    [i \in 0 .. NumWheels |->
       IF i = 0 \/ ~fresh \/ HeldByWatchdog THEN 0 ELSE (Wanted * UrdfPolePairs) \div 100]

DriverWrites ==
    /\ commands' = KeepLast(commands, RpmCommand)
    /\ UNCHANGED <<fault, pole_pairs, checker, driver, wire, sim, topics, batteryVars>>

(* read() takes the frames of all wheels that are there; a deaf driver     *)
(* does not make out those of the last wheel.                              *)
DriverReads ==
    LET received == { w \in Wheels : wire[w] # NoFrame }
        decoded  == IF fault = "deaf" THEN received \ {NumWheels} ELSE received
        blank(w) == fault = "no_voltage" /\ w = NumWheels
    IN  /\ received # {}
        /\ wire' = [w \in Wheels |-> NoFrame]
        /\ exported' = [w \in Wheels |->
               IF w \notin decoded THEN exported[w]
               ELSE [wire[w] EXCEPT !.voltage = IF blank(w) THEN 0 ELSE @]]
        /\ heard' = heard \cup decoded
        /\ UNCHANGED <<fault, pole_pairs, checker, fresh, watchdog, commands, sim, topics,
                       batteryVars>>

PublishJointStates ==
    /\ joint_states' = KeepLast(joint_states, [w \in Wheels |-> exported[w].rpm * 100])
    /\ UNCHANGED <<fault, pole_pairs, checker, driver, bus, sim, batteryVars>>

(* gpio_states is delivered at once; only old velocities could mislead.    *)
Telemetry == [w \in Wheels |-> [voltage |-> exported[w].voltage, current |-> exported[w].current]]

-----------------------------------------------------------------------------
(* sim_vesc_node.                                                          *)
Clamp(rpm) == Max({-MaxRpm, Min({MaxRpm, rpm})})

(* Indices become wheels when first commanded to move, in their order and  *)
(* up to NUM_WHEELS of them.                                               *)
Registered(frame) ==
    LET unknown == { i \in DOMAIN frame : frame[i] # 0 } \ DOMAIN wheels
    IN  { i \in unknown :
            Cardinality(DOMAIN wheels) + Cardinality({ j \in unknown : j < i }) < NumWheels }

OnRpmCommandUnscaled ==   \* Mutant: the erpm is taken for the speed of the wheel
    /\ commands # <<>>
    /\ commands' = Tail(commands)
    /\ LET frame == Head(commands)
       IN  wheels' = [i \in DOMAIN wheels \cup Registered(frame) |->
                        [target |-> Clamp(frame[i] * 100),
                         rpm    |-> IF i \in DOMAIN wheels THEN wheels[i].rpm ELSE 0]]
    /\ UNCHANGED <<fault, pole_pairs, checker, driver, wire, topics, batteryVars>>

OnRpmCommand ==
    /\ commands # <<>>
    /\ commands' = Tail(commands)
    /\ LET frame == Head(commands)
       IN  wheels' = [i \in DOMAIN wheels \cup Registered(frame) |->
                        [target |-> Clamp((frame[i] * 100) \div pole_pairs),
                         rpm    |-> IF i \in DOMAIN wheels THEN wheels[i].rpm ELSE 0]]
    /\ UNCHANGED <<fault, pole_pairs, checker, driver, wire, topics, batteryVars>>

(* spin() raises on a bad frame, which is gone; the loop goes on.          *)
SpinError ==
    /\ commands # <<>>
    /\ commands' = Tail(commands)
    /\ UNCHANGED <<fault, pole_pairs, checker, driver, wire, sim, topics, batteryVars>>

(* One status period of SimulatedWheel.step.                               *)
Step(wheel) ==
    [wheel EXCEPT !.rpm = Max({@ - SlewStep, Min({@ + SlewStep, wheel.target})})]

(* Whole rpm on the wire; the current goes with the speed.                 *)
Status(wheel) ==
    [rpm |-> wheel.rpm \div 100, voltage |-> Volts, current |-> wheel.rpm \div 100]

BroadcastStatus ==
    /\ wheels' = [i \in DOMAIN wheels |-> Step(wheels[i])]
    /\ wire' = [w \in Wheels |-> IF w \in DOMAIN wheels THEN Status(wheels'[w]) ELSE wire[w]]
    /\ UNCHANGED <<fault, pole_pairs, checker, driver, commands, topics, batteryVars>>

-----------------------------------------------------------------------------
(* check_dronecan_loopback.                                                *)
SettledAtVacuous(target, v) ==   \* Mutant: the number of joints is not checked
    \A w \in DOMAIN v : v[w] - target \in -Tolerance .. Tolerance

SettledAt(target, v) ==
    /\ DOMAIN v = Wheels
    /\ \A w \in DOMAIN v : v[w] - target \in -Tolerance .. Tolerance

TelemetrySeen(u) == DOMAIN u = Wheels /\ \A w \in DOMAIN u : u[w] > 0

NextPhase(v, u) ==
    CASE phase = "drive" /\ SettledAt(Wanted, v) -> "telemetry"
      [] phase = "telemetry" /\ TelemetrySeen(u) -> "coast"
      [] phase = "coast" /\ SettledAt(0, v) -> "pass"
      [] OTHER -> phase

(* One turn of wait_until: a callback has left v and u, the predicate of   *)
(* the phase is asked, and coast() forgets the velocities.                 *)
SpunOnce(v, u) ==
    /\ phase \in {"drive", "telemetry", "coast"}
    /\ phase' = NextPhase(v, u)
    /\ velocity' = IF phase = "telemetry" /\ phase' = "coast" THEN <<>> ELSE v
    /\ volts' = u

OnTick ==
    /\ SpunOnce(velocity, volts)
    /\ fresh' = (fresh \/ Driving)
    /\ UNCHANGED <<fault, pole_pairs, watchdog, heard, exported, bus, sim, topics, batteryVars>>

OnJointStates ==
    /\ joint_states # <<>>
    /\ joint_states' = Tail(joint_states)
    /\ SpunOnce(Head(joint_states), volts)
    /\ UNCHANGED <<fault, pole_pairs, driver, bus, sim, batteryVars>>

OnGpioStates ==
    /\ SpunOnce(velocity, [w \in Wheels |-> Telemetry[w].voltage])
    /\ UNCHANGED <<fault, pole_pairs, driver, bus, sim, topics, batteryVars>>

(* The deadline of a phase passes.                                         *)
GiveUp ==
    /\ phase \in {"drive", "telemetry", "coast"}
    /\ phase' = "fail"
    /\ UNCHANGED <<fault, pole_pairs, velocity, volts, driver, bus, sim, topics, batteryVars>>

-----------------------------------------------------------------------------
(* esc_telemetry_to_battery on the same topic.                            *)
BatteryOnState ==
    /\ OnState(Telemetry)
    /\ UNCHANGED <<fault, pole_pairs, checker, driver, bus, sim, topics>>

BatteryTick ==
    /\ TickPublish
    /\ UNCHANGED <<fault, pole_pairs, checker, driver, bus, sim, topics>>

LoopNext ==
    \/ CmdTimeout \/ GraceEnds \/ DriverWrites \/ PublishJointStates
    \/ DriverReads
    \/ OnRpmCommand \/ SpinError \/ BroadcastStatus
    \/ OnTick \/ OnJointStates \/ OnGpioStates \/ GiveUp
    \/ BatteryOnState \/ BatteryTick

LoopSpec == LoopInit /\ [][LoopNext]_loopVars

(* Every process keeps running, and of the frames that keep coming the     *)
(* simulator decodes one again and again.                                  *)
LoopFairSpec ==
    /\ LoopSpec
    /\ WF_loopVars(CmdTimeout) /\ WF_loopVars(DriverWrites) /\ WF_loopVars(DriverReads)
    /\ WF_loopVars(PublishJointStates)
    /\ SF_loopVars(OnRpmCommand) /\ WF_loopVars(BroadcastStatus)
    /\ WF_loopVars(OnTick) /\ WF_loopVars(OnJointStates) /\ WF_loopVars(OnGpioStates)
    /\ WF_loopVars(BatteryOnState) /\ WF_loopVars(BatteryTick)

-----------------------------------------------------------------------------
(* The speed a wheel is told when the simulator has p pole pairs, and what *)
(* the checker sees of it in whole rpm; the stack with p is told from the  *)
(* right one if that is out of tolerance and reached within one period.    *)
SpeedAt(p) == Clamp((((Wanted * UrdfPolePairs) \div 100) * 100) \div p)
ShownAt(p) == (SpeedAt(p) \div 100) * 100

Telling ==
    /\ 2 * Tolerance < Wanted
    /\ \A p \in SimPolePairs \cup {UrdfPolePairs} : SpeedAt(p) <= SlewStep
    /\ \A p \in SimPolePairs \ {UrdfPolePairs} :
          ShownAt(p) - Wanted \notin -Tolerance .. Tolerance

(* PASS is earned: no fault of the stack that the checker exists to find   *)
(* gets past it, however stale the messages on their way to it were when   *)
(* it changed phases -- telemetry that is not decoded, another scale, no   *)
(* voltages, a last command that is latched (simulation/README.md).  Not   *)
(* so if the watchdog stops the wheels in between: "settled" is one sample.*)
NoFalsePass == phase = "pass" /\ watchdog # "late" => Faultless

(* A stack without a fault passes, if no deadline cuts it short, when all  *)
(* wheels have been heard of by the time the watchdog looks.               *)
HealthyPasses ==
    Faultless /\ [](phase # "fail") /\ [](watchdog # "late") => <>(phase = "pass")

(* Behind a stack that has passed, the handset ends up with the voltage of *)
(* the pack at rest, of all ESCs or of the one it was told to show, and    *)
(* also when it was told of one that there is not (see NoFalsePass).       *)
AtRest == [w \in Wheels |-> [voltage |-> Volts, current |-> 0]]

PassLightsHandset == phase = "pass" /\ watchdog # "late" ~> [](sent = Pack(AtRest))

(* check_dronecan_loopback.py:32: it "exits 0 if all three pass".  With    *)
(* the watchdog of rp1_drive.urdf:196-199, "zero RPM to ALL drive wheels"  *)
(* also when an ESC "never showed up on the bus at all", a faultless stack *)
(* does not get there by itself.                                           *)
FaultlessPasses == Faultless /\ [](phase # "fail") => <>(phase = "pass")

=============================================================================
