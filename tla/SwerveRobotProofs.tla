-------------------------- MODULE SwerveRobotProofs --------------------------
(***************************************************************************)
(* Theorems about SwerveController, for every set of corners, geometry,    *)
(* ring of directions, timeout, clock skew, deceleration rate and bound on *)
(* failed writes; then the refinements around it.  The controller          *)
(* implements ModeSwitch; the robot is a controller, so that every theorem *)
(* about the controller is one about the robot; and on a robot that hears  *)
(* all its status frames no brake works against a servo.                   *)
(***************************************************************************)
EXTENDS SwerveRobot, SwerveKinematicsProofs

USE DEF Exists

(* Sets the type invariant is made of. *)
LEMMA ConstantFacts ==
    /\ Zero \in Twist
    /\ CommandTwists \subseteq Twist
    /\ Stamped = [twist : CommandTwists, age : -Skew .. Expired]
    /\ Timeout \in Nat /\ Skew \in Nat /\ Expired = Timeout + 1 /\ SilenceCap \in Nat
    /\ LinearStep \in Nat \ {0} /\ AngularStep \in Nat \ {0}
    /\ MaxLinear \in Nat /\ MaxAngular \in Nat /\ Reach \in Nat
    /\ Periods \subseteq Nat \ {0}
    /\ NoCmd \notin CommandTwists /\ NoCmd \notin Stamped
  BY ControllerAssumption, ReachAssumption DEF Zero, Twist, Expired, Stamped

LEMMA ValidateModeType == \A raw : ValidateMode(raw) \in Modes
  BY DEF ValidateMode, Modes

(* Deceleration brings an axis nearer to zero and never past it.           *)
LEMMA Toward0Facts ==
    ASSUME NEW value \in Int, NEW step \in Nat
    PROVE  /\ Toward0(value, step) \in Int
           /\ \/ 0 <= Toward0(value, step) /\ Toward0(value, step) <= value
              \/ value <= Toward0(value, step) /\ Toward0(value, step) <= 0
           /\ \/ Toward0(value, step) = 0
              \/ Magnitude(Toward0(value, step)) = Magnitude(value) - step
  BY DEF Toward0, Greatest, Least, Magnitude

LEMMA DecelerateType ==
    ASSUME NEW twist \in Twist, NEW ticks \in Nat
    PROVE  Decelerate(twist, ticks) \in Twist
<1>1. /\ twist.vx \in -MaxLinear .. MaxLinear
      /\ twist.vy \in -MaxLinear .. MaxLinear
      /\ twist.wz \in -MaxAngular .. MaxAngular
      /\ LinearStep * ticks \in Nat /\ AngularStep * ticks \in Nat
  BY ConstantFacts DEF Twist
<1> DEFINE x == Toward0(twist.vx, LinearStep * ticks)
           y == Toward0(twist.vy, LinearStep * ticks)
           z == Toward0(twist.wz, AngularStep * ticks)
<1>2. x \in -MaxLinear .. MaxLinear /\ y \in -MaxLinear .. MaxLinear
  BY <1>1, Toward0Facts, ConstantFacts
<1>3. z \in -MaxAngular .. MaxAngular
  BY <1>1, Toward0Facts, ConstantFacts
<1>4. Decelerate(twist, ticks) = [vx |-> x, vy |-> y, wz |-> z]
  BY DEF Decelerate
<1> QED BY <1>2, <1>3, <1>4 DEF Twist

(* What update() feeds the kinematics, given the type invariant.           *)
LEMMA UpdateTypes ==
    ASSUME TypeOK
    PROVE  /\ Committed \in Modes /\ Pending \in BOOLEAN
           /\ Received \in Twist /\ Seed \in Twist
           /\ Ramped \in Twist /\ Effective \in Twist
<1>1. Committed \in Modes /\ Pending \in BOOLEAN
  BY ValidateModeType DEF TypeOK, Committed, Pending
<1>2. Received \in Twist /\ Seed \in Twist
  BY ConstantFacts DEF TypeOK, Received, Seed
<1>3. Ramped \in Twist
  BY <1>2, DecelerateType, ConstantFacts DEF TypeOK, Ramped
<1> QED BY <1>1, <1>2, <1>3 DEF Effective

(* Every command computed by update() is well-typed. *)
LEMMA CommandTypes ==
    ASSUME TypeOK, NEW tie \in {-1, 1}, NEW c \in Corners
    PROVE  LET command == ComputeCornerCommands(Committed, Effective, home,
                                                last_steering_angle, tie)[c]
           IN  /\ command.speed \in -Reach .. Reach
               /\ command.angle \in Int
               /\ command.angle % Turn \in Headings
               /\ command.seek \in Seeks
               /\ command.brake \in BOOLEAN
<1> DEFINE w == Wheel(Committed, Effective, c, last_steering_angle, tie)
<1>1. last_steering_angle \in [Corners -> Int]
  BY DEF TypeOK, Headings
<1>2. w.speed \in -Reach .. Reach /\ w.angle \in Int
  BY <1>1, UpdateTypes, WheelFacts
<1>3. w.angle % Turn \in Headings
  BY <1>2, ModRange
<1> HIDE DEF w
<1>4. ComputeCornerCommands(Committed, Effective, home, last_steering_angle, tie)[c]
        = [speed |-> IF AnyPendingHome(Committed, home) THEN 0 ELSE w.speed,
           angle |-> w.angle,
           seek  |-> SeekCommand(Committed, c, home),
           brake |-> BrakeCommand(Committed, c, home)]
  BY DEF ComputeCornerCommands, w
<1>5. SeekCommand(Committed, c, home) \in Seeks
  BY DEF SeekCommand, Seeks
<1>6. BrakeCommand(Committed, c, home) \in BOOLEAN
  BY CornerAssumption DEF BrakeCommand, Locked, Confirmed
<1> QED BY <1>2, <1>3, <1>4, <1>5, <1>6, ConstantFacts

LEMMA LossTypes == \A lost \in LossSets : lost \subseteq Handles
  <1>1. ASSUME NEW f \in [1 .. MaxMissed -> Writable]
        PROVE  Range(f) \subseteq Handles
    BY Zenon DEF Range, Writable
  <1> QED BY <1>1 DEF LossSets

LEMMA WrittenType ==
    ASSUME NEW T, NEW old \in [Corners -> T], NEW new \in [Corners -> T],
           NEW interface, NEW lost
    PROVE  Written(interface, old, new, lost) \in [Corners -> T]
  BY DEF Written

(* FinishUpdate preserves the type invariant. *)
LEMMA FinishType ==
    ASSUME TypeOK, NEW tie \in {-1, 1}, NEW lost \in LossSets, FinishUpdate(tie, lost)
    PROVE  TypeOK'
<1> DEFINE commands == ComputeCornerCommands(Committed, Effective, home,
                                             last_steering_angle, tie)
<1>1. \A c \in Corners :
         /\ commands[c].speed \in -Reach .. Reach /\ commands[c].angle % Turn \in Headings
         /\ commands[c].seek \in Seeks /\ commands[c].brake \in BOOLEAN
  BY CommandTypes
<1> HIDE DEF commands
<1>2. /\ last_steering_angle' = [c \in Corners |-> commands[c].angle % Turn]
      /\ drive' = Written("drive", drive, [c \in Corners |-> commands[c].speed], lost)
      /\ steer' = Written("steer", steer, last_steering_angle', lost)
      /\ \/ seek' = Written("seek", seek, [c \in Corners |-> commands[c].seek], lost)
         \/ seek' = seek
      /\ \/ brake' = Written("brake", brake, [c \in Corners |-> commands[c].brake], lost)
         \/ brake' = brake
  BY DEF FinishUpdate, commands
<1>3. last_steering_angle' \in [Corners -> Headings]
  BY <1>1, <1>2
<1>4. drive' \in [Corners -> -Reach .. Reach]
  <2>1. [c \in Corners |-> commands[c].speed] \in [Corners -> -Reach .. Reach]
    BY <1>1
  <2> QED BY <1>2, <2>1, WrittenType DEF TypeOK
<1>5. steer' \in [Corners -> Headings]
  BY <1>2, <1>3, WrittenType DEF TypeOK
<1>6. seek' \in [Corners -> Seeks]
  <2>1. [c \in Corners |-> commands[c].seek] \in [Corners -> Seeks]
    BY <1>1
  <2>2. seek \in [Corners -> Seeks]
    BY DEF TypeOK
  <2>3. Written("seek", seek, [c \in Corners |-> commands[c].seek], lost) \in [Corners -> Seeks]
    BY <2>1, <2>2, WrittenType
  <2> QED BY ONLY <1>2, <2>2, <2>3
<1>7. brake' \in [Corners -> BOOLEAN]
  <2>1. [c \in Corners |-> commands[c].brake] \in [Corners -> BOOLEAN]
    BY <1>1
  <2>2. brake \in [Corners -> BOOLEAN]
    BY DEF TypeOK
  <2>3. Written("brake", brake, [c \in Corners |-> commands[c].brake], lost) \in [Corners -> BOOLEAN]
    BY <2>1, <2>2, WrittenType
  <2> QED BY ONLY <1>2, <2>2, <2>3
<1>8. /\ pc' = "written" /\ active_mode' \in Modes /\ mode_switch_ramping' \in BOOLEAN
      /\ ramp' \in Twist /\ missed' \subseteq Handles
  BY UpdateTypes, LossTypes DEF FinishUpdate
<1>9. UNCHANGED <<lifecycle, inputs, cmd_vel, period, states, silence>>
  BY DEF FinishUpdate
<1> QED BY <1>3, <1>4, <1>5, <1>6, <1>7, <1>8, <1>9 DEF TypeOK, inputs, states

(* The type invariant holds of every behaviour. *)
THEOREM TypeCorrect == Spec => []TypeOK
<1>1. Init => TypeOK
  <2> SUFFICES ASSUME Init PROVE TypeOK
    OBVIOUS
  <2>1. 0 \in -Reach .. Reach /\ 0 \in Headings /\ 0 \in 0 .. SilenceCap
    BY ConstantFacts, TurnFacts
  <2>2. "FULL_SWERVE" \in RawModes /\ "FULL_SWERVE" \in Modes
    BY ControllerAssumption DEF Modes
  <2> QED BY <2>1, <2>2, ConstantFacts DEF Init, TypeOK, Boxes, Seeks
<1>2. TypeOK /\ [Next]_vars => TypeOK'
  <2> SUFFICES ASSUME TypeOK, [Next]_vars PROVE TypeOK'
    OBVIOUS
  <2>1. CASE OnConfigure
    BY <2>1, ConstantFacts, ControllerAssumption
       DEF OnConfigure, TypeOK, Boxes, Modes, states, interfaces
  <2>2. CASE OnActivate
    BY <2>2 DEF OnActivate, TypeOK, inputs, modeState, states, interfaces
  <2>3. CASE OnDeactivate
    BY <2>3 DEF OnDeactivate, TypeOK, inputs, modeState, states, interfaces
  <2>4. CASE OnCleanup
    BY <2>4 DEF OnCleanup, TypeOK, inputs, modeState, states, interfaces
  <2>5. ASSUME NEW twist \in CommandTwists, NEW age \in -Skew .. Expired,
               ReceiveCmdVel(twist, age)
        PROVE  TypeOK'
    BY <2>5, ConstantFacts
       DEF ReceiveCmdVel, TypeOK, Boxes, Stamped, modeState, states, interfaces
  <2>6. ASSUME NEW raw \in RawModes, ReceiveMode(raw) PROVE TypeOK'
    BY <2>6 DEF ReceiveMode, TypeOK, modeState, states, interfaces
  <2>7. ASSUME NEW ticks \in Periods, NEW reading \in Readings, NEW still \in BOOLEAN,
               ReadStates(ticks, reading, still)
        PROVE  TypeOK'
    <3>1. Older(input_cmd_vel, ticks) \in Boxes
      <4>1. CASE input_cmd_vel = NoCmd
        BY <4>1 DEF Older, Boxes
      <4>2. CASE input_cmd_vel # NoCmd
        <5>1. input_cmd_vel \in [twist : CommandTwists, age : -Skew .. Expired]
          BY <4>2, ConstantFacts DEF TypeOK, Boxes
        <5>2. Least(input_cmd_vel.age + ticks, Expired) \in -Skew .. Expired
          BY <5>1, ConstantFacts DEF Least
        <5> QED BY <4>2, <5>1, <5>2, ConstantFacts DEF Older, Boxes
      <4> QED BY <4>1, <4>2
    <3>2. silence' \in 0 .. SilenceCap
      BY <2>7, ConstantFacts DEF ReadStates, TypeOK, Least
    <3> QED BY <2>7, <3>1, <3>2 DEF ReadStates, TypeOK, modeState, interfaces
  <2>8. CASE GetCommand
    <3>1. cmd_vel' \in {NoCmd} \cup CommandTwists
      BY <2>8, ConstantFacts DEF GetCommand, TypeOK, Stale, Boxes
    <3> QED BY <2>8, <3>1 DEF GetCommand, TypeOK, inputs, modeState, states, interfaces
  <2>9. ASSUME NEW tie \in {-1, 1}, NEW lost \in LossSets, FinishUpdate(tie, lost)
        PROVE  TypeOK'
    BY <2>9, FinishType
  <2>10. CASE UNCHANGED vars
    BY <2>10 DEF vars, TypeOK, inputs, modeState, states, interfaces
  <2> QED
    BY <2>1, <2>2, <2>3, <2>4, <2>5, <2>6, <2>7, <2>8, <2>9, <2>10
       DEF Next, Lifecycle, Callbacks, Cycle
<1> QED BY <1>1, <1>2, PTL DEF Spec

-----------------------------------------------------------------------------
(* What FinishUpdate leaves in the interfaces of a corner whose writes     *)
(* succeed.                                                                *)
LEMMA FinishWrites ==
    ASSUME TypeOK, NEW tie \in {-1, 1}, NEW lost \in LossSets, FinishUpdate(tie, lost),
           NEW c \in Corners
    PROVE  LET w == Wheel(Committed, Effective, c, last_steering_angle, tie)
           IN  /\ <<"drive", c>> \notin missed' =>
                     drive'[c] = IF AnyPendingHome(Committed, home) THEN 0 ELSE w.speed
               /\ <<"steer", c>> \notin missed' => steer'[c] = w.angle % Turn
               /\ SensorsAvailable /\ <<"seek", c>> \notin missed' =>
                     seek'[c] = SeekCommand(Committed, c, home)
               /\ BrakeAvailable /\ <<"brake", c>> \notin missed' =>
                     brake'[c] = BrakeCommand(Committed, c, home)
               /\ ~BrakeAvailable => brake' = brake
<1> DEFINE w == Wheel(Committed, Effective, c, last_steering_angle, tie)
           commands == ComputeCornerCommands(Committed, Effective, home,
                                             last_steering_angle, tie)
<1>1. /\ commands[c].speed = IF AnyPendingHome(Committed, home) THEN 0 ELSE w.speed
      /\ commands[c].angle = w.angle
      /\ commands[c].seek = SeekCommand(Committed, c, home)
      /\ commands[c].brake = BrakeCommand(Committed, c, home)
  BY DEF ComputeCornerCommands
<1> HIDE DEF w, commands
<1>2. /\ missed' = lost
      /\ last_steering_angle' = [d \in Corners |-> commands[d].angle % Turn]
      /\ drive' = Written("drive", drive, [d \in Corners |-> commands[d].speed], lost)
      /\ steer' = Written("steer", steer, last_steering_angle', lost)
      /\ SensorsAvailable =>
            seek' = Written("seek", seek, [d \in Corners |-> commands[d].seek], lost)
      /\ BrakeAvailable =>
            brake' = Written("brake", brake, [d \in Corners |-> commands[d].brake], lost)
      /\ ~BrakeAvailable => brake' = brake
  BY DEF FinishUpdate, commands
<1>3. <<"drive", c>> \notin missed' => drive'[c] = commands[c].speed
  BY <1>2 DEF Written
<1>4. <<"steer", c>> \notin missed' => steer'[c] = commands[c].angle % Turn
  BY <1>2 DEF Written
<1>5. SensorsAvailable /\ <<"seek", c>> \notin missed' => seek'[c] = commands[c].seek
  BY <1>2 DEF Written
<1>6. BrakeAvailable /\ <<"brake", c>> \notin missed' => brake'[c] = commands[c].brake
  BY <1>2 DEF Written
<1> QED BY <1>1, <1>2, <1>3, <1>4, <1>5, <1>6 DEF w

(* Only FinishUpdate ends in "written"; every other step either leaves the *)
(* interfaces, the modes and the readings alone or leaves "written".       *)
LEMMA OtherSteps ==
    ASSUME [Next]_vars, pc' = "written",
           ~ \E tie \in {-1, 1}, lost \in LossSets : FinishUpdate(tie, lost)
    PROVE  /\ pc = "written"
           /\ UNCHANGED <<modeState, states, interfaces, cmd_vel, lifecycle>>
           /\ silence' = silence \/ silence' = 0
<1>1. CASE Lifecycle
  BY <1>1 DEF Lifecycle, OnConfigure, OnActivate, OnDeactivate, OnCleanup
<1>2. CASE Callbacks
  BY <1>2 DEF Callbacks, ReceiveCmdVel, ReceiveMode
<1>3. CASE Cycle
  BY <1>3 DEF Cycle, ReadStates, GetCommand
<1>4. CASE UNCHANGED vars
  BY <1>4 DEF vars
<1> QED BY <1>1, <1>2, <1>3, <1>4 DEF Next

(* The homing gate holds in every behaviour: while a locked corner is      *)
(* unconfirmed no wheel whose write succeeded is left turning.             *)
THEOREM HomingGate == Spec => []HomingHoldsChassis
<1>1. Init => HomingHoldsChassis
  BY DEF Init, HomingHoldsChassis
<1>2. TypeOK /\ HomingHoldsChassis /\ [Next]_vars => HomingHoldsChassis'
  <2> SUFFICES ASSUME TypeOK, HomingHoldsChassis, [Next]_vars, pc' = "written",
                      AnyPendingHome(active_mode, home)',
                      NEW c \in Corners, Ok("drive", c)'
               PROVE  drive'[c] = 0
    BY DEF HomingHoldsChassis
  <2>1. CASE \E tie \in {-1, 1}, lost \in LossSets : FinishUpdate(tie, lost)
    <3>1. PICK tie \in {-1, 1}, lost \in LossSets : FinishUpdate(tie, lost)
      BY <2>1
    <3>2. AnyPendingHome(Committed, home)
      BY <3>1 DEF FinishUpdate, states, AnyPendingHome, Confirmed
    <3> QED BY <3>1, <3>2, FinishWrites DEF Ok
  <2>2. CASE ~ \E tie \in {-1, 1}, lost \in LossSets : FinishUpdate(tie, lost)
    <3>1. pc = "written" /\ UNCHANGED <<modeState, states, interfaces>>
      BY <2>2, OtherSteps
    <3>2. AnyPendingHome(active_mode, home) /\ Ok("drive", c)
      BY <3>1 DEF AnyPendingHome, Confirmed, Ok, modeState, states, interfaces
    <3> QED BY <3>1, <3>2 DEF HomingHoldsChassis, interfaces
  <2> QED BY <2>1, <2>2
<1> QED BY <1>1, <1>2, TypeCorrect, PTL DEF Spec

(* A brake that does not exist is never engaged: what BrakeOnlyOnReference *)
(* needs to be inductive.                                                  *)
NoBrakeNoGrip == ~BrakeAvailable => \A c \in Corners : ~brake[c]

LEMMA Gripless == Spec => []NoBrakeNoGrip
<1>1. Init => NoBrakeNoGrip
  BY DEF Init, NoBrakeNoGrip
<1>2. NoBrakeNoGrip /\ [Next]_vars => NoBrakeNoGrip'
  <2> SUFFICES ASSUME NoBrakeNoGrip, [Next]_vars PROVE NoBrakeNoGrip'
    OBVIOUS
  <2>1. ~BrakeAvailable => brake' = brake
    BY DEF Next, vars, Lifecycle, OnConfigure, OnActivate, OnDeactivate, OnCleanup,
           Callbacks, ReceiveCmdVel, ReceiveMode, Cycle, ReadStates, GetCommand,
           FinishUpdate, interfaces
  <2> QED BY <2>1 DEF NoBrakeNoGrip
<1> QED BY <1>1, <1>2, PTL DEF Spec

(* The brake grips only a corner that is locked, confirmed by its own      *)
(* sensor, commanded to its reference and not seeking.                     *)
THEOREM BrakeSafety == Spec => []BrakeOnlyOnReference
<1>1. Init => BrakeOnlyOnReference
  BY DEF Init, BrakeOnlyOnReference
<1>2. TypeOK /\ NoBrakeNoGrip /\ BrakeOnlyOnReference /\ [Next]_vars
         => BrakeOnlyOnReference'
  <2> SUFFICES ASSUME TypeOK, NoBrakeNoGrip, BrakeOnlyOnReference, [Next]_vars,
                      pc' = "written", NEW c \in Corners, brake'[c],
                      \A i \in Interfaces : Ok(i, c)'
               PROVE  /\ Locked(active_mode', c) /\ Confirmed(active_mode', c, home')
                      /\ steer'[c] = LockedAngle(active_mode')
                      /\ seek'[c] = "none"
    BY DEF BrakeOnlyOnReference
  <2>0. \A i \in Interfaces : <<i, c>> \notin missed'
    BY DEF Ok
  <2>1. CASE \E tie \in {-1, 1}, lost \in LossSets : FinishUpdate(tie, lost)
    <3>1. PICK tie \in {-1, 1}, lost \in LossSets : FinishUpdate(tie, lost)
      BY <2>1
    <3>2. BrakeAvailable
      BY <3>1, FinishWrites DEF NoBrakeNoGrip
    <3>3. BrakeCommand(Committed, c, home)
      BY <2>0, <3>1, <3>2, FinishWrites DEF Interfaces
    <3>4. Locked(Committed, c) /\ Confirmed(Committed, c, home) /\ SensorsAvailable
      BY <3>3 DEF BrakeCommand, Confirmed
    <3>5. active_mode' = Committed /\ home' = home
      BY <3>1 DEF FinishUpdate, states
    <3>6. seek'[c] = "none"
      BY <2>0, <3>1, <3>4, FinishWrites DEF Interfaces, SeekCommand
    <3>7. steer'[c] = LockedAngle(Committed)
      <4>1. last_steering_angle \in [Corners -> Int]
        BY DEF TypeOK, Headings
      <4>2. Wheel(Committed, Effective, c, last_steering_angle, tie).angle % Turn
               = LockedAngle(Committed)
        BY <3>4, <4>1, UpdateTypes, WheelFacts
      <4>3. steer'[c] = Wheel(Committed, Effective, c, last_steering_angle, tie).angle % Turn
        BY <2>0, <3>1, FinishWrites DEF Interfaces
      <4> QED BY <4>2, <4>3
    <3> QED BY <3>4, <3>5, <3>6, <3>7
  <2>2. CASE ~ \E tie \in {-1, 1}, lost \in LossSets : FinishUpdate(tie, lost)
    <3>1. /\ pc = "written" /\ active_mode' = active_mode /\ home' = home
          /\ brake' = brake /\ steer' = steer /\ seek' = seek /\ missed' = missed
      BY <2>2, OtherSteps DEF modeState, states, interfaces
    <3> QED BY <2>0, <3>1 DEF BrakeOnlyOnReference, Ok
  <2> QED BY <2>1, <2>2
<1> QED BY <1>1, <1>2, TypeCorrect, Gripless, PTL DEF Spec

-----------------------------------------------------------------------------
(* The stop bound.  An axis of the ramp is within its share of the budget  *)
(* when it has given up at least step for each tick of quiet.              *)
Within(value, max, step, quiet) == value = 0 \/ Magnitude(value) + step * quiet <= max

RampWithin(quiet) == /\ Within(ramp.vx, MaxLinear, LinearStep, quiet)
                     /\ Within(ramp.vy, MaxLinear, LinearStep, quiet)
                     /\ Within(ramp.wz, MaxAngular, AngularStep, quiet)

Grace == Timeout + Skew

(* The strengthening: the box ages at least as fast as silence grows, a    *)
(* copy that passed the watchdog means silence within the grace period,    *)
(* and an active ramp is within the budget of the silence it has seen (in  *)
(* the middle of a cycle, all but that cycle's period).                    *)
SilenceInv ==
    /\ input_cmd_vel # NoCmd => \/ input_cmd_vel.age >= silence - Skew
                                \/ input_cmd_vel.age = Expired
    /\ pc \in {"finish", "written"} /\ cmd_vel # NoCmd => silence <= Grace
    /\ mode_switch_ramping =>
          RampWithin(silence - Grace - IF pc \in {"get", "finish"} THEN period ELSE 0)
    /\ SilenceStops

LEMMA WithinMonotone ==
    ASSUME NEW value \in Int, NEW max \in Int, NEW step \in Nat,
           NEW q \in Int, NEW r \in Int, r <= q, Within(value, max, step, q)
    PROVE  Within(value, max, step, r)
<1>1. \A i, j \in Nat : i * j >= 0
  OBVIOUS
<1>2. step * (q - r) >= 0
  BY <1>1
<1>3. step * (q - r) = step * q - step * r /\ step * q \in Int /\ step * r \in Int
  OBVIOUS
<1>4. Magnitude(value) \in Int
  BY DEF Magnitude
<1> QED BY <1>2, <1>3, <1>4 DEF Within

LEMMA WithinSeed ==
    ASSUME NEW max \in Nat, NEW value \in -max .. max, NEW step \in Nat,
           NEW q \in Int, q <= 0
    PROVE  Within(value, max, step, q)
<1>1. Magnitude(value) <= max /\ Magnitude(value) \in Int
  BY DEF Magnitude
<1>2. \A i, j \in Nat : i * j >= 0
  OBVIOUS
<1>3. step * (-q) >= 0
  BY <1>2
<1>4. step * (-q) = -(step * q) /\ step * q \in Int
  OBVIOUS
<1> QED BY <1>1, <1>3, <1>4 DEF Within

LEMMA WithinDecelerated ==
    ASSUME NEW value \in Int, NEW max \in Int, NEW step \in Nat, NEW ticks \in Nat,
           NEW q \in Int, Within(value, max, step, q)
    PROVE  Within(Toward0(value, step * ticks), max, step, q + ticks)
<1>1. step * ticks \in Nat /\ step * q \in Int
  OBVIOUS
<1>2. step * (q + ticks) = step * q + step * ticks
  OBVIOUS
<1>3. CASE value = 0
  BY <1>1, <1>3, Toward0Facts DEF Within
<1>4. CASE value # 0
  <2>1. Magnitude(value) + step * q <= max /\ Magnitude(value) \in Int
    BY <1>4 DEF Within, Magnitude
  <2>2. \/ Toward0(value, step * ticks) = 0
        \/ Magnitude(Toward0(value, step * ticks)) = Magnitude(value) - step * ticks
    BY <1>1, Toward0Facts
  <2> QED BY <1>1, <1>2, <2>1, <2>2 DEF Within
<1> QED BY <1>3, <1>4

LEMMA WithinExhausted ==
    ASSUME NEW value \in Int, NEW max \in Int, NEW step \in Nat, NEW q \in Int,
           Within(value, max, step, q), step * q >= max
    PROVE  value = 0
<1>1. step * q \in Int /\ Magnitude(value) \in Int /\ Magnitude(value) >= 0
  BY DEF Magnitude
<1>2. value # 0 => Magnitude(value) > 0
  BY DEF Magnitude
<1> QED BY <1>1, <1>2 DEF Within

(* With no twist to follow, no wheel is given a speed.                     *)
LEMMA ZeroTwist ==
    ASSUME NEW m \in Modes, NEW c \in Corners, NEW tie \in {-1, 1},
           NEW last \in [Corners -> Int]
    PROVE  Wheel(m, Zero, c, last, tie).speed = 0
<1>1. CornerVelocity(Zero, c) = Still
  BY CornerAssumption DEF CornerVelocity, Zero, Still
<1>2. Still \in WheelVelocities
  BY <1>1, ConstantFacts DEF WheelVelocities
<1>3. SpeedOf[Still] = 0
  BY <1>2 DEF SpeedOf
<1>4. LockedWheel(m, Still, last[c], tie).speed = 0
  BY DEF LockedWheel, Still
<1>5. FreeWheel(Still, last[c], tie).speed = 0
  <2>1. \/ FreeWheel(Still, last[c], tie).speed = SpeedOf[Still]
        \/ FreeWheel(Still, last[c], tie).speed = -SpeedOf[Still]
    BY DEF FreeWheel
  <2> QED BY <1>3, <2>1
<1> QED BY <1>1, <1>4, <1>5 DEF Wheel

LEMMA RampTypes ==
    ASSUME TypeOK
    PROVE  /\ ramp.vx \in -MaxLinear .. MaxLinear
           /\ ramp.vy \in -MaxLinear .. MaxLinear
           /\ ramp.wz \in -MaxAngular .. MaxAngular
           /\ period \in Nat /\ silence \in Nat /\ Grace \in Nat
  BY ConstantFacts DEF TypeOK, Twist, Grace

(* A seeded or an active ramp is within the budget of the silence before   *)
(* the cycle that is about to end.                                         *)
LEMMA SeedWithin ==
    ASSUME TypeOK, SilenceInv, pc = "finish"
    PROVE  LET q == silence - Grace - period
           IN  /\ Within(Seed.vx, MaxLinear, LinearStep, q)
               /\ Within(Seed.vy, MaxLinear, LinearStep, q)
               /\ Within(Seed.wz, MaxAngular, AngularStep, q)
<1> DEFINE q == silence - Grace - period
<1>0. q \in Int /\ period \in Nat
  BY RampTypes
<1>1. CASE mode_switch_ramping
  BY <1>1 DEF Seed, SilenceInv, RampWithin
<1>2. CASE ~mode_switch_ramping /\ cmd_vel = NoCmd
  BY <1>2 DEF Seed, Received, Zero, Within
<1>3. CASE ~mode_switch_ramping /\ cmd_vel # NoCmd
  <2>1. q <= 0
    BY <1>3, RampTypes DEF SilenceInv
  <2>2. /\ Seed.vx \in -MaxLinear .. MaxLinear /\ Seed.vy \in -MaxLinear .. MaxLinear
        /\ Seed.wz \in -MaxAngular .. MaxAngular
    BY UpdateTypes DEF Twist
  <2> HIDE DEF q
  <2>3. Within(Seed.vx, MaxLinear, LinearStep, q)
    BY <1>0, <2>1, <2>2, WithinSeed, ConstantFacts
  <2>4. Within(Seed.vy, MaxLinear, LinearStep, q)
    BY <1>0, <2>1, <2>2, WithinSeed, ConstantFacts
  <2>5. Within(Seed.wz, MaxAngular, AngularStep, q)
    BY <1>0, <2>1, <2>2, WithinSeed, ConstantFacts
  <2> QED BY <2>3, <2>4, <2>5 DEF q
<1> QED BY <1>1, <1>2, <1>3

LEMMA RampedWithin ==
    ASSUME TypeOK, SilenceInv, pc = "finish", Pending
    PROVE  LET q == silence - Grace
           IN  /\ Within(Ramped.vx, MaxLinear, LinearStep, q)
               /\ Within(Ramped.vy, MaxLinear, LinearStep, q)
               /\ Within(Ramped.wz, MaxAngular, AngularStep, q)
<1> DEFINE q == silence - Grace - period
<1>1. /\ Ramped.vx = Toward0(Seed.vx, LinearStep * period)
      /\ Ramped.vy = Toward0(Seed.vy, LinearStep * period)
      /\ Ramped.wz = Toward0(Seed.wz, AngularStep * period)
  BY DEF Ramped, Decelerate
<1>2. Seed.vx \in Int /\ Seed.vy \in Int /\ Seed.wz \in Int
  BY UpdateTypes DEF Twist
<1>3. q \in Int /\ q + period = silence - Grace /\ period \in Nat
  BY RampTypes
<1>4. /\ Within(Seed.vx, MaxLinear, LinearStep, q)
      /\ Within(Seed.vy, MaxLinear, LinearStep, q)
      /\ Within(Seed.wz, MaxAngular, AngularStep, q)
  BY SeedWithin
<1> HIDE DEF q
<1>0. MaxLinear \in Int /\ MaxAngular \in Int /\ LinearStep \in Nat /\ AngularStep \in Nat
  BY ConstantFacts
<1>5. Within(Toward0(Seed.vx, LinearStep * period), MaxLinear, LinearStep, q + period)
  BY <1>0, <1>2, <1>3, <1>4, WithinDecelerated, Zenon
<1>6. Within(Toward0(Seed.vy, LinearStep * period), MaxLinear, LinearStep, q + period)
  BY <1>0, <1>2, <1>3, <1>4, WithinDecelerated, Zenon
<1>7. Within(Toward0(Seed.wz, AngularStep * period), MaxAngular, AngularStep, q + period)
  BY <1>0, <1>2, <1>3, <1>4, WithinDecelerated, Zenon
<1> QED BY <1>1, <1>3, <1>5, <1>6, <1>7

(* When the silence has used up the budget, update() follows no twist.     *)
LEMMA Exhausted ==
    ASSUME TypeOK, SilenceInv, pc = "finish",
           silence - Grace > 0,
           LinearStep * (silence - Grace) >= MaxLinear,
           AngularStep * (silence - Grace) >= MaxAngular
    PROVE  Effective = Zero
<1>1. CASE Pending
  <2> DEFINE q == silence - Grace
  <2>1. Ramped \in Twist
    BY UpdateTypes
  <2>2. Ramped.vx \in Int /\ Ramped.vy \in Int /\ Ramped.wz \in Int /\ q \in Int
    BY <2>1, RampTypes DEF Twist
  <2>3. /\ Within(Ramped.vx, MaxLinear, LinearStep, q)
        /\ Within(Ramped.vy, MaxLinear, LinearStep, q)
        /\ Within(Ramped.wz, MaxAngular, AngularStep, q)
    BY <1>1, RampedWithin
  <2>4. LinearStep * q >= MaxLinear /\ AngularStep * q >= MaxAngular
    OBVIOUS
  <2> HIDE DEF q
  <2>5. Ramped.vx = 0 /\ Ramped.vy = 0 /\ Ramped.wz = 0
    BY <2>2, <2>3, <2>4, WithinExhausted, ConstantFacts
  <2> QED BY <1>1, <2>1, <2>5 DEF Effective, Twist, Zero
<1>2. CASE ~Pending
  <2>1. cmd_vel = NoCmd
    BY RampTypes DEF SilenceInv
  <2> QED BY <1>2, <2>1 DEF Effective, Received
<1> QED BY <1>1, <1>2

(* With the control loop running, silence stops the wheels in bounded time *)
(* in every behaviour, whatever happens to the modes and the lifecycle.    *)
THEOREM BoundedCoast == Spec => []SilenceStops
<1>1. Init => SilenceInv
  BY DEF Init, SilenceInv, SilenceStops
<1>2. TypeOK /\ SilenceInv /\ [Next]_vars => SilenceInv'
  <2> SUFFICES ASSUME TypeOK, SilenceInv, [Next]_vars PROVE SilenceInv'
    OBVIOUS
  <2>0. /\ silence \in Nat /\ Skew \in Nat /\ Timeout \in Nat /\ Grace = Timeout + Skew
        /\ period \in Nat \ {0}
        /\ ramp.vx \in -MaxLinear .. MaxLinear /\ ramp.vy \in -MaxLinear .. MaxLinear
        /\ ramp.wz \in -MaxAngular .. MaxAngular
    BY RampTypes, ConstantFacts DEF Grace, TypeOK
  <2>1. CASE OnConfigure
    BY <2>1 DEF OnConfigure, SilenceInv, SilenceStops
  <2>2. CASE OnActivate \/ OnDeactivate \/ OnCleanup
    BY <2>2 DEF OnActivate, OnDeactivate, OnCleanup, BetweenCycles, SilenceInv,
                SilenceStops, RampWithin, inputs, modeState, interfaces
  <2>3. ASSUME NEW twist \in CommandTwists, NEW age \in -Skew .. Expired,
               ReceiveCmdVel(twist, age)
        PROVE  SilenceInv'
    <3>1. /\ silence' = 0 /\ input_cmd_vel' = [twist |-> twist, age |-> age]
          /\ UNCHANGED <<pc, ramp, mode_switch_ramping, cmd_vel, period>>
      BY <2>3 DEF ReceiveCmdVel, modeState
    <3>2. input_cmd_vel'.age >= silence' - Skew
      BY <3>1, <2>0, ConstantFacts
    <3>3. ~(silence' - Grace > 0)
      BY <3>1, <2>0
    <3>4. RampWithin(silence - Grace - IF pc \in {"get", "finish"} THEN period ELSE 0)'
      <4> DEFINE q == silence' - Grace - IF pc' \in {"get", "finish"} THEN period' ELSE 0
      <4>1. q \in Int /\ q <= 0
        BY <2>0, <3>1
      <4> HIDE DEF q
      <4>2. Within(ramp.vx, MaxLinear, LinearStep, q)
        BY <2>0, <4>1, WithinSeed, ConstantFacts
      <4>3. Within(ramp.vy, MaxLinear, LinearStep, q)
        BY <2>0, <4>1, WithinSeed, ConstantFacts
      <4>4. Within(ramp.wz, MaxAngular, AngularStep, q)
        BY <2>0, <4>1, WithinSeed, ConstantFacts
      <4> QED BY <3>1, <4>2, <4>3, <4>4 DEF q, RampWithin
    <3>5. silence' <= Grace
      BY <3>1, <2>0
    <3>6. SilenceStops'
      BY <3>3 DEF SilenceStops, Grace
    <3> QED BY <3>2, <3>4, <3>5, <3>6 DEF SilenceInv
  <2>4. ASSUME NEW raw \in RawModes, ReceiveMode(raw) PROVE SilenceInv'
    BY <2>4 DEF ReceiveMode, SilenceInv, SilenceStops, RampWithin, modeState,
                interfaces, Ok
  <2>5. ASSUME NEW ticks \in Periods, NEW reading \in Readings, NEW still \in BOOLEAN,
               ReadStates(ticks, reading, still)
        PROVE  SilenceInv'
    <3>1. /\ pc \notin {"get", "finish"} /\ pc' \in {"get", "idle"} /\ period' = ticks
          /\ pc' = "get" <=> lifecycle = "active"
          /\ input_cmd_vel' = Older(input_cmd_vel, ticks)
          /\ silence' = IF lifecycle = "active" THEN Least(silence + ticks, SilenceCap)
                                                ELSE silence
          /\ UNCHANGED <<ramp, mode_switch_ramping, cmd_vel>>
      BY <2>5 DEF ReadStates, BetweenCycles, modeState
    <3>2. ticks \in Nat \ {0} /\ silence' \in Nat /\ silence' <= silence + ticks
      BY <2>0, <3>1, ConstantFacts DEF Least
    <3>3. input_cmd_vel' # NoCmd => \/ input_cmd_vel'.age >= silence' - Skew
                                    \/ input_cmd_vel'.age = Expired
      <4>1. SUFFICES ASSUME input_cmd_vel' # NoCmd
                     PROVE  \/ input_cmd_vel'.age >= silence' - Skew
                            \/ input_cmd_vel'.age = Expired
        OBVIOUS
      <4>2. input_cmd_vel # NoCmd
        BY <3>1, <4>1 DEF Older
      <4>3. input_cmd_vel \in [twist : CommandTwists, age : -Skew .. Expired]
        BY <4>2, ConstantFacts DEF TypeOK, Boxes
      <4>4. input_cmd_vel'.age = Least(input_cmd_vel.age + ticks, Expired)
        BY <3>1, <4>2, <4>3 DEF Older
      <4> QED BY <2>0, <3>2, <4>2, <4>3, <4>4, ConstantFacts DEF SilenceInv, Least
    <3>4. mode_switch_ramping' =>
             RampWithin(silence - Grace - IF pc \in {"get", "finish"} THEN period ELSE 0)'
      <4> SUFFICES ASSUME mode_switch_ramping
                   PROVE RampWithin(silence - Grace - IF pc \in {"get", "finish"} THEN period ELSE 0)'
        BY <3>1
      <4> DEFINE q == silence - Grace
                 r == silence' - Grace - IF pc' \in {"get", "finish"} THEN period' ELSE 0
      <4>1. q \in Int /\ r \in Int /\ r <= q
        BY <2>0, <3>1, <3>2
      <4>2. RampWithin(q)
        BY <3>1, <2>0 DEF SilenceInv
      <4> HIDE DEF q, r
      <4>0. /\ MaxLinear \in Int /\ MaxAngular \in Int
            /\ LinearStep \in Nat /\ AngularStep \in Nat
            /\ ramp.vx \in Int /\ ramp.vy \in Int /\ ramp.wz \in Int
        BY <2>0, ConstantFacts
      <4>3. Within(ramp.vx, MaxLinear, LinearStep, r)
        BY <4>0, <4>1, <4>2, WithinMonotone, Zenon DEF RampWithin
      <4>4. Within(ramp.vy, MaxLinear, LinearStep, r)
        BY <4>0, <4>1, <4>2, WithinMonotone, Zenon DEF RampWithin
      <4>5. Within(ramp.wz, MaxAngular, AngularStep, r)
        BY <4>0, <4>1, <4>2, WithinMonotone, Zenon DEF RampWithin
      <4> QED BY <3>1, <4>3, <4>4, <4>5 DEF r, RampWithin
    <3> QED BY <3>1, <3>3, <3>4 DEF SilenceInv, SilenceStops
  <2>6. CASE GetCommand
    <3>1. /\ pc = "get" /\ pc' = "finish"
          /\ cmd_vel' = IF Stale(input_cmd_vel) THEN NoCmd ELSE input_cmd_vel.twist
          /\ UNCHANGED <<ramp, mode_switch_ramping, input_cmd_vel, period, silence>>
      BY <2>6 DEF GetCommand, inputs, modeState
    <3>2. cmd_vel' # NoCmd => silence' <= Grace
      <4>1. SUFFICES ASSUME cmd_vel' # NoCmd PROVE silence <= Grace
        BY <3>1
      <4>2. input_cmd_vel # NoCmd /\ ~(input_cmd_vel.age > Timeout)
        BY <3>1, <4>1 DEF Stale
      <4>3. input_cmd_vel.age \in Int
        BY <4>2, ConstantFacts DEF TypeOK, Boxes
      <4> QED BY <2>0, <4>2, <4>3, ConstantFacts DEF SilenceInv
    <3>3. mode_switch_ramping' =>
             RampWithin(silence - Grace - IF pc \in {"get", "finish"} THEN period ELSE 0)'
      BY <3>1 DEF SilenceInv, RampWithin
    <3> QED BY <3>1, <3>2, <3>3 DEF SilenceInv, SilenceStops
  <2>7. ASSUME NEW tie \in {-1, 1}, NEW lost \in LossSets, FinishUpdate(tie, lost)
        PROVE  SilenceInv'
    <3>1. /\ pc = "finish" /\ pc' = "written"
          /\ mode_switch_ramping' = Pending /\ ramp' = Ramped
          /\ UNCHANGED <<input_cmd_vel, cmd_vel, period, silence>>
      BY <2>7 DEF FinishUpdate, inputs
    <3>2. mode_switch_ramping' =>
             RampWithin(silence - Grace - IF pc \in {"get", "finish"} THEN period ELSE 0)'
      <4> SUFFICES ASSUME Pending
                   PROVE RampWithin(silence - Grace - IF pc \in {"get", "finish"} THEN period ELSE 0)'
        BY <3>1
      <4>1. silence' - Grace - 0 = silence - Grace
        BY <2>0, <3>1
      <4> QED BY <3>1, <4>1, RampedWithin DEF RampWithin
    <3>3. SilenceStops'
      <4> SUFFICES ASSUME silence - Grace > 0,
                          LinearStep * (silence - Grace) >= MaxLinear,
                          AngularStep * (silence - Grace) >= MaxAngular,
                          NEW c \in Corners, Ok("drive", c)'
                   PROVE  drive'[c] = 0
        BY <3>1 DEF SilenceStops, Grace
      <4>1. Effective = Zero /\ Committed \in Modes
        BY <3>1, Exhausted, UpdateTypes
      <4>2. last_steering_angle \in [Corners -> Int]
        BY DEF TypeOK, Headings
      <4>3. Wheel(Committed, Effective, c, last_steering_angle, tie).speed = 0
        BY <4>1, <4>2, ZeroTwist
      <4> QED BY <2>7, <4>3, FinishWrites DEF Ok
    <3> QED BY <3>1, <3>2, <3>3 DEF SilenceInv
  <2>8. CASE UNCHANGED vars
    BY <2>8 DEF vars, SilenceInv, SilenceStops, RampWithin, inputs, modeState,
                interfaces, Ok
  <2> QED
    BY <2>1, <2>2, <2>3, <2>4, <2>5, <2>6, <2>7, <2>8
       DEF Next, Lifecycle, Callbacks, Cycle
<1>3. SilenceInv => SilenceStops
  BY DEF SilenceInv
<1> QED BY <1>1, <1>2, <1>3, TypeCorrect, PTL DEF Spec

-----------------------------------------------------------------------------
(* The part of update() that decides on the mode.                          *)
LEMMA FinishSwitches ==
    ASSUME TypeOK, TypeOK', NEW tie \in {-1, 1}, NEW lost \in LossSets,
           FinishUpdate(tie, lost)
    PROVE  Switch!Next \/ UNCHANGED Switch!vars
<1>1. /\ active_mode' = Committed /\ mode_switch_ramping' = Pending /\ ramp' = Ramped
      /\ stopped' = stopped
  BY DEF FinishUpdate, states
<1>2. Committed \in Modes /\ Pending \in BOOLEAN
  BY UpdateTypes
<1>3. CASE stopped
  <2>1. Committed = ValidateMode(mode) /\ ~Pending
    BY <1>3 DEF Committed, Pending
  <2>2. Ramped = ramp
    BY <2>1 DEF Ramped
  <2> QED BY <1>1, <1>2, <1>3, <2>1, <2>2 DEF Switch!Next, Switch!Commit
<1>4. CASE ~stopped /\ ~Pending
  <2>1. Committed = active_mode /\ Ramped = ramp
    BY <1>4 DEF Committed, Ramped
  <2> QED BY <1>1, <1>4, <2>1 DEF Switch!Next, Switch!GiveUp
<1>5. CASE ~stopped /\ Pending
  <2>1. Committed = active_mode
    BY <1>5 DEF Committed
  <2>2. ramp' \in Twist
    BY DEF TypeOK
  <2>3. ASSUME mode_switch_ramping, NEW a \in {"vx", "vy", "wz"}
        PROVE  Switch!Slowed(ramp[a], ramp'[a])
    <3>0. /\ ramp.vx \in Int /\ ramp.vy \in Int /\ ramp.wz \in Int
          /\ LinearStep * period \in Nat /\ AngularStep * period \in Nat
      BY ConstantFacts DEF TypeOK, Twist
    <3>1. ramp' = Decelerate(ramp, period)
      BY <1>1, <1>5, <2>3 DEF Ramped, Seed
    <3>2. /\ ramp'.vx = Toward0(ramp.vx, LinearStep * period)
          /\ ramp'.vy = Toward0(ramp.vy, LinearStep * period)
          /\ ramp'.wz = Toward0(ramp.wz, AngularStep * period)
      BY <3>1 DEF Decelerate
    <3> QED BY <3>0, <3>2, <2>3, Toward0Facts DEF Switch!Slowed
  <2> QED BY <1>1, <1>5, <2>1, <2>2, <2>3 DEF Switch!Next, Switch!BringDown
<1> QED BY <1>2, <1>3, <1>4, <1>5

(* The controller implements ModeSwitch: its initial states are initial    *)
(* states of ModeSwitch, and each of its steps is a step of ModeSwitch or  *)
(* leaves what ModeSwitch looks at alone.                                  *)
THEOREM Refinement == Spec => SwitchesAsPromised
<1>1. Init => Switch!Init
  BY DEF Init, Switch!Init
<1>2. TypeOK /\ TypeOK' /\ [Next]_vars => [Switch!Next]_Switch!vars
  <2> SUFFICES ASSUME TypeOK, TypeOK', [Next]_vars
               PROVE  Switch!Next \/ UNCHANGED Switch!vars
    OBVIOUS
  <2>1. CASE UNCHANGED vars
    BY <2>1 DEF vars, modeState, states, Switch!vars
  <2>2. CASE OnConfigure
    BY <2>2 DEF OnConfigure, states, Switch!Next, Switch!Configure
  <2>3. CASE OnActivate \/ OnDeactivate \/ OnCleanup
    BY <2>3 DEF OnActivate, OnDeactivate, OnCleanup, modeState, states, Switch!vars
  <2>4. CASE Callbacks
    BY <2>4 DEF Callbacks, ReceiveCmdVel, ReceiveMode, modeState, states, Switch!vars
  <2>5. CASE \E ticks \in Periods, reading \in Readings, still \in BOOLEAN :
               ReadStates(ticks, reading, still)
    BY <2>5 DEF ReadStates, modeState, Switch!Next, Switch!Measure
  <2>6. CASE GetCommand
    BY <2>6 DEF GetCommand, modeState, states, Switch!vars
  <2>7. CASE \E tie \in {-1, 1}, lost \in LossSets : FinishUpdate(tie, lost)
    BY <2>7, FinishSwitches
  <2> QED BY <2>1, <2>2, <2>3, <2>4, <2>5, <2>6, <2>7 DEF Next, Lifecycle, Cycle
<1> QED BY <1>1, <1>2, TypeCorrect, PTL DEF Spec, Switch!Spec, SwitchesAsPromised

-----------------------------------------------------------------------------
(* What the sensors of a status frame report is a possible reading.        *)
LEMMA ReadingTypes ==
    ASSUME home \in Readings, NEW heard \in SUBSET Corners
    PROVE  [deg0  |-> SensorBits(home.deg0, heard, 0),
            deg90 |-> SensorBits(home.deg90, heard, Quarter)] \in Readings
<1>1. home \in [deg0 : SUBSET Corners, deg90 : SUBSET Corners]
  BY RobotAssumption
<1>2. \A h : /\ SensorBits(home.deg0, heard, h) \subseteq Corners
             /\ SensorBits(home.deg90, heard, h) \subseteq Corners
  BY <1>1 DEF SensorBits
<1> QED BY <1>2, RobotAssumption

(* Every step of the robot is a step of its controller.                    *)
LEMMA RobotStep ==
    ASSUME home \in Readings, [RobotNext]_robotVars
    PROVE  [Next]_vars /\ home' \in Readings
<1>1. CASE Lifecycle
  BY <1>1 DEF Lifecycle, OnConfigure, OnActivate, OnDeactivate, OnCleanup, Next, states
<1>2. CASE Callbacks
  BY <1>2 DEF Callbacks, ReceiveCmdVel, ReceiveMode, Next, states
<1>3. ASSUME NEW ticks \in Periods, NEW heard \in SUBSET Corners, NEW tie \in {-1, 1},
             RobotRead(ticks, heard, tie)
      PROVE  [Next]_vars /\ home' \in Readings
  <2> DEFINE reading == [deg0  |-> SensorBits(home.deg0, heard, 0),
                         deg90 |-> SensorBits(home.deg90, heard, Quarter)]
             still == IsStopped(BodySums(reported'), Tolerance, Unit)
  <2>1. reading \in Readings
    BY ReadingTypes
  <2>2. still \in BOOLEAN
    BY DEF IsStopped
  <2>3. ReadStates(ticks, reading, still)
    BY <1>3 DEF RobotRead
  <2> HIDE DEF reading, still
  <2>4. home' = reading
    BY <2>3 DEF ReadStates
  <2>5. Cycle
    BY <2>1, <2>2, <2>3 DEF Cycle
  <2> QED BY <2>1, <2>4, <2>5 DEF Next
<1>4. CASE GetCommand
  BY <1>4 DEF GetCommand, Next, Cycle, states
<1>5. CASE \E tie \in {-1, 1}, lost \in LossSets : FinishUpdate(tie, lost)
  <2>1. Next
    BY <1>5 DEF Next, Cycle
  <2>2. home' = home
    BY <1>5 DEF FinishUpdate, states
  <2> QED BY <2>1, <2>2
<1>6. CASE UNCHANGED robotVars
  BY <1>6 DEF robotVars, vars, states
<1> QED BY <1>1, <1>2, <1>3, <1>4, <1>5, <1>6 DEF RobotNext, RobotCycle, RobotUpdate

(* The robot contains a controller: closing the loop with wheels, axes and *)
(* lossy telemetry gives the controller no behaviour that SwerveController *)
(* does not have.  Its type invariant, homing gate, brake, stop bound and  *)
(* ModeSwitch therefore hold on the robot as well.                         *)
THEOREM RobotRefinesController == RobotSpec => Spec
<1>1. RobotInit => Init /\ home \in Readings
  BY DEF RobotInit, Init
<1>2. home \in Readings /\ [RobotNext]_robotVars => [Next]_vars /\ (home \in Readings)'
  BY RobotStep
<1> QED BY <1>1, <1>2, PTL DEF RobotSpec, Spec

-----------------------------------------------------------------------------
(* What makes BrakeNeverFights inductive: on a bus that loses nothing, a   *)
(* home bit that is set tells the truth about its axis, in the middle of a *)
(* control cycle too, because an axis moves only when its frame is heard.  *)
SensorsTell ==
    ~lossy => \A c \in Corners : /\ c \in home.deg0 => axis[c] = 0
                                 /\ c \in home.deg90 => axis[c] = Quarter

LEMMA SensorsTrue == RobotSpec => []SensorsTell
<1>1. RobotInit => SensorsTell
  BY DEF RobotInit, SensorsTell
<1>2. SensorsTell /\ [RobotNext]_robotVars => SensorsTell'
  <2> SUFFICES ASSUME SensorsTell, [RobotNext]_robotVars PROVE SensorsTell'
    OBVIOUS
  <2>1. ASSUME NEW ticks \in Periods, NEW heard \in SUBSET Corners, NEW tie \in {-1, 1},
               RobotRead(ticks, heard, tie), ~lossy, NEW c \in Corners
        PROVE  /\ c \in home'.deg0 => axis'[c] = 0
               /\ c \in home'.deg90 => axis'[c] = Quarter
    <3>1. heard = Corners
      BY <2>1 DEF RobotRead
    <3>2. home' = [deg0  |-> SensorBits(home.deg0, heard, 0),
                   deg90 |-> SensorBits(home.deg90, heard, Quarter)]
      BY <2>1 DEF RobotRead, ReadStates
    <3> QED BY <3>1, <3>2 DEF SensorBits
  <2>2. ASSUME NEW ticks \in Periods, NEW heard \in SUBSET Corners, NEW tie \in {-1, 1},
               RobotRead(ticks, heard, tie)
        PROVE  SensorsTell'
    <3>1. lossy' = lossy
      BY <2>2 DEF RobotRead
    <3> QED BY <2>1, <2>2, <3>1 DEF SensorsTell
  <2>3. CASE ~ \E ticks \in Periods, heard \in SUBSET Corners, tie \in {-1, 1} :
                 RobotRead(ticks, heard, tie)
    <3>1. UNCHANGED <<lossy, axis, home>>
      BY <2>3 DEF RobotNext, RobotCycle, RobotUpdate, robotVars, vars, plant, states, Lifecycle,
             OnConfigure, OnActivate, OnDeactivate, OnCleanup, Callbacks,
             ReceiveCmdVel, ReceiveMode, GetCommand, FinishUpdate
    <3> QED BY <3>1 DEF SensorsTell
  <2> QED BY <2>2, <2>3
<1> QED BY <1>1, <1>2, PTL DEF RobotSpec

(* No write fails: what the hypothesis of the theorem below means.         *)
LEMMA NothingLost ==
    ASSUME MaxMissed = 0, NEW lost \in LossSets
    PROVE  lost = {}
<1>1. ASSUME NEW f \in [1 .. 0 -> Writable] PROVE Range(f) = {}
  <2>1. DOMAIN f = {}
    BY <1>1
  <2> QED BY <2>1 DEF Range
<1> QED BY <1>1 DEF LossSets

(* On a robot whose writes reach the interfaces and whose bus loses no     *)
(* frame, an engaged brake holds its axis exactly where the position       *)
(* command wants it: whatever the modes, the geometry, the speed of the    *)
(* axes, the timing of requests and the lifecycle transitions.             *)
THEOREM BrakeNeverFightsServo ==
    ASSUME MaxMissed = 0
    PROVE  RobotSpec => []BrakeNeverFights
<1>1. RobotInit => BrakeNeverFights
  BY DEF RobotInit, Init, BrakeNeverFights
<1>2. /\ TypeOK /\ NoBrakeNoGrip /\ SensorsTell /\ BrakeNeverFights
      /\ [RobotNext]_robotVars
      => BrakeNeverFights'
  <2> SUFFICES ASSUME TypeOK, NoBrakeNoGrip, SensorsTell, BrakeNeverFights,
                      [RobotNext]_robotVars, ~lossy', NEW c \in Corners, brake'[c]
               PROVE  axis'[c] = steer'[c]
    BY DEF BrakeNeverFights
  <2>1. ASSUME NEW ticks \in Periods, NEW heard \in SUBSET Corners, NEW tie \in {-1, 1},
               RobotRead(ticks, heard, tie)
        PROVE  axis'[c] = steer'[c]
    <3>1. brake' = brake /\ steer' = steer /\ lossy' = lossy /\ axis'[c] = Turned(c, tie)
      BY <2>1 DEF RobotRead, ReadStates, interfaces
    <3> QED BY <3>1 DEF Turned, BrakeNeverFights
  <2>2. CASE (\E tie \in {-1, 1}, lost \in LossSets : FinishUpdate(tie, lost)) /\ UNCHANGED plant
    <3>1. PICK tie \in {-1, 1}, lost \in LossSets : FinishUpdate(tie, lost)
      BY <2>2
    <3>2. axis' = axis /\ lossy' = lossy
      BY <2>2 DEF plant
    <3>3. missed' = {}
      BY <3>1, NothingLost DEF FinishUpdate
    <3>4. BrakeAvailable
      BY <3>1, FinishWrites DEF NoBrakeNoGrip
    <3>5. BrakeCommand(Committed, c, home)
      BY <3>1, <3>3, <3>4, FinishWrites
    <3>6. Locked(Committed, c) /\ Confirmed(Committed, c, home)
      BY <3>5 DEF BrakeCommand
    <3>7. steer'[c] = LockedAngle(Committed)
      <4>1. last_steering_angle \in [Corners -> Int]
        BY DEF TypeOK, Headings
      <4>2. Wheel(Committed, Effective, c, last_steering_angle, tie).angle % Turn
               = LockedAngle(Committed)
        BY <3>6, <4>1, UpdateTypes, WheelFacts
      <4>3. steer'[c] = Wheel(Committed, Effective, c, last_steering_angle, tie).angle % Turn
        BY <3>1, <3>3, FinishWrites
      <4> QED BY <4>2, <4>3
    <3>8. axis[c] = LockedAngle(Committed)
      BY <3>2, <3>6 DEF SensorsTell, Confirmed, LockedAngle
    <3> QED BY <3>2, <3>7, <3>8
  <2>3. CASE /\ ~ \E ticks \in Periods, heard \in SUBSET Corners, tie \in {-1, 1} :
                     RobotRead(ticks, heard, tie)
             /\ ~ \E tie \in {-1, 1}, lost \in LossSets : FinishUpdate(tie, lost)
    <3>1. UNCHANGED <<lossy, axis, brake, steer>>
      BY <2>3 DEF RobotNext, RobotCycle, RobotUpdate, robotVars, vars, plant, interfaces, Lifecycle,
             OnConfigure, OnActivate, OnDeactivate, OnCleanup, Callbacks,
             ReceiveCmdVel, ReceiveMode, GetCommand
    <3> QED BY <3>1 DEF BrakeNeverFights
  <2> QED BY <2>1, <2>2, <2>3 DEF RobotNext, RobotCycle, RobotUpdate, robotVars, plant
<1>3. RobotSpec => []TypeOK /\ []NoBrakeNoGrip
  BY RobotRefinesController, TypeCorrect, Gripless, PTL
<1> QED BY <1>1, <1>2, <1>3, SensorsTrue, PTL DEF RobotSpec

=============================================================================
