----------------------------- MODULE StartupProofs -----------------------------
(***************************************************************************)
(* Theorems about SwerveStartup, for every set of launch files and of      *)
(* descriptions on disk: one spawner at a time, no simulation on the bus,  *)
(* and corners that agree.                                                 *)
(***************************************************************************)
EXTENDS SwerveStartup, FiniteSetTheorems, TLAPS

(* At most one member. *)
Single(S) == \A a, b \in S : a = b

LEMMA SingleCardinality == ASSUME NEW S, Single(S) PROVE Cardinality(S) <= 1
<1>1. CASE S = {}
  BY <1>1, FS_EmptySet
<1>2. CASE S # {}
  <2>1. PICK x : S = {x}
    BY <1>2 DEF Single
  <2> QED BY <2>1, FS_Singleton
<1> QED BY <1>1, <1>2

(* A spawner is running or its exit is to be handled, never both, and      *)
(* never two of them; before the timer there is none.                      *)
OneAtWork ==
    /\ Single(running) /\ Single(exited)
    /\ running # {} => exited = {}
    /\ timer => running = {} /\ exited = {}

(* What was refused never comes up, and the hardware is the one of the     *)
(* description.                                                            *)
AsDescribed ==
    /\ launch \in Launches
    /\ stage = "up" => ~Refused
    /\ hardware # "none" => stage = "up" /\ hardware = Description.plugin

LEMMA FileOf ==
    ASSUME launch \in Launches
    PROVE  \/ launch = "rp1_mvp" /\ file = RP1Mvp
           \/ launch = "rp1_mvp_elrs" /\ file = RP1MvpElrs
           \/ launch = "rp1_gazebo" /\ file = RP1Gazebo
           \/ launch = "rp1_swerve_mock" /\ file = RP1SwerveMock
           \/ launch = "rp1_swerve_dronecan" /\ file = RP1SwerveDronecan
           \/ launch = "rp1_swerve_gazebo" /\ file = RP1SwerveGazebo
           \/ launch = "steering_bench" /\ file = SteeringBench
<1>1. launch \in {"rp1_mvp", "rp1_mvp_elrs", "rp1_gazebo", "rp1_swerve_mock",
                 "rp1_swerve_dronecan", "rp1_swerve_gazebo", "steering_bench"}
  BY LaunchAssumption DEF Files
<1> QED BY <1>1 DEF file, Files

(* No name comes twice in a chain, so that at most one spawner follows.    *)
LEMMA ChainsBranchNot ==
    ASSUME launch \in Launches, NEW c
    PROVE  Single(Following(c))
<1>1. \/ file.chain = RP1Mvp.chain
      \/ file.chain = DiffDrive \/ file.chain = Swerve
      \/ file.chain = SteeringBench.chain
  <2>1. RP1MvpElrs.chain = DiffDrive /\ RP1Gazebo.chain = DiffDrive
    BY DEF File, RP1MvpElrs, RP1Gazebo
  <2>2. RP1SwerveMock.chain = Swerve /\ RP1SwerveDronecan.chain = Swerve
    BY DEF File, RP1SwerveMock, RP1SwerveDronecan
  <2>3. RP1SwerveGazebo.chain = Swerve
    BY DEF File, RP1SwerveGazebo
  <2> QED BY <2>1, <2>2, <2>3, FileOf
<1>2. \A i, j \in 1 .. Len(file.chain) - 1 : file.chain[i] = file.chain[j] => i = j
  BY <1>1 DEF RP1Mvp, DiffDrive, Swerve, SteeringBench, File
<1> QED BY <1>2 DEF Following, Single

LEMMA Unmoved ==
    ASSUME UNCHANGED <<launch, args, urdf>>
    PROVE  (Refused <=> Refused') /\ Description = Description'
  BY DEF Refused, Description, Edits, Matches, Replaced, PluginReplaced, file

(* What each step does to the launch file's part.                          *)
LEMMA StepKinds ==
    ASSUME [Next]_<<vars, controller>>
    PROVE  \/ UNCHANGED vars \/ Describe \/ TimerFires \/ OnExit \/ LoadHardware
           \/ \E c \in running, activated \in BOOLEAN : SpawnerExits(c, activated)
<1>1. CASE SwerveSpawnerExits
  <2>1. SpawnerExits("rp1_swerve_controller", lifecycle = "active")
    BY <1>1 DEF SwerveSpawnerExits
  <2>2. (lifecycle = "active") \in BOOLEAN
    OBVIOUS
  <2> DEFINE won == lifecycle = "active"
  <2>3. SpawnerExits("rp1_swerve_controller", won) /\ won \in BOOLEAN
    BY <2>1, <2>2
  <2>4. "rp1_swerve_controller" \in running
    BY <2>3 DEF SpawnerExits
  <2> HIDE DEF won
  <2> QED BY <2>3, <2>4
<1>2. CASE ~SwerveSpawnerExits
  BY <1>2 DEF Next, LaunchStep, StartupLoadHardware, OtherSpawnerExits, Load, Activate, Deactivate
<1> QED BY <1>1, <1>2

LEMMA DescribedStep ==
    ASSUME AsDescribed, [Next]_<<vars, controller>>
    PROVE  AsDescribed'
<1>1. UNCHANGED <<launch, args, urdf>>
  BY StepKinds DEF vars, Describe, TimerFires, OnExit, LoadHardware, SpawnerExits
<1>2. (Refused <=> Refused') /\ Description = Description'
  BY <1>1, Unmoved
<1>3. stage' = "up" => ~Refused
  BY StepKinds DEF AsDescribed, vars, Describe, TimerFires, OnExit, LoadHardware, SpawnerExits
<1>4. hardware' # "none" => stage' = "up" /\ hardware' = Description.plugin
  BY StepKinds DEF AsDescribed, vars, Describe, TimerFires, OnExit, LoadHardware, SpawnerExits,
                   spawning
<1> QED BY <1>1, <1>2, <1>3, <1>4 DEF AsDescribed

LEMMA OneAtWorkStep ==
    ASSUME AsDescribed, OneAtWork, [Next]_<<vars, controller>>
    PROVE  OneAtWork'
<1>1. CASE UNCHANGED <<running, exited, timer>>
  BY <1>1 DEF OneAtWork, Single
<1>2. CASE TimerFires
  BY <1>2 DEF TimerFires, First, OneAtWork, Single
<1>3. CASE OnExit
  <2>1. PICK e \in exited : /\ exited' = exited \ {e} /\ timer' = timer
                            /\ running' = running \cup Following(e.name)
    BY <1>3 DEF OnExit
  <2>2. exited' = {} /\ running = {} /\ ~timer
    BY <2>1 DEF OneAtWork, Single
  <2>3. Single(Following(e.name))
    BY ChainsBranchNot DEF AsDescribed
  <2> QED BY <2>1, <2>2, <2>3 DEF OneAtWork, Single
<1>4. CASE \E c \in running, activated \in BOOLEAN : SpawnerExits(c, activated)
  <2>1. PICK c \in running, activated \in BOOLEAN :
           /\ running' = running \ {c} /\ timer' = timer
           /\ exited' = exited \cup {[name |-> c, activated |-> activated]}
    BY <1>4 DEF SpawnerExits
  <2>2. running' = {} /\ exited = {} /\ ~timer
    BY <2>1 DEF OneAtWork, Single
  <2> QED BY <2>1, <2>2 DEF OneAtWork, Single
<1> QED BY <1>1, <1>2, <1>3, <1>4, StepKinds DEF vars, Describe, LoadHardware, spawning

LEMMA Inductive == Spec => [](AsDescribed /\ OneAtWork)
<1>1. StartupInit => AsDescribed /\ OneAtWork
  BY DEF StartupInit, Init, AsDescribed, OneAtWork, Single
<1>2. AsDescribed /\ OneAtWork /\ [Next]_<<vars, controller>> => (AsDescribed /\ OneAtWork)'
  BY DescribedStep, OneAtWorkStep
<1> QED BY <1>1, <1>2, PTL DEF Spec

(* Never two spawners at the controller manager.                           *)
THEOREM SpawnersTakeTurns == Spec => []OneSpawnerAtATime
<1>1. OneAtWork => OneSpawnerAtATime
  BY SingleCardinality DEF OneAtWork, OneSpawnerAtATime
<1> QED BY <1>1, Inductive, PTL

(* A launch of a simulation or of mock hardware never drives the bus.      *)
THEOREM OffTheBus == Spec => []SimulationStaysOffTheBus
<1>1. ASSUME AsDescribed PROVE SimulationStaysOffTheBus
  <2> SUFFICES ASSUME \/ launch \in {"rp1_gazebo", "rp1_swerve_mock", "rp1_swerve_gazebo"}
                      \/ launch = "rp1_mvp" /\ args.use_mock,
                      hardware # "none"
               PROVE  hardware \notin RealHardware
    BY DEF SimulationStaysOffTheBus, RealHardware
  <2>1. ~Refused /\ hardware = Description.plugin
    BY <1>1 DEF AsDescribed
  <2>2. /\ "<plugin>" \in Edits \/ "plugin by name" \in Edits
        /\ file.plugin \in {"mock", "GazeboSimSystem"}
    <3>1. \/ launch = "rp1_mvp" /\ args.use_mock /\ file = RP1Mvp
          \/ file = RP1Gazebo \/ file = RP1SwerveMock \/ file = RP1SwerveGazebo
      BY <1>1, FileOf DEF AsDescribed
    <3>2. file.plugin \in {"mock", "GazeboSimSystem"}
      <4>1. RP1Mvp.plugin = "mock" /\ RP1SwerveMock.plugin = "mock"
        BY DEF File, RP1Mvp, RP1SwerveMock
      <4>2. /\ RP1Gazebo.plugin = "GazeboSimSystem"
            /\ RP1SwerveGazebo.plugin = "GazeboSimSystem"
        BY DEF File, RP1Gazebo, RP1SwerveGazebo
      <4> QED BY <3>1, <4>1, <4>2
    <3>3. /\ "<plugin>" \in RP1Gazebo.edits /\ "<plugin>" \in RP1SwerveMock.edits
          /\ "plugin by name" \in RP1SwerveGazebo.edits
      BY DEF File, RP1Gazebo, RP1SwerveMock, RP1SwerveGazebo
    <3> QED BY <3>1, <3>2, <3>3 DEF Edits
  <2>3. PluginReplaced
    BY <2>1, <2>2 DEF Refused, PluginReplaced, Replaced
  <2>4. hardware = file.plugin
    BY <2>1, <2>3 DEF Description
  <2> QED BY <2>2, <2>4 DEF RealHardware
<1> QED BY <1>1, Inductive, PTL

(* Joint and telemetry of a corner have the same esc_index, by front_is.   *)
THEOREM CornersSwapTogether == Spec => []CornersAgree
<1>1. ASSUME AsDescribed PROVE CornersAgree
  <2> SUFFICES ASSUME launch = "rp1_mvp", stage = "up"
               PROVE  /\ Description.joint = Description.gpio
                      /\ Description.joint = Presets[args.front_is]
    BY DEF CornersAgree
  <2>1. "esc_index" \in Edits
    BY <1>1, FileOf DEF AsDescribed, Edits, File, RP1Mvp
  <2>2. Replaced("esc_index")
    BY <1>1, <2>1 DEF AsDescribed, Refused, Replaced
  <2> QED BY <2>2 DEF Description
<1> QED BY <1>1, Inductive, PTL

-----------------------------------------------------------------------------
(* The life of the controller.                                             *)

LEMMA FunctionsAreSequences ==
    ASSUME NEW n \in Nat, NEW S, NEW f \in [1 .. n -> S]
    PROVE  f \in Seq(S) /\ Len(f) = n /\ DOMAIN f = 1 .. n
  OBVIOUS

(* A look-up among interfaces that include all it wants finds them all, in *)
(* the order of the names.                                                 *)
LEMMA FoundAll ==
    ASSUME NEW names \in Seq(STRING), NEW interface, NEW lent,
           \A x \in Controller!On(names, interface) : \E loan \in lent : loan.id = x
    PROVE  LET f == Controller!Found(names, interface, lent, TRUE)
           IN  /\ f \in Seq(lent) /\ Len(f) = Len(names)
               /\ \A i \in 1 .. Len(names) : f[i] \in lent /\ f[i].id = <<names[i], interface>>
<1> DEFINE f == Controller!Found(names, interface, lent, TRUE)
           missing == { i \in DOMAIN names :
                          ~ \E loan \in lent : loan.id = <<names[i], interface>> }
<1>1. Len(names) \in Nat /\ DOMAIN names = 1 .. Len(names)
  OBVIOUS
<1>2. missing = {}
  <2> SUFFICES ASSUME NEW i \in DOMAIN names
               PROVE  \E loan \in lent : loan.id = <<names[i], interface>>
    OBVIOUS
  <2>1. <<names[i], interface>> \in Controller!On(names, interface)
    BY DEF Controller!On, Controller!ToSet
  <2> QED BY <2>1
<1>3. f = [i \in 1 .. Len(names) |-> CHOOSE loan \in lent : loan.id = <<names[i], interface>>]
  BY <1>2 DEF Controller!Found
<1>4. ASSUME NEW i \in 1 .. Len(names)
      PROVE  f[i] \in lent /\ f[i].id = <<names[i], interface>>
  <2>1. \E loan \in lent : loan.id = <<names[i], interface>>
    BY <1>1, <1>2
  <2>2. f[i] = CHOOSE loan \in lent : loan.id = <<names[i], interface>>
    BY <1>3
  <2> QED BY <2>1, <2>2
<1> HIDE DEF f, missing
<1>5. f \in [1 .. Len(names) -> lent]
  BY <1>3, <1>4
<1>6. f \in Seq(lent) /\ Len(f) = Len(names)
  BY <1>1, <1>5, FunctionsAreSequences
<1> QED BY <1>4, <1>6 DEF f

LEMMA FoundNone ==
    ASSUME NEW names, NEW interface, NEW lent
    PROVE  LET f == Controller!Found(names, interface, lent, FALSE)
           IN  f \in Seq(lent) /\ Len(f) = 0
<1>1. Controller!Found(names, interface, lent, FALSE)
        = [i \in 1 .. 0 |-> CHOOSE loan \in lent : loan.id = <<names[i], interface>>]
  BY DEF Controller!Found
<1>2. [i \in 1 .. 0 |-> CHOOSE loan \in lent : loan.id = <<names[i], interface>>] \in [1 .. 0 -> lent]
  OBVIOUS
<1> QED BY <1>1, <1>2, FunctionsAreSequences

(* The controller is loaded with valid parameters or not at all; it has    *)
(* references only while it is active, and then those its parameters name. *)
Bound ==
    /\ params \in ParameterTypes
    /\ lifecycle \in {"created", "rejected", "inactive", "active"}
    /\ lifecycle \in {"inactive", "active"} => Controller!Valid(params)
    /\ lifecycle # "active" => bound = Controller!Cleared
    /\ lifecycle = "active" =>
          /\ Controller!ClaimedOnce(params)
          /\ loans = [command |-> Controller!Lend(Controller!DeclaredCommands(params), activations),
                      state |-> Controller!Lend(Controller!DeclaredStates(params), activations)]
          /\ bound = Controller!LookedUp(params, loans)

(* What a vector holds: nothing if it is optional and left out, else one   *)
(* loan for each name, in order.                                           *)
Holds(vector, names, interface, lent, wanted) ==
    /\ vector \in Seq(lent)
    /\ wanted => /\ Len(vector) = Len(names)
                 /\ \A i \in 1 .. Len(names) : vector[i].id = <<names[i], interface>>
    /\ ~wanted => Len(vector) = 0

LEMMA Found ==
    ASSUME NEW names \in Seq(STRING), NEW interface, NEW lent, NEW wanted \in BOOLEAN,
           wanted => \A x \in Controller!On(names, interface) : \E loan \in lent : loan.id = x
    PROVE  Holds(Controller!Found(names, interface, lent, wanted), names, interface, lent, wanted)
<1>1. CASE wanted = TRUE
  BY <1>1, FoundAll DEF Holds
<1>2. CASE wanted = FALSE
  BY <1>2, FoundNone DEF Holds
<1> QED BY <1>1, <1>2

LEMMA LentIsThere ==
    ASSUME NEW wants, NEW declared, NEW number, wants \subseteq declared
    PROVE  \A x \in wants : \E loan \in Controller!Lend(declared, number) : loan.id = x
<1> SUFFICES ASSUME NEW x \in wants
             PROVE  \E loan \in Controller!Lend(declared, number) : loan.id = x
  OBVIOUS
<1>1. [id |-> x, number |-> number] \in Controller!Lend(declared, number)
  BY DEF Controller!Lend
<1> QED BY <1>1

(* Every vector of the controller, after a look-up among what it named.    *)
LEMMA LookUpHolds ==
    ASSUME NEW p \in ParameterTypes, NEW n, NEW lent,
           lent.command = Controller!Lend(Controller!DeclaredCommands(p), n),
           lent.state = Controller!Lend(Controller!DeclaredStates(p), n)
    PROVE  LET b == Controller!LookedUp(p, lent) IN
           /\ Holds(b["drive_velocity_command"], p.drive, "velocity", lent.command, TRUE)
           /\ Holds(b["steering_position_command"], p.steering, "position", lent.command, TRUE)
           /\ Holds(b["steering_seek_home_command"], p.steering, "seek_home", lent.command, p.homing)
           /\ Holds(b["steering_brake_command"], p.steering, "brake", lent.command, p.braking)
           /\ Holds(b["drive_velocity_state"], p.drive, "velocity", lent.state, TRUE)
           /\ Holds(b["steering_position_state"], p.steering, "position", lent.state, TRUE)
           /\ Holds(b["steering_home_0deg_state"], p.sensors, "home_0deg", lent.state, p.homing)
           /\ Holds(b["steering_home_90deg_state"], p.sensors, "home_90deg", lent.state, p.homing)
<1>1. /\ p.drive \in Seq(STRING) /\ p.steering \in Seq(STRING) /\ p.sensors \in Seq(STRING)
      /\ p.homing \in BOOLEAN /\ p.braking \in BOOLEAN
  BY DEF ParameterTypes
<1>2. LET declared == Controller!DeclaredCommands(p) IN
      /\ Controller!On(p.drive, "velocity") \subseteq declared
      /\ Controller!On(p.steering, "position") \subseteq declared
      /\ p.homing => Controller!On(p.steering, "seek_home") \subseteq declared
      /\ p.braking => Controller!On(p.steering, "brake") \subseteq declared
  BY DEF Controller!DeclaredCommands, Controller!Optional
<1>3. LET declared == Controller!DeclaredStates(p) IN
      /\ Controller!On(p.drive, "velocity") \subseteq declared
      /\ Controller!On(p.steering, "position") \subseteq declared
      /\ p.homing => Controller!On(p.sensors, "home_0deg") \subseteq declared
      /\ p.homing => Controller!On(p.sensors, "home_90deg") \subseteq declared
  BY DEF Controller!DeclaredStates, Controller!Optional
<1>4. /\ Holds(Controller!Found(p.drive, "velocity", lent.command, TRUE),
               p.drive, "velocity", lent.command, TRUE)
      /\ Holds(Controller!Found(p.steering, "position", lent.command, TRUE),
               p.steering, "position", lent.command, TRUE)
  <2>1. \A x \in Controller!On(p.drive, "velocity") : \E loan \in lent.command : loan.id = x
    BY <1>2, LentIsThere
  <2>2. \A x \in Controller!On(p.steering, "position") : \E loan \in lent.command : loan.id = x
    BY <1>2, LentIsThere
  <2> QED BY <1>1, <2>1, <2>2, Found
<1>5. Holds(Controller!Found(p.steering, "seek_home", lent.command, p.homing),
            p.steering, "seek_home", lent.command, p.homing)
  BY <1>1, <1>2, Found, LentIsThere
<1>6. Holds(Controller!Found(p.steering, "brake", lent.command, p.braking),
            p.steering, "brake", lent.command, p.braking)
  BY <1>1, <1>2, Found, LentIsThere
<1>7. /\ Holds(Controller!Found(p.drive, "velocity", lent.state, TRUE),
               p.drive, "velocity", lent.state, TRUE)
      /\ Holds(Controller!Found(p.steering, "position", lent.state, TRUE),
               p.steering, "position", lent.state, TRUE)
  <2>1. \A x \in Controller!On(p.drive, "velocity") : \E loan \in lent.state : loan.id = x
    BY <1>3, LentIsThere
  <2>2. \A x \in Controller!On(p.steering, "position") : \E loan \in lent.state : loan.id = x
    BY <1>3, LentIsThere
  <2> QED BY <1>1, <2>1, <2>2, Found
<1>8. Holds(Controller!Found(p.sensors, "home_0deg", lent.state, p.homing),
            p.sensors, "home_0deg", lent.state, p.homing)
  BY <1>1, <1>3, Found, LentIsThere
<1>9. Holds(Controller!Found(p.sensors, "home_90deg", lent.state, p.homing),
            p.sensors, "home_90deg", lent.state, p.homing)
  BY <1>1, <1>3, Found, LentIsThere
<1> QED BY <1>4, <1>5, <1>6, <1>7, <1>8, <1>9 DEF Controller!LookedUp

(* A controller that was given all it named finds as many as it has        *)
(* corners.                                                                *)
LEMMA Enough ==
    ASSUME NEW p \in ParameterTypes, NEW n, NEW lent, Controller!Valid(p),
           lent.command = Controller!Lend(Controller!DeclaredCommands(p), n),
           lent.state = Controller!Lend(Controller!DeclaredStates(p), n)
    PROVE  \A v \in Controller!Used(p) : Len(Controller!LookedUp(p, lent)[v]) = NumCorners
<1> DEFINE b == Controller!LookedUp(p, lent)
<1>1. Len(p.drive) = NumCorners /\ Len(p.steering) = NumCorners /\ Len(p.sensors) = NumCorners
  BY DEF Controller!Valid
<1>2. /\ Len(b["drive_velocity_command"]) = NumCorners
      /\ Len(b["steering_position_command"]) = NumCorners
      /\ p.homing => Len(b["steering_seek_home_command"]) = NumCorners
      /\ p.braking => Len(b["steering_brake_command"]) = NumCorners
      /\ Len(b["drive_velocity_state"]) = NumCorners
      /\ Len(b["steering_position_state"]) = NumCorners
      /\ p.homing => Len(b["steering_home_0deg_state"]) = NumCorners
      /\ p.homing => Len(b["steering_home_90deg_state"]) = NumCorners
  BY <1>1, LookUpHolds, SMTT(30) DEF Holds
<1> HIDE DEF b
<1>3. \A v \in Controller!Used(p) : Len(b[v]) = NumCorners
  BY <1>2 DEF Controller!Used, Controller!Vectors
<1> QED BY <1>3 DEF b

LEMMA BoundStep ==
    ASSUME Bound, [Next]_<<vars, controller>>
    PROVE  Bound'
<1>1. CASE Load
  <2>1. /\ lifecycle' = IF Controller!Valid(params) THEN "inactive" ELSE "rejected"
        /\ lifecycle = "created" /\ UNCHANGED <<params, bound>>
    BY <1>1 DEF Load, Controller!OnInit
  <2>2. Controller!Valid(params)' = Controller!Valid(params)
    BY <2>1 DEF Controller!Valid
  <2> QED BY <2>1, <2>2 DEF Bound, Controller!Cleared
<1>2. CASE Activate
  <2>1. /\ lifecycle = "inactive" /\ Controller!ClaimedOnce(params) /\ params' = params
        /\ loans' = [command |-> Controller!Lend(Controller!DeclaredCommands(params), activations'),
                     state |-> Controller!Lend(Controller!DeclaredStates(params), activations')]
        /\ bound' = Controller!LookedUp(params, loans')
        /\ lifecycle' = IF \A v \in Controller!Used(params) : Len(bound'[v]) = NumCorners
                        THEN "active" ELSE "error"
    BY <1>2 DEF Activate, Controller!OnActivate, Controller!Granted
  <2>2. params \in ParameterTypes /\ Controller!Valid(params)
    BY <2>1 DEF Bound
  <2>3. \A v \in Controller!Used(params) : Len(bound'[v]) = NumCorners
    BY <2>1, <2>2, Enough
  <2>4. lifecycle' = "active"
    BY <2>1, <2>3
  <2>5. /\ Controller!Valid(params') /\ Controller!ClaimedOnce(params')
        /\ bound' = Controller!LookedUp(params', loans')
        /\ loans' = [command |-> Controller!Lend(Controller!DeclaredCommands(params'), activations'),
                     state |-> Controller!Lend(Controller!DeclaredStates(params'), activations')]
    BY <2>1, <2>2
  <2> QED BY <2>1, <2>2, <2>4, <2>5 DEF Bound
<1>3. CASE Deactivate
  BY <1>3 DEF Deactivate, Controller!OnDeactivate, Bound, Controller!Cleared
<1>4. CASE UNCHANGED <<lifecycle, params, loans, bound, activations>>
  BY <1>4 DEF Bound
<1>5. CASE StartupLoadHardware
  BY <1>4, <1>5 DEF StartupLoadHardware, Controller!Export
<1>6. CASE UNCHANGED controller
  BY <1>4, <1>6 DEF controller
<1> QED BY <1>1, <1>2, <1>3, <1>5, <1>6
       DEF Next, LaunchStep, OtherSpawnerExits, SwerveSpawnerExits

LEMMA BoundInvariant == Spec => []Bound
<1>1. StartupInit => Bound
  <2> SUFFICES ASSUME StartupInit PROVE Bound
    OBVIOUS
  <2>1. PICK p \in Configurations : params = Overlaid(p)
    BY DEF StartupInit
  <2>2. p \in ParameterTypes
    BY StartupAssumption
  <2>3. params \in ParameterTypes
    BY <2>1, <2>2 DEF Overlaid, ParameterTypes
  <2> QED BY <2>3 DEF StartupInit, Controller!Init, Bound, Controller!Cleared
<1> QED BY <1>1, BoundStep, PTL DEF Spec

(* Declaring and looking up agree, with or without sensors and brakes: a   *)
(* controller whose parameters passed on_init and whose interfaces were    *)
(* lent finds every one of them (cpp:153-206, 247-397).                    *)
THEOREM NothingGrantedIsMissed == Spec => []GrantedMeansFound
<1>1. Bound => GrantedMeansFound
  BY DEF Bound, GrantedMeansFound, Controller!GrantedMeansFound
<1> QED BY <1>1, BoundInvariant, PTL

(* What was looked up among the loans of one activation is of that one.    *)
LEMMA LentForThis ==
    ASSUME NEW declared, NEW number, NEW vector \in Seq(Controller!Lend(declared, number)),
           NEW i \in 1 .. Len(vector)
    PROVE  vector[i] = [id |-> vector[i].id, number |-> number]
<1> DEFINE lent == Controller!Lend(declared, number)
<1>1. \A loan \in lent : loan = [id |-> loan.id, number |-> number]
  BY DEF Controller!Lend
<1> HIDE DEF lent
<1>2. vector \in Seq(lent)
  BY DEF lent
<1>3. vector[i] \in lent
  BY <1>2
<1> QED BY <1>1, <1>3

(* A vector that holds an interface for each of different names holds      *)
(* different ones, and so does one that is left empty.                     *)
LEMMA HeldOnce ==
    ASSUME NEW names \in Seq(STRING), NEW vector, NEW interface, NEW lent, NEW wanted \in BOOLEAN,
           Holds(vector, names, interface, lent, wanted), Controller!IsInjective(names)
    PROVE  Controller!IsInjective(vector)
<1>1. CASE wanted
  <2>1. DOMAIN vector = DOMAIN names /\ \A i \in DOMAIN names : vector[i].id[1] = names[i]
    BY <1>1 DEF Holds
  <2> QED BY <2>1 DEF Controller!IsInjective
<1>2. CASE ~wanted
  <2>1. DOMAIN vector = {}
    BY <1>2 DEF Holds
  <2> QED BY <2>1 DEF Controller!IsInjective
<1> QED BY <1>1, <1>2

(* While update() may run, every corner's references are there, and are    *)
(* the corner's own, lent for this activation: the eight vectors it        *)
(* indexes without a check are long enough, in the order of the names, and *)
(* no two corners write to the same interface (cpp:399-431).               *)
THEOREM CornersAreBound == Spec => []EveryCornerBound
<1>1. ASSUME Bound, lifecycle = "active"
      PROVE  EveryCornerBound
  <2> DEFINE Commands == Controller!Lend(Controller!DeclaredCommands(params), activations)
             States   == Controller!Lend(Controller!DeclaredStates(params), activations)
  <2>1. /\ params \in ParameterTypes /\ Controller!Valid(params)
        /\ Controller!ClaimedOnce(params) /\ bound = Controller!LookedUp(params, loans)
        /\ loans.command = Commands /\ loans.state = States
    BY <1>1 DEF Bound
  <2>2. \A v \in Controller!Used(params) : Len(bound[v]) = NumCorners
    BY <2>1, Enough
  <2>3. /\ Holds(bound["drive_velocity_command"], params.drive, "velocity", Commands, TRUE)
        /\ Holds(bound["steering_position_command"], params.steering, "position", Commands, TRUE)
        /\ Holds(bound["steering_seek_home_command"], params.steering, "seek_home", Commands, params.homing)
        /\ Holds(bound["steering_brake_command"], params.steering, "brake", Commands, params.braking)
        /\ Holds(bound["drive_velocity_state"], params.drive, "velocity", States, TRUE)
        /\ Holds(bound["steering_position_state"], params.steering, "position", States, TRUE)
        /\ Holds(bound["steering_home_0deg_state"], params.sensors, "home_0deg", States, params.homing)
        /\ Holds(bound["steering_home_90deg_state"], params.sensors, "home_90deg", States, params.homing)
    BY <2>1, LookUpHolds
  <2>4. /\ Len(params.drive) = NumCorners /\ Len(params.steering) = NumCorners
        /\ Len(params.sensors) = NumCorners
        /\ params.drive \in Seq(STRING) /\ params.steering \in Seq(STRING)
        /\ params.homing \in BOOLEAN /\ params.braking \in BOOLEAN
    BY <2>1 DEF Controller!Valid, ParameterTypes
  <2> DEFINE OwnLoans(vector, names, interface) ==
               \A i \in 1 .. NumCorners :
                  vector[i] = [id |-> <<names[i], interface>>, number |-> activations]
  <2>5. ASSUME NEW vector, NEW names, NEW interface, Len(names) = NumCorners,
               \/ Holds(vector, names, interface, Commands, TRUE)
               \/ Holds(vector, names, interface, States, TRUE)
        PROVE  OwnLoans(vector, names, interface)
    <3>1. /\ vector \in Seq(Commands) \/ vector \in Seq(States)
          /\ Len(vector) = Len(names)
          /\ \A i \in 1 .. Len(names) : vector[i].id = <<names[i], interface>>
      BY <2>5 DEF Holds
    <3>2. \A i \in 1 .. Len(vector) : vector[i] = [id |-> vector[i].id, number |-> activations]
      BY <3>1, LentForThis
    <3> QED BY <2>5, <3>1, <3>2
  <2> HIDE DEF Commands, States, OwnLoans
  <2>6. /\ OwnLoans(bound["drive_velocity_command"], params.drive, "velocity")
        /\ OwnLoans(bound["steering_position_command"], params.steering, "position")
        /\ params.homing => OwnLoans(bound["steering_seek_home_command"], params.steering, "seek_home")
        /\ params.braking => OwnLoans(bound["steering_brake_command"], params.steering, "brake")
        /\ OwnLoans(bound["drive_velocity_state"], params.drive, "velocity")
        /\ OwnLoans(bound["steering_position_state"], params.steering, "position")
        /\ params.homing => OwnLoans(bound["steering_home_0deg_state"], params.sensors, "home_0deg")
        /\ params.homing => OwnLoans(bound["steering_home_90deg_state"], params.sensors, "home_90deg")
    <3>1. /\ OwnLoans(bound["drive_velocity_command"], params.drive, "velocity")
          /\ OwnLoans(bound["drive_velocity_state"], params.drive, "velocity")
      BY <2>3, <2>4, <2>5
    <3>2. /\ OwnLoans(bound["steering_position_command"], params.steering, "position")
          /\ OwnLoans(bound["steering_position_state"], params.steering, "position")
      BY <2>3, <2>4, <2>5
    <3>3. ASSUME params.homing = TRUE
          PROVE  /\ OwnLoans(bound["steering_seek_home_command"], params.steering, "seek_home")
                 /\ OwnLoans(bound["steering_home_0deg_state"], params.sensors, "home_0deg")
                 /\ OwnLoans(bound["steering_home_90deg_state"], params.sensors, "home_90deg")
      <4>1. OwnLoans(bound["steering_seek_home_command"], params.steering, "seek_home")
        BY <2>3, <2>4, <2>5, <3>3
      <4>2. /\ OwnLoans(bound["steering_home_0deg_state"], params.sensors, "home_0deg")
            /\ OwnLoans(bound["steering_home_90deg_state"], params.sensors, "home_90deg")
        BY <2>3, <2>4, <2>5, <3>3
      <4> QED BY <4>1, <4>2
    <3>4. params.braking = TRUE => OwnLoans(bound["steering_brake_command"], params.steering, "brake")
      BY <2>3, <2>4, <2>5
    <3> QED BY <2>4, <3>1, <3>2, <3>3, <3>4
  <2>7. ASSUME NEW v \in Controller!Used(params), NEW i \in 1 .. NumCorners
        PROVE  bound[v][i] = [id |-> Controller!Own(i)[v], number |-> activations]
    <3>1. CASE v = "drive_velocity_command"
      BY <2>6, <3>1 DEF Controller!Own, OwnLoans
    <3>2. CASE v = "steering_position_command"
      BY <2>6, <3>2 DEF Controller!Own, OwnLoans
    <3>3. CASE v = "steering_seek_home_command"
      BY <2>6, <3>3 DEF Controller!Own, OwnLoans, Controller!Used
    <3>4. CASE v = "steering_brake_command"
      BY <2>6, <3>4 DEF Controller!Own, OwnLoans, Controller!Used
    <3>5. CASE v = "drive_velocity_state"
      BY <2>6, <3>5 DEF Controller!Own, OwnLoans
    <3>6. CASE v = "steering_position_state"
      BY <2>6, <3>6 DEF Controller!Own, OwnLoans
    <3>7. CASE v = "steering_home_0deg_state"
      BY <2>6, <3>7 DEF Controller!Own, OwnLoans, Controller!Used
    <3>8. CASE v = "steering_home_90deg_state"
      BY <2>6, <3>8 DEF Controller!Own, OwnLoans, Controller!Used
    <3> QED BY <3>1, <3>2, <3>3, <3>4, <3>5, <3>6, <3>7, <3>8 DEF Controller!Used, Controller!Vectors
  <2>8. \A v \in Controller!CommandVectors : Controller!IsInjective(bound[v])
    <3>1. /\ Controller!IsInjective(bound["drive_velocity_command"])
          /\ Controller!IsInjective(bound["steering_position_command"])
      BY <2>1, <2>3, <2>4, HeldOnce DEF Controller!ClaimedOnce
    <3>2. /\ Controller!IsInjective(bound["steering_seek_home_command"])
          /\ Controller!IsInjective(bound["steering_brake_command"])
      BY <2>1, <2>3, <2>4, HeldOnce DEF Controller!ClaimedOnce
    <3> QED BY <3>1, <3>2 DEF Controller!CommandVectors
  <2> QED BY <2>2, <2>7, <2>8 DEF EveryCornerBound, Controller!EveryCornerBound
<1>2. ASSUME Bound, lifecycle # "active"
      PROVE  EveryCornerBound
  BY <1>2 DEF EveryCornerBound, Controller!EveryCornerBound
<1>3. Bound => EveryCornerBound
  BY <1>1, <1>2
<1> QED BY <1>3, BoundInvariant, PTL

(* No reference outlives its loan: what the vectors hold has been lent for *)
(* this activation, and on_deactivate lets go of all of it (cpp:433-445).  *)
THEOREM NoneDangles == Spec => []NothingDangles
<1>1. ASSUME Bound, lifecycle = "active"
      PROVE  NothingDangles
  <2>1. /\ params \in ParameterTypes /\ bound = Controller!LookedUp(params, loans)
        /\ loans.command = Controller!Lend(Controller!DeclaredCommands(params), activations)
        /\ loans.state = Controller!Lend(Controller!DeclaredStates(params), activations)
    BY <1>1 DEF Bound
  <2>2. \A v \in Controller!Vectors : bound[v] \in Seq(loans.command) \/ bound[v] \in Seq(loans.state)
    BY <2>1, LookUpHolds DEF Holds, Controller!Vectors
  <2>3. ASSUME NEW S, NEW s \in Seq(S) PROVE Controller!ToSet(s) \subseteq S
    BY DEF Controller!ToSet
  <2> QED BY <2>2, <2>3 DEF NothingDangles, Controller!NothingDangles, Controller!Lent
<1>2. ASSUME Bound, lifecycle # "active"
      PROVE  NothingDangles
  <2>1. \A v \in Controller!Vectors : bound[v] = <<>>
    BY <1>2 DEF Bound, Controller!Cleared
  <2>2. Controller!ToSet(<<>>) = {}
    BY DEF Controller!ToSet
  <2> QED BY <2>1, <2>2 DEF NothingDangles, Controller!NothingDangles
<1>3. Bound => NothingDangles
  BY <1>1, <1>2
<1> QED BY <1>3, BoundInvariant, PTL

=============================================================================
