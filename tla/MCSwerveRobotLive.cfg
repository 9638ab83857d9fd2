SPECIFICATION FairRobotSpec
CONSTANTS
    Corners <- MCPair
    PosX <- MCPairX
    PosY <- MCPairY
    TwoWheelSteered <- MCPairSteered
    SensorsAvailable = TRUE
    Quarter = 4
    Dir <- MCDir
    MaxLinear = 1
    MaxAngular = 0
    Reach = 1
    NoCmd = NoCmd
    CommandTwists <- MCOneTwist
    RawModes = {"FULL_SWERVE", "LOCKED_0"}
    Readings <- MCPairReadings
    Periods = {1}
    Timeout = 1
    Skew = 0
    LinearStep = 1
    AngularStep = 1
    BrakeAvailable = TRUE
    MaxMissed = 0
    SilenceCap = 2
    Acceleration = 1
    SteeringRate = 2
    Tolerance = 1
    Unit = 8
    FramesLost = {FALSE, TRUE}
INVARIANT BrakeNeverFights
PROPERTIES SwitchLands QuietRobotRests HomingCompletes
