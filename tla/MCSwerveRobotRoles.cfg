SPECIFICATION RobotSpec
CONSTANTS
    Corners <- MCCorners
    PosX <- MCPosX
    PosY <- MCPosY
    TwoWheelSteered <- MCSteered
    SensorsAvailable = TRUE
    Quarter = 4
    Dir <- MCDir
    MaxLinear = 1
    MaxAngular = 1
    Reach = 2
    NoCmd = NoCmd
    CommandTwists <- MCThreeTwists
    RawModes = {"FULL_SWERVE", "LOCKED_0"}
    Readings <- MCReadings
    Periods = {1}
    Timeout = 1
    Skew = 0
    LinearStep = 1
    AngularStep = 1
    BrakeAvailable = TRUE
    MaxMissed = 0
    SilenceCap = 2
    Acceleration = 2
    SteeringRate = 1
    Tolerance = 1
    Unit = 8
    FramesLost = {FALSE}
PROPERTY RolesChangeAtRest
