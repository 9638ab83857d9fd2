SPECIFICATION Spec
CONSTANTS
    Corners <- MCCorners
    PosX <- MCPosX
    PosY <- MCPosY
    TwoWheelSteered <- MCSteered
    SensorsAvailable = TRUE
    Quarter = 8
    Dir <- MCDir
    MaxLinear = 2
    MaxAngular = 1
    Reach = 3
    NoCmd = NoCmd
    CommandTwists <- MCTwists
    RawModes = {"FULL_SWERVE", "TWO_WHEEL", "unrecognised"}
    Readings <- MCReadings
    Periods = {1, 2}
    Timeout = 1
    Skew = 0
    LinearStep = 1
    AngularStep = 1
    BrakeAvailable = TRUE
    MaxMissed = 1
    SilenceCap = 3
INVARIANTS TypeOK HomingHoldsChassis BrakeOnlyOnReference SilenceStops
PROPERTY SwitchesAsPromised
