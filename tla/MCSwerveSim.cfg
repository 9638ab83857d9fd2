SPECIFICATION SimSpec
CONSTANTS
    Corners <- MCPair
    PosX <- MCPosX
    PosY <- MCPosY
    TwoWheelSteered = {}
    SensorsAvailable = FALSE
    Quarter = 4
    Dir <- MCDir
    MaxLinear = 1
    MaxAngular = 1
    Reach = 2
    NoCmd = NoCmd
    SimTwists <- MCSimTwists
    CmdTimeout = 2
    MaxStep = 3
INVARIANTS AxesArrive OdometryFollows
