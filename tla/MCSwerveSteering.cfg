SPECIFICATION Spec
CONSTANTS
    Corners <- MCCorners
    PosX <- MCPosX
    PosY <- MCPosY
    TwoWheelSteered <- MCSteered
    SensorsAvailable = TRUE
    Quarter = 8
    Dir <- MCDir
    MaxLinear = 2
    MaxAngular = 1
    Reach = 3
    CommandTwists <- MCTwists
    Readings <- MCReadings
    MaxWinding = 1
INVARIANTS FlipPreservesMotion FitInvertsKinematics
PROPERTY ShortRotation
