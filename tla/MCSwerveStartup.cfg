SPECIFICATION FairSpec
CONSTANTS
    NumCorners = 4
    CornerNames <- MCCornerNames
    Configurations <- MCConfigurations
    MaxActivations = 3
    Launches <- Everything
    Urdfs <- MCUrdfs
INVARIANTS GrantedMeansFound EveryCornerBound NothingDangles OneSpawnerAtATime SimulationStaysOffTheBus CornersAgree
PROPERTIES ChainCompletes SwerveComesUp
CHECK_DEADLOCK FALSE
