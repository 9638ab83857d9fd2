SPECIFICATION Spec
CONSTANTS
    Twists = {0, 1}
    Depth = 2
    MaxDelay = 1
    JoyPeriod = 1
    JoyTimeout = 2
    WatchdogPeriod = 1
    CmdVelTimeout = 6
    MaxCount = 7
INVARIANTS NoMotionWithoutDeadman ReleaseStopsPromptly HoldKeepsDriving
