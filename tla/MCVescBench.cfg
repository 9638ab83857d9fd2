SPECIFICATION FairSpec
CONSTANTS
    Units = {u1, u2}
    NodeIds = {10, 11}
    Indices = {1, 2}
    Tools = {"gui", "listen", "pulse"}
    StopFrames = 5
    DropAfter = 1
    MaxChanges = 2
INVARIANTS IdsAreTrue PulseStops
PROPERTIES TableSettles TableAsRebuilt
CHECK_DEADLOCK FALSE
