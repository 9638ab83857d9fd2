SPECIFICATION LoopFairSpec
CONSTANTS
    Escs <- MCEscs
    MeanSource = 0
    NumWheels = 2
    Wanted = 2217
    Tolerance = 239
    UrdfPolePairs = 10
    SimPolePairs <- MCPolePairs
    MaxRpm = 300000
    SlewStep = 40000
    Volts = 24
    Sources = {1, 9}
    Faults = {"none", "deaf", "no_voltage", "latched"}
    Depth = 1

PROPERTY FaultlessPasses
