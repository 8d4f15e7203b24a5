CONSTANTS
    Recorder = {t1, t2}
    Source = {"typed", "live", "none"}
    Capacity = 2
    MinDistance = 1
    Implausible = 2
    MaxOdo = 4
    MaxFills = 3
    MaxStamps = 4
SPECIFICATION Spec
INVARIANTS TypeOK OneIntervalPerRefuel ObservationsBacked LearnableIsTankToTank TwinIsTheTank
SYMMETRY Recordings
CHECK_DEADLOCK FALSE
