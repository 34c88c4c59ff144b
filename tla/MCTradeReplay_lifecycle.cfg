SPECIFICATION Spec
CONSTANTS
    None = None
    Raised = Raised
    Frame <- MCFrame
    Market <- MCMarket
    Detection <- MCDetection
    Override <- MCOverride
    Level = {"standard", "conservative"}
    Hatch = {None, 1500}
    MaxBuilds = 2
    MaxBars = 4
    CdLegs = {0, 2}
INVARIANTS
    Restored
    SignalSound
    SimulatorsAgree
PROPERTIES
    StopNeverRetreats
    PositionCloses
CHECK_DEADLOCK FALSE
